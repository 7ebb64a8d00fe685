---------------------------- MODULE SshTerminal ----------------------------
(***************************************************************************)
(* The embedded SSH terminal: the registry of running terminals and its    *)
(* commands (src-tauri/src/runtime.rs), the controller that prompts for    *)
(* credentials and connects (runtime/ssh/interactive.rs), the reader       *)
(* thread (runtime/ssh/interactive_reader.rs) and the store of             *)
(* credentials the helpers reuse (runtime/ssh/auth.rs).                    *)
(*                                                                         *)
(* A run is one start_ssh_session call: its stop flag, its controller and  *)
(* its threads.  A tab may be started again, so a tab has several runs     *)
(* over time, and everything the runs of a tab share (the registry entry,  *)
(* the stored credentials, the metadata file) is keyed by the tab alone.   *)
(*                                                                         *)
(* Three kinds of thread interleave:                                       *)
(*   - the main thread runs the commands one at a time (they are           *)
(*     synchronous Tauri commands), but a command is many steps;           *)
(*   - "connect" dials, verifies and authenticates, then hands over;       *)
(*   - "reader" polls the channel until it closes or the flag is up.       *)
(* A step is what a thread does between two points at which another        *)
(* thread can see or change shared state.                                  *)
(***************************************************************************)
EXTENDS Naturals, FiniteSets

CONSTANTS
  Tabs,          \* tab ids
  Runs,          \* start_ssh_session calls: bounds how often sessions start
  NoRun,         \* no run
  NoTab,         \* no tab
  Profiles,      \* the session definitions that may be started
  NoProfile,     \* no session to start: the command is a plain stop
  Widths,        \* terminal widths the window may ask for
  DefaultWidth   \* DEFAULT_COLS

(* A profile says whether the username is saved and where the secret comes *)
(* from: typed by the user (password auth, none saved), saved (a password  *)
(* or a key passphrase), or not needed (a plain key, the agent).           *)
Secrets == {"prompt", "saved", "none"}

ASSUME RunsFinite == IsFiniteSet(Runs)
ASSUME NoRunNoTab == NoRun \notin Runs /\ NoTab \notin Tabs
ASSUME ProfilesType ==
  /\ Profiles \subseteq [username: BOOLEAN, secret: Secrets]
  /\ NoProfile \notin Profiles
ASSUME WidthsType ==
  Widths \subseteq Nat /\ DefaultWidth \in Nat /\ DefaultWidth >= 2

VARIABLES
  terminals,     \* AppRuntime.terminals: the run each tab is registered with
  pendingWidth,  \* AppRuntime.pending_terminal_sizes
  authUser,      \* auth store: the run whose username is kept for a tab
  authPassword,  \* auth store: the run whose password is kept for a tab
  userFile,      \* the metadata file of a tab holds a username
  main,          \* where the main thread is in the command it executes
  tabOf,         \* the tab a run was started for
  profile,       \* the session definition of a run
  stopFlag,      \* ActiveTerminal.stop_flag
  state,         \* EmbeddedSshState
  typed,         \* the prompt's buffer is not empty
  width,         \* EmbeddedSshController.terminal_size
  ptyWidth,      \* the width the remote PTY was given
  channel,       \* the SSH channel of a run
  pc,            \* where each thread of a run is
  wins,          \* finalize_terminal's should_emit, per thread
  exits,         \* exit events emitted for a run
  elders,        \* history: the runs of its tab that had a thread alive when
                 \* a run was launched
  robbed         \* history: runs whose entry finalize_terminal removed for an
                 \* elder

historyVars  == <<elders, robbed>>
registryVars == <<terminals, pendingWidth, tabOf, profile, historyVars>>
authVars     == <<authUser, authPassword, userFile>>
runVars      == <<state, typed, width, ptyWidth, channel>>
threadVars   == <<pc, wins, exits>>
vars == <<registryVars, authVars, main, stopFlag, runVars, threadVars>>

Kinds   == {"connect", "reader"}
Threads == Runs \X Kinds
Connect(r) == <<r, "connect">>
Reader(r)  == <<r, "reader">>
ThreadsOf(r) == {Connect(r), Reader(r)}

States ==
  {"unstarted", "awaitingUsername", "awaitingPassword", "connecting",
   "running", "closed"}
Prompting == {"awaitingUsername", "awaitingPassword"}

Finalizing == {"swap", "remove", "clear", "emit"}
PCs == {"idle", "check", "opening", "opened", "remembered", "top", "read"}
         \cup Finalizing

(* cols.max(2)                                                             *)
Clamp(w) == IF w < 2 THEN 2 ELSE w

Started(r) == tabOf[r] # NoTab

Idle(r) == \A t \in ThreadsOf(r) : pc[t] = "idle"

(* The runs of a tab that have a thread left.                              *)
Alive(tab) == {r \in Runs : tabOf[r] = tab /\ ~Idle(r)}

---------------------------------------------------------------------------
(* The main thread: stop_terminal, and the start that begins with it.      *)

MainIdle == main.at = "idle"

GoMain(at) == main' = [main EXCEPT !.at = at]

(* set_ssh_runtime_auth keeps what it is not given.                        *)
SetAuth(tab, r, withPassword) ==
  /\ authUser' = [authUser EXCEPT ![tab] = r]
  /\ authPassword' =
       IF withPassword THEN [authPassword EXCEPT ![tab] = r] ELSE authPassword
  /\ userFile' = [userFile EXCEPT ![tab] = TRUE]

(* clear_ssh_runtime_auth, which leaves the metadata file alone.           *)
ClearAuth(tab) ==
  /\ authUser' = [authUser EXCEPT ![tab] = NoRun]
  /\ authPassword' = [authPassword EXCEPT ![tab] = NoRun]

(* stop_terminal takes the entry out of the registry.  A start command     *)
(* does the same for its tab and continues with Launch.                    *)
TakeEntry(tab, next) ==
  /\ MainIdle
  /\ main' = [at   |-> IF terminals[tab] = NoRun THEN "forget" ELSE "signal",
              tab  |-> tab,
              run  |-> terminals[tab],
              next |-> next]
  /\ terminals' = [terminals EXCEPT ![tab] = NoRun]
  /\ UNCHANGED <<pendingWidth, tabOf, profile, historyVars, authVars, stopFlag,
                 runVars, threadVars>>

StopTerminal(tab) == TakeEntry(tab, NoProfile)

(* The tab may be started whatever the threads of its earlier runs do.     *)
StartSession(tab, p) == TakeEntry(tab, p)

(* Mutant of SignalStop: the entry is gone, the flag stays down.           *)
SignalStopSilent ==
  /\ main.at = "signal"
  /\ ClearAuth(tabOf[main.run])
  /\ GoMain("close")
  /\ UNCHANGED <<registryVars, stopFlag, userFile, runVars, threadVars>>

(* The stop flag goes up, and request_stop begins by clearing the          *)
(* credentials.                                                            *)
SignalStop ==
  /\ main.at = "signal"
  /\ stopFlag' = [stopFlag EXCEPT ![main.run] = TRUE]
  /\ ClearAuth(tabOf[main.run])
  /\ GoMain("close")
  /\ UNCHANGED <<registryVars, userFile, runVars, threadVars>>

(* request_stop closes the channel it finds and the controller's state.    *)
CloseState ==
  /\ main.at = "close"
  /\ channel' = IF state[main.run] = "running"
                  THEN [channel EXCEPT ![main.run] = "closed"]
                  ELSE channel
  /\ state' = [state EXCEPT ![main.run] = "closed"]
  /\ GoMain("forget")
  /\ UNCHANGED <<registryVars, authVars, stopFlag, typed, width, ptyWidth,
                 threadVars>>

(* stop_terminal ends by clearing the credentials and the metadata.        *)
Forget ==
  /\ main.at = "forget"
  /\ ClearAuth(main.tab)
  /\ userFile' = [userFile EXCEPT ![main.tab] = FALSE]
  /\ GoMain(IF main.next = NoProfile THEN "idle" ELSE "launch")
  /\ UNCHANGED <<registryVars, stopFlag, runVars, threadVars>>

FirstState(p) ==
  IF ~p.username THEN "awaitingUsername"
  ELSE IF p.secret = "prompt" THEN "awaitingPassword" ELSE "connecting"

(* start_embedded_ssh_session after its stop_terminal: a fresh controller  *)
(* is registered, and a run that needs no prompt begins to connect.        *)
Launch(r) ==
  LET tab == main.tab
      p == main.next
      direct == FirstState(p) = "connecting"
  IN
  /\ main.at = "launch"
  /\ ~Started(r)
  /\ tabOf' = [tabOf EXCEPT ![r] = tab]
  /\ profile' = [profile EXCEPT ![r] = p]
  /\ terminals' = [terminals EXCEPT ![tab] = r]
  /\ state' = [state EXCEPT ![r] = FirstState(p)]
  /\ width' = [width EXCEPT ![r] = pendingWidth[tab]]
  /\ IF direct
       THEN /\ SetAuth(tab, r, p.secret = "saved")
            /\ pc' = [pc EXCEPT ![Connect(r)] = "check"]
       ELSE /\ userFile' = [userFile EXCEPT ![tab] = FALSE]
            /\ UNCHANGED <<authUser, authPassword, pc>>
  /\ elders' = [elders EXCEPT ![r] = Alive(tab)]
  /\ GoMain("idle")
  /\ UNCHANGED <<pendingWidth, robbed, stopFlag, typed, ptyWidth, channel, wins,
                 exits>>

(* prepare_ssh_runtime_metadata fails: the start returns an error, and     *)
(* nothing is registered.                                                  *)
LaunchFails ==
  /\ main.at = "launch"
  /\ GoMain("idle")
  /\ UNCHANGED <<registryVars, authVars, stopFlag, runVars, threadVars>>

---------------------------------------------------------------------------
(* The main thread: terminal input and resizing.  Input is refused unless  *)
(* the tab is registered, ignored while connecting, and goes to the        *)
(* channel of a running session.                                           *)

Prompted(tab, r, s) ==
  /\ MainIdle
  /\ terminals[tab] = r
  /\ r # NoRun
  /\ state[r] = s

(* A printable byte, and a backspace, which empties the buffer or not.     *)
Type(tab, r, left) ==
  /\ \E s \in Prompting : Prompted(tab, r, s)
  /\ left \/ typed[r]
  /\ typed' = [typed EXCEPT ![r] = left]
  /\ UNCHANGED <<registryVars, authVars, main, stopFlag, state, width,
                 ptyWidth, channel, threadVars>>

(* Mutant of BeginConnect: Connecting is set by the new thread, too late.  *)
BeginConnectLate(r) ==
  IF stopFlag[r]
    THEN UNCHANGED <<state, pc>>
    ELSE /\ pc' = [pc EXCEPT ![Connect(r)] = "check"]
         /\ UNCHANGED state

(* Enter submits what was typed, and begin_connect spawns the connection   *)
(* unless the flag is up.                                                  *)
BeginConnect(r) ==
  IF stopFlag[r]
    THEN UNCHANGED <<state, pc>>
    ELSE /\ state' = [state EXCEPT ![r] = "connecting"]
         /\ pc' = [pc EXCEPT ![Connect(r)] = "check"]

SubmitUsername(tab, r) ==
  /\ Prompted(tab, r, "awaitingUsername")
  /\ typed[r]
  /\ SetAuth(tab, r, profile[r].secret = "saved")
  /\ IF profile[r].secret = "prompt"
       THEN /\ state' = [state EXCEPT ![r] = "awaitingPassword"]
            /\ UNCHANGED pc
       ELSE BeginConnect(r)
  /\ typed' = [typed EXCEPT ![r] = FALSE]
  /\ UNCHANGED <<registryVars, main, stopFlag, width, ptyWidth, channel,
                 wins, exits>>

(* An empty password is submitted like any other.                          *)
SubmitPassword(tab, r) ==
  /\ Prompted(tab, r, "awaitingPassword")
  /\ SetAuth(tab, r, TRUE)
  /\ BeginConnect(r)
  /\ UNCHANGED <<registryVars, main, stopFlag, typed, width, ptyWidth, channel,
                 wins, exits>>

(* Mutant of Resize: only a running session is told.                       *)
ResizeRunningOnly(tab, w) ==
  LET r == terminals[tab]
      running == r # NoRun /\ state[r] = "running"
  IN
  /\ MainIdle
  /\ pendingWidth' = [pendingWidth EXCEPT ![tab] = Clamp(w)]
  /\ width' = IF running THEN [width EXCEPT ![r] = Clamp(w)] ELSE width
  /\ ptyWidth' = IF running THEN [ptyWidth EXCEPT ![r] = Clamp(w)]
                            ELSE ptyWidth
  /\ UNCHANGED <<terminals, tabOf, profile, historyVars, authVars, main,
                 stopFlag, state, typed, channel, threadVars>>

(* resize_terminal remembers the size of the tab, and tells the controller *)
(* and, when the session is running, the remote PTY.                       *)
Resize(tab, w) ==
  LET r == terminals[tab] IN
  /\ MainIdle
  /\ pendingWidth' = [pendingWidth EXCEPT ![tab] = Clamp(w)]
  /\ width' = IF r = NoRun THEN width ELSE [width EXCEPT ![r] = Clamp(w)]
  /\ ptyWidth' = IF r # NoRun /\ state[r] = "running"
                   THEN [ptyWidth EXCEPT ![r] = Clamp(w)] ELSE ptyWidth
  /\ UNCHANGED <<terminals, tabOf, profile, historyVars, authVars, main,
                 stopFlag, state, typed, channel, threadVars>>

---------------------------------------------------------------------------
(* The connect thread: connect_and_run.                                    *)

Go(t, to) == pc' = [pc EXCEPT ![t] = to]

(* The only look at the flag; the terminal size is read here, before the   *)
(* connection is made.                                                     *)
ConnectStart(r) ==
  /\ pc[Connect(r)] = "check"
  /\ IF stopFlag[r]
       THEN /\ Go(Connect(r), "idle")
            /\ UNCHANGED ptyWidth
       ELSE /\ Go(Connect(r), "opening")
            /\ ptyWidth' = [ptyWidth EXCEPT ![r] = width[r]]
  /\ UNCHANGED <<registryVars, authVars, main, stopFlag, state, typed, width,
                 channel, wins, exits>>

(* open_embedded_ssh_channel returns a channel.  With password auth that   *)
(* needs a password that is not empty.                                     *)
OpenSucceeds(r) ==
  /\ pc[Connect(r)] = "opening"
  /\ profile[r].secret = "prompt" => typed[r]
  /\ channel' = [channel EXCEPT ![r] = "open"]
  /\ Go(Connect(r), "opened")
  /\ UNCHANGED <<registryVars, authVars, main, stopFlag, state, typed, width,
                 ptyWidth, wins, exits>>

(* The credentials are stored for the helpers, without a second look at    *)
(* the flag.                                                               *)
RememberAuth(r) ==
  /\ pc[Connect(r)] = "opened"
  /\ SetAuth(tabOf[r], r, profile[r].secret # "none")
  /\ Go(Connect(r), "remembered")
  /\ UNCHANGED <<registryVars, main, stopFlag, runVars, wins, exits>>

(* The session is running, and the reader takes over.                      *)
EnterRunning(r) ==
  /\ pc[Connect(r)] = "remembered"
  /\ state' = [state EXCEPT ![r] = "running"]
  /\ pc' = [pc EXCEPT ![Connect(r)] = "idle", ![Reader(r)] = "top"]
  /\ UNCHANGED <<registryVars, authVars, main, stopFlag, typed, width,
                 ptyWidth, channel, wins, exits>>

(* The errors of a connection attempt: the authentication call itself      *)
(* fails, the server denies the credentials, or anything else.             *)
ConnectErrors == {"authCallFailed", "denied", "other"}

(* should_retry_interactive_password: the text of a failed call says       *)
(* "authentication failed"; the text of a denial does not.                 *)
ShouldRetry(r, error) ==
  /\ profile[r].secret = "prompt"
  /\ error = "authCallFailed"

(* Mutant of OpenFails: an error that does not prompt again only returns.  *)
OpenFailsQuietly(r, error) ==
  /\ pc[Connect(r)] = "opening"
  /\ Go(Connect(r), "idle")
  /\ IF ShouldRetry(r, error)
       THEN /\ state' = [state EXCEPT ![r] = "awaitingPassword"]
            /\ typed' = [typed EXCEPT ![r] = FALSE]
       ELSE UNCHANGED <<state, typed>>
  /\ UNCHANGED <<registryVars, authVars, main, stopFlag, width, ptyWidth,
                 channel, wins, exits>>

(* The prompt comes back whatever the flag and the state have become.      *)
OpenFails(r, error) ==
  /\ pc[Connect(r)] = "opening"
  /\ IF ShouldRetry(r, error)
       THEN /\ Go(Connect(r), "idle")
            /\ state' = [state EXCEPT ![r] = "awaitingPassword"]
            /\ typed' = [typed EXCEPT ![r] = FALSE]
       ELSE /\ Go(Connect(r), "swap")
            /\ UNCHANGED <<state, typed>>
  /\ UNCHANGED <<registryVars, authVars, main, stopFlag, width, ptyWidth,
                 channel, wins, exits>>

---------------------------------------------------------------------------
(* The reader thread, and the remote end that closes the channel.          *)

RemoteCloses(r) ==
  /\ channel[r] = "open"
  /\ channel' = [channel EXCEPT ![r] = "closed"]
  /\ UNCHANGED <<registryVars, authVars, main, stopFlag, state, typed, width,
                 ptyWidth, threadVars>>

(* Mutant of ReaderTop: the loop does not look at the flag.                *)
ReaderTopBlind(r) ==
  /\ pc[Reader(r)] = "top"
  /\ Go(Reader(r), "read")
  /\ UNCHANGED <<registryVars, authVars, main, stopFlag, runVars, wins, exits>>

ReaderTop(r) ==
  /\ pc[Reader(r)] = "top"
  /\ Go(Reader(r), IF stopFlag[r] THEN "idle" ELSE "read")
  /\ UNCHANGED <<registryVars, authVars, main, stopFlag, runVars, wins, exits>>

ReaderRead(r) ==
  /\ pc[Reader(r)] = "read"
  /\ Go(Reader(r), IF channel[r] = "closed" THEN "swap" ELSE "top")
  /\ UNCHANGED <<registryVars, authVars, main, stopFlag, runVars, wins, exits>>

---------------------------------------------------------------------------
(* finalize_terminal, called by either thread.                             *)

(* Mutant of FinalizeSwap: the old value of the flag is ignored.           *)
FinalizeSwapBlind(t) ==
  /\ pc[t] = "swap"
  /\ wins' = [wins EXCEPT ![t] = TRUE]
  /\ stopFlag' = [stopFlag EXCEPT ![t[1]] = TRUE]
  /\ Go(t, "remove")
  /\ UNCHANGED <<registryVars, authVars, main, runVars, exits>>

FinalizeSwap(t) ==
  /\ pc[t] = "swap"
  /\ wins' = [wins EXCEPT ![t] = ~stopFlag[t[1]]]
  /\ stopFlag' = [stopFlag EXCEPT ![t[1]] = TRUE]
  /\ Go(t, "remove")
  /\ UNCHANGED <<registryVars, authVars, main, runVars, exits>>

(* The entry is removed by tab, whichever run it belongs to.               *)
FinalizeRemove(t) ==
  /\ pc[t] = "remove"
  /\ terminals' = [terminals EXCEPT ![tabOf[t[1]]] = NoRun]
  /\ robbed' = robbed \cup {r \in Runs : /\ terminals[tabOf[t[1]]] = r
                                        /\ t[1] \in elders[r]}
  /\ Go(t, "clear")
  /\ UNCHANGED <<pendingWidth, tabOf, profile, elders, authVars, main, stopFlag,
                 runVars, wins, exits>>

FinalizeClear(t) ==
  /\ pc[t] = "clear"
  /\ ClearAuth(tabOf[t[1]])
  /\ userFile' = [userFile EXCEPT ![tabOf[t[1]]] = FALSE]
  /\ Go(t, IF wins[t] THEN "emit" ELSE "idle")
  /\ UNCHANGED <<registryVars, main, stopFlag, runVars, wins, exits>>

FinalizeEmit(t) ==
  /\ pc[t] = "emit"
  /\ exits' = [exits EXCEPT ![t[1]] = @ + 1]
  /\ wins' = [wins EXCEPT ![t] = FALSE]
  /\ Go(t, "idle")
  /\ UNCHANGED <<registryVars, authVars, main, stopFlag, runVars>>

---------------------------------------------------------------------------
Init ==
  /\ terminals = [t \in Tabs |-> NoRun]
  /\ pendingWidth = [t \in Tabs |-> DefaultWidth]
  /\ authUser = [t \in Tabs |-> NoRun]
  /\ authPassword = [t \in Tabs |-> NoRun]
  /\ userFile = [t \in Tabs |-> FALSE]
  /\ main = [at |-> "idle", tab |-> NoTab, run |-> NoRun, next |-> NoProfile]
  /\ tabOf = [r \in Runs |-> NoTab]
  /\ profile = [r \in Runs |-> NoProfile]
  /\ stopFlag = [r \in Runs |-> FALSE]
  /\ state = [r \in Runs |-> "unstarted"]
  /\ typed = [r \in Runs |-> FALSE]
  /\ width = [r \in Runs |-> DefaultWidth]
  /\ ptyWidth = [r \in Runs |-> DefaultWidth]
  /\ channel = [r \in Runs |-> "none"]
  /\ pc = [t \in Threads |-> "idle"]
  /\ wins = [t \in Threads |-> FALSE]
  /\ exits = [r \in Runs |-> 0]
  /\ elders = [r \in Runs |-> {}]
  /\ robbed = {}

(* What the user and the window do.                                        *)
Command ==
  \E tab \in Tabs :
    \/ StopTerminal(tab)
    \/ \E p \in Profiles : StartSession(tab, p)
    \/ \E w \in Widths : Resize(tab, w)
    \/ \E r \in Runs : \/ \E left \in BOOLEAN : Type(tab, r, left)
                       \/ SubmitUsername(tab, r)
                       \/ SubmitPassword(tab, r)

(* The rest of a command that has begun.                                   *)
MainStep ==
  \/ SignalStop
  \/ CloseState
  \/ Forget
  \/ \E r \in Runs : Launch(r)
  \/ LaunchFails

ConnectStep(r) ==
  \/ ConnectStart(r)
  \/ OpenSucceeds(r)
  \/ RememberAuth(r)
  \/ EnterRunning(r)
  \/ \E error \in ConnectErrors : OpenFails(r, error)

ReaderStep(r) == ReaderTop(r) \/ ReaderRead(r)

Finalize(t) ==
  FinalizeSwap(t) \/ FinalizeRemove(t) \/ FinalizeClear(t) \/ FinalizeEmit(t)

Next ==
  \/ Command
  \/ MainStep
  \/ \E r \in Runs : ConnectStep(r) \/ ReaderStep(r) \/ RemoteCloses(r)
  \/ \E t \in Threads : Finalize(t)

(* Threads are scheduled, and a connection attempt ends: libssh gives up   *)
(* after EMBEDDED_SSH_TIMEOUT and a host-key prompt after its own timeout. *)
(* The user, the window and the remote end promise nothing.                *)
Fairness ==
  /\ WF_vars(MainStep)
  /\ \A r \in Runs : WF_vars(ConnectStep(r)) /\ WF_vars(ReaderStep(r))
  /\ \A t \in Threads : WF_vars(Finalize(t))

Spec == Init /\ [][Next]_vars

FairSpec == Spec /\ Fairness

---------------------------------------------------------------------------
(* Type invariant.  No PTY is ever given fewer than two columns.           *)

PtyWidths == {w \in Nat : w >= 2}

MainPlaces == {"idle", "signal", "close", "forget", "launch"}

TypeOK ==
  /\ terminals \in [Tabs -> Runs \cup {NoRun}]
  /\ pendingWidth \in [Tabs -> PtyWidths]
  /\ authUser \in [Tabs -> Runs \cup {NoRun}]
  /\ authPassword \in [Tabs -> Runs \cup {NoRun}]
  /\ userFile \in [Tabs -> BOOLEAN]
  /\ main \in [at: MainPlaces, tab: Tabs \cup {NoTab}, run: Runs \cup {NoRun},
               next: Profiles \cup {NoProfile}]
  /\ tabOf \in [Runs -> Tabs \cup {NoTab}]
  /\ profile \in [Runs -> Profiles \cup {NoProfile}]
  /\ stopFlag \in [Runs -> BOOLEAN]
  /\ state \in [Runs -> States]
  /\ typed \in [Runs -> BOOLEAN]
  /\ width \in [Runs -> PtyWidths]
  /\ ptyWidth \in [Runs -> PtyWidths]
  /\ channel \in [Runs -> {"none", "open", "closed"}]
  /\ pc \in [Threads -> PCs]
  /\ wins \in [Threads -> BOOLEAN]
  /\ exits \in [Runs -> Nat]
  /\ elders \in [Runs -> SUBSET Runs]
  /\ robbed \subseteq Runs

---------------------------------------------------------------------------
(* Safety.                                                                 *)

(* A run has one driver at a time.  While it prompts for credentials no    *)
(* thread of it connects or reads, so that submitting them cannot make a   *)
(* second connection; and it is never connecting and reading at once.      *)
SingleDriver ==
  \A r \in Runs :
    /\ state[r] \in Prompting => Idle(r)
    /\ pc[Connect(r)] = "idle" \/ pc[Reader(r)] = "idle"

(* When the exit event of a run is out, the registry no longer holds the   *)
(* run: the restart that the event invites cannot be refused or swallowed  *)
(* by what the old run left behind.                                        *)
ExitedRunIsGone ==
  \A r \in Runs : exits[r] > 0 => \A t \in Tabs : terminals[t] # r

(* A run that was neither stopped nor ended can be reached: its tab is     *)
(* registered with it, so that input, resizes and the stop of the tab get  *)
(* to it.  A command that has taken the entry out is about to raise the    *)
(* flag.  There is one way to lose it besides: a run of the same tab that  *)
(* was still ending when this one was launched finalizes afterwards and    *)
(* removes the entry, which finalize_terminal knows by its tab alone.      *)
LiveRunIsRegistered ==
  \A r \in Runs :
    Started(r) /\ ~stopFlag[r] =>
      \/ terminals[tabOf[r]] = r
      \/ main.at = "signal" /\ main.run = r
      \/ r \in robbed

(* The registry holds the runs that can be reached, and no others.         *)
RegistryIsTrue == LiveRunIsRegistered /\ ExitedRunIsGone

(* The size a run was told is the newest size of its tab: a resize between *)
(* two commands, before or after the start, is never lost on the way to    *)
(* the controller.                                                         *)
RegisteredRunHasLatestSize ==
  \A tab \in Tabs :
    terminals[tab] # NoRun => width[terminals[tab]] = pendingWidth[tab]

---------------------------------------------------------------------------
(* Liveness.                                                               *)

(* A run does not stay in Connecting for ever: it gets a session, a prompt *)
(* or its end.                                                             *)
ConnectingIsLeft ==
  \A r \in Runs :
    state[r] = "connecting" ~> state[r] # "connecting" \/ stopFlag[r]

---------------------------------------------------------------------------
(* TerminalLifecycle is implemented: whoever raises the flag of a run      *)
(* first, a command or one of two finalizing threads, decides whether the  *)
(* run is stopped in silence or reports its exit, which it does once.      *)

PhaseOf(r) ==
  IF ~Started(r) THEN "new"
  ELSE IF ~stopFlag[r] THEN "live"
  ELSE IF exits[r] > 1 THEN "reported twice"
  ELSE IF exits[r] = 1 THEN "exited"
  ELSE IF \E t \in ThreadsOf(r) : wins[t] THEN "ending"
  ELSE "stopped"

(* A run whose flag is up or whose channel the remote end has closed comes *)
(* to rest: its reader, a connection attempt under way and the finalizers  *)
(* end, and it was stopped by a command or has reported its exit.          *)
EndedRunQuiesces ==
  \A r \in Runs :
    stopFlag[r] \/ channel[r] = "closed" ~>
      Idle(r) /\ PhaseOf(r) \in {"stopped", "exited"}

phase == [r \in Runs |-> PhaseOf(r)]

Lifecycle == INSTANCE TerminalLifecycle

ImplementsLifecycle == Lifecycle!Spec

---------------------------------------------------------------------------
(* The inductive invariant behind the theorems of SshProofs.               *)

ConnectPCs == {"idle", "check", "opening", "opened", "remembered"}
                \cup Finalizing
ReaderPCs  == {"idle", "top", "read"} \cup Finalizing

(* Each kind of thread stays in its own code, and belongs to a run that    *)
(* was started; a run that was not is untouched.                           *)
InPlace(r) ==
  /\ pc[Connect(r)] \in ConnectPCs
  /\ pc[Reader(r)] \in ReaderPCs
  /\ Started(r) => profile[r] \in Profiles
  /\ ~Started(r) => /\ Idle(r)
                    /\ state[r] = "unstarted"
                    /\ ~stopFlag[r]
                    /\ exits[r] = 0
                    /\ \A t \in Tabs : terminals[t] # r

ThreadsInPlace == \A r \in Runs : InPlace(r)

(* The registry holds a run under its own tab, and no run under the tab of *)
(* a command in progress, which holds the entry it took.                   *)
RegistryInv ==
  /\ \A t \in Tabs : terminals[t] # NoRun => tabOf[terminals[t]] = t
  /\ ~MainIdle => main.tab \in Tabs /\ terminals[main.tab] = NoRun
  /\ main.at \in {"signal", "close"} =>
       main.run \in Runs /\ tabOf[main.run] = main.tab
  /\ main.at = "launch" => main.next \in Profiles

(* The flag is up from the swap on, and who wins it owes the only exit     *)
(* event of the run, whose entry is gone by then.                          *)
Owing == {"remove", "clear", "emit"}

FinalizeInv ==
  \A r \in Runs :
    /\ exits[r] <= 1
    /\ exits[r] = 1 => /\ stopFlag[r]
                       /\ \A t \in ThreadsOf(r) : ~wins[t]
    /\ \A t \in ThreadsOf(r) :
         /\ pc[t] \in Owing => stopFlag[r]
         /\ wins[t] => pc[t] \in Owing
         /\ pc[t] = "emit" => wins[t]

(* A registered run has not reported its exit, and whoever is going to     *)
(* report it has the entry still to remove.                                *)
GoneInv ==
  \A r \in Runs : \A tab \in Tabs :
    terminals[tab] = r =>
      /\ exits[r] = 0
      /\ \A t \in ThreadsOf(r) : wins[t] => pc[t] = "remove"

(* A registered run knows the runs of its tab that may yet finalize: they  *)
(* are its elders, for a run that is out of the registry starts no thread. *)
EldersKnown ==
  \A r \in Runs : \A s \in Runs \ {r} :
    Started(r) /\ terminals[tabOf[r]] = r /\ tabOf[s] = tabOf[r] =>
      Idle(s) \/ s \in elders[r]

ReachInv == EldersKnown /\ LiveRunIsRegistered

IInv ==
  /\ TypeOK
  /\ ThreadsInPlace
  /\ RegistryInv
  /\ SingleDriver
  /\ FinalizeInv
  /\ GoneInv
  /\ ReachInv

=============================================================================
