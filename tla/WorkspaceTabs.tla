--------------------------- MODULE WorkspaceTabs ---------------------------
(***************************************************************************)
(* The tabs of the window and the terminals behind them                    *)
(* (src/state/openXTermStoreTabActions.ts, openXTermStoreListeners.ts,     *)
(* openXTermStoreTerminalActions.ts, the tabs of openXTermStoreDomain.ts,  *)
(* src-tauri/src/runtime.rs, runtime/telnet.rs, runtime/serial.rs,         *)
(* runtime/status/mod.rs).                                                 *)
(*                                                                         *)
(* The window is one thread: its actions wait for paints and for answers,  *)
(* and between two waits anything else may happen to the store.  Commands  *)
(* are served one at a time in the order they were sent.  A local, Telnet  *)
(* or serial session is a run of the backend: its threads report output,   *)
(* status and its end by events, which arrive in the order they were       *)
(* emitted but at any time after the answer of a command.  The runs of SSH *)
(* sessions are in SshTerminal.                                            *)
(***************************************************************************)
EXTENDS Naturals, Sequences, FiniteSets, SequencesExt

CONSTANTS
  Tabs,         \* ids of tabs; an id is used once
  Sessions,     \* the sessions of the store
  Slots,        \* actions of the window under way at a time
  MaxRuns,      \* bounds the starts
  EditKinds,    \* the kinds a session may be saved with
  MaxActs       \* bounds the actions of the user

Live     == {"local", "telnet", "serial"}   \* isLiveTerminalKind, less ssh
Kinds    == Live \cup {"sftp"}
Runs     == 1 .. MaxRuns
Welcome  == "welcome"                       \* createWelcomeTab
NoTab    == [session |-> "none", kind |-> "none"]
Gone     == "gone"                          \* a session that was removed
Idle     == [what |-> "idle"]
NoTraces == [fed |-> FALSE, stopped |-> "unset", mode |-> "none"]
NoRun    == [tab |-> "none", kind |-> "none", flag |-> FALSE,
             end |-> "none", threads |-> {}, said |-> FALSE]

ASSUME TabsAssumption ==
  /\ Welcome \notin Tabs /\ "none" \notin Tabs
  /\ MaxRuns \in Nat /\ MaxActs \in Nat /\ 0 \notin Slots /\ IsFiniteSet(Slots)
  /\ EditKinds \subseteq Kinds

VARIABLES
  sessions,     \* the kind of each session
  row,          \* tabs: the open ones in order
  info,         \* the session of each tab that was ever opened
  active,       \* activeTabId
  traces,       \* by tab: terminalFeeds, terminalStopped, sessionStatus
  ops,          \* the actions of the window under way
  commands,     \* commands sent and not yet served
  main,         \* the run the command being served has spawned, or 0
  registry,     \* AppRuntime.terminals: a run of each tab, or 0
  runs,         \* the runs and their threads
  events,       \* events emitted and not yet handled
  acts,         \* counter
  hasty         \* history: tabs the user or a late thread got ahead of

window  == <<sessions, row, info, active, traces>>
backend == <<main, registry, runs>>
vars    == <<window, ops, commands, backend, events, acts, hasty>>

Open          == ToSet(row)
IsTerminal(t) == info[t].kind \in Live
Busy          == {o \in Slots : ops[o] # Idle}
Launched      == {r \in Runs : runs[r].kind # "none"}

(* Starts the window owes: actions that wait for a stop or a paint.        *)
Owed(t) == {o \in Busy : ops[o].what = "start" /\ ops[o].tab = t}

Removing(s) == \E o \in Busy : ops[o].what = "remove" /\ ops[o].session = s

(* SelectSeq with a set of elements to keep, as a recursive function.      *)
Only(seq, S) ==
  LET kept[i \in 0 .. Len(seq)] ==
        IF i = 0 THEN <<>>
        ELSE IF seq[i] \in S THEN Append(kept[i - 1], seq[i]) ELSE kept[i - 1]
  IN kept[Len(seq)]

---------------------------------------------------------------------------
(* Sending commands and waiting for them.                                  *)

Command(cmd, t, kind, o) == [cmd |-> cmd, tab |-> t, kind |-> kind, op |-> o]

StopOf(t, o) == Command("stop", t, "none", o)

Op(what, at, t, s, kind, todo) ==
  [what |-> what, at |-> at, answer |-> "none", tab |-> t, session |-> s,
   kind |-> kind, todo |-> todo]

Begin(o, op) == ops[o] = Idle /\ ops' = [ops EXCEPT ![o] = op]

Step(o, at) == ops' = [ops EXCEPT ![o].at = at, ![o].answer = "none"]

Waits(o, what, at) == ops[o] # Idle /\ ops[o].what = what /\ ops[o].at = at

Answered(o, what, at) == Waits(o, what, at) /\ ops[o].answer # "none"

Granted(o, what, at) == Waits(o, what, at) /\ ops[o].answer = "ok"

Finish(o) == ops' = [ops EXCEPT ![o] = Idle]

UserActs == acts < MaxActs /\ acts' = acts + 1

RunsLeft ==
  Cardinality(Launched) + Cardinality({o \in Busy : ops[o].what = "start"}) < MaxRuns

(* seedTerminalTabState: the transcript, and nothing of an earlier run.    *)
Seeded == [fed |-> TRUE, stopped |-> "no", mode |-> "none"]

(* openSession: the tab is shown at once, its transport is started after a *)
(* paint.                                                                  *)
OpenSession(s) ==
  /\ sessions[s] # Gone /\ UserActs
  /\ \E t \in {u \in Tabs : info[u] = NoTab} :
       /\ row' = Append(row, t)
       /\ info' = [info EXCEPT ![t] = [session |-> s, kind |-> sessions[s]]]
       /\ active' = t
       /\ IF sessions[s] \notin Live THEN UNCHANGED <<traces, ops>>
          ELSE /\ RunsLeft
               /\ traces' = [traces EXCEPT ![t] = Seeded]
               /\ \E o \in Slots : Begin(o, Op("start", "paint", t, s, sessions[s], <<>>))
       /\ hasty' = IF Removing(s) THEN hasty \cup {t} ELSE hasty
  /\ UNCHANGED <<sessions, commands, backend, events>>

(* restartTab, which a stopped terminal offers: the old run is stopped     *)
(* first, whatever the answer.                                             *)
RestartTab(t) ==
  LET s == info[t].session IN
  /\ t \in Open /\ IsTerminal(t) /\ traces[t].stopped = "yes"
  /\ sessions[s] \in Live /\ RunsLeft /\ UserActs
  /\ \E o \in Slots :
       /\ Begin(o, Op("start", "stop", t, s, sessions[s], <<>>))
       /\ commands' = Append(commands, StopOf(t, o))
  /\ hasty' = IF Removing(s) THEN hasty \cup {t} ELSE hasty
  /\ UNCHANGED <<window, backend, events>>

RestartSeeds(o) ==
  /\ Answered(o, "start", "stop")
  /\ active' = ops[o].tab
  /\ traces' = [traces EXCEPT ![ops[o].tab] = Seeded]
  /\ Step(o, "paint")
  /\ UNCHANGED <<sessions, row, info, commands, backend, events, acts, hasty>>

(* waitForTerminalTabPaint ends, startTerminalTransport is called; "none"  *)
(* is a session without the host, port or shell its start needs.           *)
Painted(o) ==
  /\ Waits(o, "start", "paint")
  /\ Step(o, "start")
  /\ \E kind \in {ops[o].kind, "none"} :
       commands' = Append(commands, Command("start", ops[o].tab, kind, o))
  /\ UNCHANGED <<window, backend, events, acts, hasty>>

(* applyTerminalLaunchError when the start was refused.                    *)
StartAnswered(o) ==
  /\ Answered(o, "start", "start")
  /\ traces' = IF ops[o].answer = "ok" THEN traces
               ELSE [traces EXCEPT ![ops[o].tab] = [fed |-> TRUE, stopped |-> "no", mode |-> "error"]]
  /\ Finish(o)
  /\ UNCHANGED <<sessions, row, info, active, commands, backend, events, acts, hasty>>

(* Mutant of CloseTab: what runs in the tab is not stopped.                *)
CloseTabOnly(t) ==
  /\ t \in Open /\ UserActs
  /\ row' = Only(row, Open \ {t})
  /\ active' = IF active # t THEN active ELSE IF row' = <<>> THEN Welcome ELSE Last(row')
  /\ traces' = [traces EXCEPT ![t] = NoTraces]
  /\ hasty' = IF Owed(t) = {} THEN hasty ELSE hasty \cup {t}
  /\ UNCHANGED <<sessions, info, ops, commands, backend, events>>

(* closeTab: the answer of the stop is not awaited.                        *)
CloseTab(t) ==
  /\ t \in Open /\ UserActs
  /\ row' = Only(row, Open \ {t})
  /\ active' = IF active # t THEN active ELSE IF row' = <<>> THEN Welcome ELSE Last(row')
  /\ traces' = [traces EXCEPT ![t] = NoTraces]
  /\ commands' = IF IsTerminal(t) THEN Append(commands, StopOf(t, 0)) ELSE commands
  /\ hasty' = IF Owed(t) = {} THEN hasty ELSE hasty \cup {t}
  /\ UNCHANGED <<sessions, info, ops, backend, events>>

---------------------------------------------------------------------------
(* Actions on a session that reach its tabs.                               *)

TabsOf(s) == {t \in Open : info[t].session = s}

(* removeSession stops the terminals of the session one after the other,   *)
(* deletes it, and only then takes its tabs away.                          *)
NextStop(o, s, todo) ==
  IF todo = <<>>
    THEN /\ commands' = Append(commands, Command("disk", "none", "none", o))
         /\ ops' = [ops EXCEPT ![o] = Op("remove", "delete", "none", s, "none", <<>>)]
    ELSE /\ commands' = Append(commands, StopOf(Head(todo), o))
         /\ ops' = [ops EXCEPT ![o] = Op("remove", "stop", "none", s, "none", Tail(todo))]

RemoveSession(s) ==
  /\ sessions[s] # Gone /\ ~ Removing(s) /\ UserActs
  /\ \E o \in Slots :
       /\ ops[o] = Idle
       /\ NextStop(o, s, Only(row, {t \in TabsOf(s) : IsTerminal(t)}))
  /\ hasty' = hasty \cup {t \in TabsOf(s) : Owed(t) # {}}
  /\ UNCHANGED <<window, backend, events>>

RemoveContinues(o) ==
  /\ Answered(o, "remove", "stop")
  /\ NextStop(o, ops[o].session, ops[o].todo)
  /\ UNCHANGED <<window, backend, events, acts, hasty>>

SessionRemoved(o) ==
  LET gone == TabsOf(ops[o].session) IN
  /\ Granted(o, "remove", "delete")
  /\ sessions' = [sessions EXCEPT ![ops[o].session] = Gone]
  /\ row' = Only(row, Open \ gone)
  /\ active' = IF active \notin gone THEN active ELSE IF row' = <<>> THEN Welcome ELSE Head(row')
  /\ traces' = [t \in Tabs |-> IF t \in gone THEN NoTraces ELSE traces[t]]
  /\ Finish(o)
  /\ UNCHANGED <<info, commands, backend, events, acts, hasty>>

(* removeSessionFolder: once they are deleted the sessions go, their tabs  *)
(* stay and run on.                                                        *)
RemoveFolder(s) ==
  /\ sessions[s] # Gone /\ UserActs
  /\ \E o \in Slots :
       /\ Begin(o, Op("folder", "delete", "none", s, "none", <<>>))
       /\ commands' = Append(commands, Command("disk", "none", "none", o))
  /\ UNCHANGED <<window, backend, events, hasty>>

FolderRemoved(o) ==
  /\ Granted(o, "folder", "delete")
  /\ sessions' = [sessions EXCEPT ![ops[o].session] = Gone]
  /\ Finish(o)
  /\ UNCHANGED <<row, info, active, traces, commands, backend, events, acts, hasty>>

EditSession(s, kind) ==
  /\ sessions[s] # Gone /\ kind # sessions[s] /\ UserActs
  /\ \E o \in Slots :
       /\ Begin(o, Op("edit", "save", "none", s, kind, <<>>))
       /\ commands' = Append(commands, Command("disk", "none", "none", o))
  /\ UNCHANGED <<window, backend, events, hasty>>

(* upsertSession after the save: its tabs take the new kind; a terminal    *)
(* that becomes a file browser is left to itself.                          *)
SessionEdited(o) ==
  LET s == ops[o].session
      kind == ops[o].kind
      its == TabsOf(s) IN
  /\ Granted(o, "edit", "save")
  /\ sessions' = [sessions EXCEPT ![s] = kind]
  /\ info' = [t \in Tabs |-> IF t \in its THEN [info[t] EXCEPT !.kind = kind] ELSE info[t]]
  /\ hasty' = IF kind \in Live THEN hasty ELSE hasty \cup {t \in its : IsTerminal(t)}
  /\ Finish(o)
  /\ UNCHANGED <<row, active, traces, commands, backend, events, acts>>

(* A save or a deletion was refused: the rest of the action is dropped,    *)
(* with the terminals a removal has stopped.                               *)
GivenUp(o) ==
  /\ Waits(o, "remove", "delete") \/ Waits(o, "folder", "delete") \/ Waits(o, "edit", "save")
  /\ ops[o].answer = "error"
  /\ Finish(o)
  /\ UNCHANGED <<window, commands, backend, events, acts, hasty>>

(* sendInputToTab and runMacro.                                            *)
SendInput(t) ==
  /\ t \in Open /\ IsTerminal(t) /\ traces[t].stopped # "yes"
  /\ sessions[info[t].session] \in Live /\ UserActs
  /\ \E o \in Slots :
       /\ Begin(o, Op("input", "send", t, "none", "none", <<>>))
       /\ commands' = Append(commands, Command("input", t, "none", o))
  /\ UNCHANGED <<window, backend, events, hasty>>

InputAnswered(o) ==
  /\ Answered(o, "input", "send")
  /\ traces' = IF ops[o].answer = "ok" THEN traces
               ELSE [traces EXCEPT ![ops[o].tab].fed = TRUE]
  /\ Finish(o)
  /\ UNCHANGED <<sessions, row, info, active, commands, backend, events, acts, hasty>>

---------------------------------------------------------------------------
(* The commands of the backend.                                            *)

Answer(o, answer) ==
  ops' = IF o = 0 THEN ops ELSE [ops EXCEPT ![o].answer = answer]

Done(o, answer) == commands' = Tail(commands) /\ Answer(o, answer)

(* stop_terminal: the entry goes and the flag is raised.                   *)
Stopped(t) == IF registry[t] = 0 THEN runs ELSE [runs EXCEPT ![registry[t]].flag = TRUE]

Serve(cmd) == commands # <<>> /\ main = 0 /\ Head(commands).cmd = cmd

StopTerminal ==
  /\ Serve("stop")
  /\ LET c == Head(commands) IN
       /\ runs' = Stopped(c.tab)
       /\ registry' = [registry EXCEPT ![c.tab] = 0]
       /\ Done(c.op, "ok")
  /\ UNCHANGED <<window, main, events, acts, hasty>>

(* The write of the state file may fail.                                   *)
SaveOrDelete ==
  /\ Serve("disk")
  /\ \E answer \in {"ok", "error"} : Done(Head(commands).op, answer)
  /\ UNCHANGED <<window, backend, events, acts, hasty>>

(* send_input; before it is connected a Telnet run swallows it.            *)
WriteInput ==
  /\ Serve("input")
  /\ Done(Head(commands).op, IF registry[Head(commands).tab] = 0 THEN "error" ELSE "ok")
  /\ UNCHANGED <<window, backend, events, acts, hasty>>

NewRun(t, kind, thread) == [NoRun EXCEPT !.tab = t, !.kind = kind, !.threads = {thread}]

NextRun == CHOOSE r \in Runs : runs[r].kind = "none" /\ \A q \in 1 .. r - 1 : runs[q].kind # "none"

(* A start that lacks something is refused before anything is stopped.     *)
RefuseStart ==
  /\ Serve("start") /\ Head(commands).kind = "none"
  /\ Done(Head(commands).op, "error")
  /\ UNCHANGED <<window, backend, events, acts, hasty>>

(* Every other start stops first what is registered under its tab.         *)
StopFirst ==
  /\ Serve("start") /\ Head(commands).kind # "none" /\ registry[Head(commands).tab] # 0
  /\ runs' = Stopped(Head(commands).tab)
  /\ registry' = [registry EXCEPT ![Head(commands).tab] = 0]
  /\ UNCHANGED <<window, ops, commands, main, events, acts, hasty>>

Start == Serve("start") /\ Head(commands).kind # "none" /\ registry[Head(commands).tab] = 0

(* A run begins although threads of an earlier one are still there.        *)
Overlap(t) == \E r \in Launched : runs[r].tab = t /\ runs[r].threads # {}

Launch(c, thread) ==
  /\ runs' = [runs EXCEPT ![NextRun] = NewRun(c.tab, c.kind, thread)]
  /\ hasty' = IF Overlap(c.tab) THEN hasty \cup {c.tab} ELSE hasty

(* start_telnet_session: registered first, then connected by a thread.     *)
StartTelnet ==
  /\ Start /\ Head(commands).kind = "telnet"
  /\ LET c == Head(commands) IN
       /\ Launch(c, "connector")
       /\ registry' = [registry EXCEPT ![c.tab] = NextRun]
       /\ Done(c.op, "ok")
  /\ UNCHANGED <<window, main, events, acts>>

(* The thread that will report the end.                                    *)
Reporter == [local |-> "watcher", serial |-> "reader"]

(* start_pty_session and start_serial_session: the child or the port is    *)
(* opened, or is not, and the threads are spawned ...                      *)
Spawn ==
  /\ Start /\ Head(commands).kind \in {"local", "serial"}
  /\ LET c == Head(commands) IN
       \/ /\ Done(c.op, "error")
          /\ UNCHANGED <<runs, main, hasty>>
       \/ /\ Launch(c, Reporter[c.kind])
          /\ main' = NextRun
          /\ UNCHANGED <<ops, commands>>
  /\ UNCHANGED <<window, registry, events, acts>>

Event(kind, t) == [kind |-> kind, tab |-> t]

(* ... and only then the run is registered and announced.                  *)
Register ==
  /\ main # 0
  /\ registry' = [registry EXCEPT ![runs[main].tab] = main]
  /\ events' = Append(events, Event("output", runs[main].tab))
  /\ Done(Head(commands).op, "ok")
  /\ main' = 0
  /\ UNCHANGED <<window, runs, acts, hasty>>

---------------------------------------------------------------------------
(* The threads of a run.                                                   *)

Emit(kind, r) == events' = Append(events, Event(kind, runs[r].tab))

Quit(r, thread) == runs' = [runs EXCEPT ![r].threads = @ \ {thread}]

(* Mutant of Ending: the flag is raised without a look at it.              *)
EndingBlind(r, thread) ==
  [runs EXCEPT ![r].flag = TRUE, ![r].end = "owed",
     ![r].threads = (@ \ {thread}) \cup {"finalizer"}]

(* The first half of finalize_terminal: whoever raises the flag reports.   *)
Ending(r, thread) ==
  [runs EXCEPT ![r].flag = TRUE, ![r].end = IF runs[r].flag THEN @ ELSE "owed",
     ![r].threads = (@ \ {thread}) \cup {"finalizer"}]

Thread == UNCHANGED <<window, ops, commands, main, acts>>

(* spawn_telnet_connector.                                                 *)
Connect(r) ==
  /\ "connector" \in runs[r].threads
  /\ \/ /\ runs' = [runs EXCEPT ![r].threads = IF runs[r].flag THEN {} ELSE {"reader"}]
        /\ UNCHANGED events
     \/ /\ runs' = Ending(r, "connector")
        /\ IF runs[r].flag THEN UNCHANGED events ELSE Emit("output", r)
  /\ Thread /\ UNCHANGED <<registry, hasty>>

(* A reader leaves when it sees the flag.                                  *)
ReaderLeaves(r) ==
  /\ "reader" \in runs[r].threads /\ runs[r].flag
  /\ Quit(r, "reader")
  /\ Thread /\ UNCHANGED <<registry, events, hasty>>

(* The host closes, the port is unplugged, or a stop has shut the socket.  *)
ReaderEnds(r) ==
  /\ "reader" \in runs[r].threads
  /\ runs' = Ending(r, "reader")
  /\ IF runs[r].kind = "serial" THEN Emit("output", r) ELSE UNCHANGED events
  /\ Thread /\ UNCHANGED <<registry, hasty>>

(* spawn_pty_exit_watcher: it leaves, or the shell has ended.              *)
Watch(r) ==
  /\ "watcher" \in runs[r].threads
  /\ \/ runs[r].flag /\ Quit(r, "watcher")
     \/ runs' = Ending(r, "watcher")
  /\ Thread /\ UNCHANGED <<registry, events, hasty>>

(* What a run has to say: the readers of a socket and of a port report     *)
(* before they leave, the reader of a terminal and the status poller of    *)
(* the run may be later than its watcher.                                  *)
CanSpeak(r) == ~ runs[r].said /\ (runs[r].kind = "local" \/ "reader" \in runs[r].threads)

Read(r) ==
  /\ CanSpeak(r)
  /\ runs' = [runs EXCEPT ![r].said = TRUE]
  /\ Emit("output", r)
  /\ Thread /\ UNCHANGED <<registry, hasty>>

(* spawn_status_poller.                                                    *)
Poll(r) ==
  /\ CanSpeak(r) /\ runs[r].kind = "local"
  /\ runs' = [runs EXCEPT ![r].said = TRUE]
  /\ Emit("status", r)
  /\ Thread /\ UNCHANGED <<registry, hasty>>

(* The second half of finalize_terminal: the entry of the tab goes,        *)
(* whichever run it is of.                                                 *)
Finalize(r) ==
  LET t == runs[r].tab IN
  /\ "finalizer" \in runs[r].threads
  /\ registry' = [registry EXCEPT ![t] = 0]
  /\ runs' = [runs EXCEPT ![r].threads = @ \ {"finalizer"},
                          ![r].end = IF @ = "owed" THEN "told" ELSE @]
  /\ IF runs[r].end = "owed" THEN Emit("exit", r) ELSE UNCHANGED events
  /\ Thread /\ UNCHANGED hasty

---------------------------------------------------------------------------
(* Mutant of Heard: the exit event only changes the status.                *)
HeardStatus(e) ==
  LET old == traces[e.tab] IN
  CASE e.kind = "output" -> [old EXCEPT !.fed = TRUE, !.stopped = "no"]
    [] e.kind = "exit"   -> [old EXCEPT !.mode = "offline"]
    [] e.kind = "status" -> [old EXCEPT !.mode = "live"]

(* The listeners of the window: whatever became of the tab.                *)
Heard(e) ==
  LET old == traces[e.tab] IN
  CASE e.kind = "output" -> [old EXCEPT !.fed = TRUE, !.stopped = "no"]
    [] e.kind = "exit"   -> [fed |-> TRUE, stopped |-> "yes", mode |-> "offline"]
    [] e.kind = "status" -> [old EXCEPT !.mode = "live"]

Listen ==
  /\ events # <<>>
  /\ traces' = [traces EXCEPT ![Head(events).tab] = Heard(Head(events))]
  /\ events' = Tail(events)
  /\ UNCHANGED <<sessions, row, info, active, ops, commands, backend, acts, hasty>>

Init ==
  /\ sessions \in [Sessions -> Live]
  /\ row = <<>> /\ info = [t \in Tabs |-> NoTab] /\ active = Welcome
  /\ traces = [t \in Tabs |-> NoTraces]
  /\ ops = [o \in Slots |-> Idle] /\ commands = <<>> /\ main = 0
  /\ registry = [t \in Tabs |-> 0] /\ runs = [r \in Runs |-> NoRun]
  /\ events = <<>> /\ acts = 0 /\ hasty = {}

User ==
  \/ \E s \in Sessions : OpenSession(s) \/ RemoveSession(s) \/ RemoveFolder(s)
  \/ \E s \in Sessions, k \in EditKinds : EditSession(s, k)
  \/ \E t \in Tabs : RestartTab(t) \/ CloseTab(t) \/ SendInput(t)

Resume(o) ==
  \/ RestartSeeds(o) \/ Painted(o) \/ StartAnswered(o) \/ RemoveContinues(o)
  \/ SessionRemoved(o) \/ FolderRemoved(o) \/ SessionEdited(o) \/ GivenUp(o) \/ InputAnswered(o)

MainThread ==
  \/ StopTerminal \/ SaveOrDelete \/ WriteInput \/ RefuseStart \/ StopFirst \/ StartTelnet \/ Spawn \/ Register

Leaves(r) == Connect(r) \/ ReaderLeaves(r) \/ ReaderEnds(r) \/ Watch(r) \/ Finalize(r)

Next ==
  \/ User \/ MainThread \/ Listen
  \/ \E o \in Slots : Resume(o)
  \/ \E r \in Runs : Leaves(r) \/ Read(r) \/ Poll(r)

Spec == Init /\ [][Next]_vars

---------------------------------------------------------------------------
TypeOK ==
  /\ sessions \in [Sessions -> Kinds \cup {Gone}]
  /\ Open \subseteq Tabs /\ IsInjective(row)
  /\ \A t \in Open : info[t].session \in Sessions /\ info[t].kind \in Kinds
  /\ registry \in [Tabs -> {0} \cup Launched]
  /\ \A t \in Tabs : registry[t] # 0 => runs[registry[t]].tab = t
  /\ \A r \in Launched : runs[r].end # "none" => runs[r].flag

Calm == commands = <<>> /\ main = 0 /\ Busy = {}

(* No session runs on without a tab, unless its tab was closed or removed  *)
(* while a start of it was under way, was turned into a file browser, or   *)
(* was started again before the threads of an earlier run were gone (then  *)
(* these take the entry of the new run away).                              *)
NoOrphan ==
  Calm => \A r \in Launched : runs[r].flag \/ runs[r].tab \in Open \cup hasty

(* The active tab is one that is open, under the same condition.           *)
ActiveIsOpen == active \in Open \cup hasty \cup {Welcome}

(* Tabs and runs belong together: every session that runs has its tab, and *)
(* the window shows one that is there.                                     *)
TabsAndRunsMatch == TypeOK /\ NoOrphan /\ ActiveIsOpen

LastRun(t) == {r \in Launched : runs[r].tab = t /\ \A q \in Launched : runs[q].tab = t => q <= r}

(* A Telnet session that has ended is shown as stopped, so that it can be  *)
(* restarted, once everything was heard and no earlier run can speak.      *)
EndIsShown ==
  Calm /\ events = <<>> =>
    \A t \in Open \ hasty : \A r \in LastRun(t) :
      runs[r].end = "told" /\ traces[t].mode # "error"
        /\ (\A q \in Launched : runs[q].tab = t => runs[q].kind = "telnet" /\ runs[q].threads = {})
      => traces[t].stopped = "yes"

(* TerminalLifecycle: every run is launched once, and either is stopped in *)
(* silence or ends by itself and is reported once.                         *)
Phase(r) ==
  CASE runs[r].kind = "none"  -> "new"
    [] runs[r].end = "owed"   -> "ending"
    [] runs[r].end = "told"   -> "exited"
    [] runs[r].flag           -> "stopped"
    [] OTHER                  -> "live"

Lifecycle == INSTANCE TerminalLifecycle WITH phase <- [r \in Runs |-> Phase(r)]

ImplementsLifecycle == Lifecycle!Spec
=============================================================================
