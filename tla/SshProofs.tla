----------------------------- MODULE SshProofs ------------------------------
(***************************************************************************)
(* Theorems about the embedded SSH terminal and about the host-key         *)
(* verification its connections pass, for every set of tabs, runs and      *)
(* profiles, and for every number of connections, endpoints and keys.      *)
(*                                                                         *)
(* SshTerminal: IInv, defined there, is the inductive invariant; each      *)
(* action preserves it, one lemma per conjunct, and the theorems follow.   *)
(*                                                                         *)
(* HostKey, in the second half: no connection passes unless the initial    *)
(* file or an answer of the user vouches for its key, and the lock of an   *)
(* endpoint puts one question at a time.  No lock protects the file: what  *)
(* it keeps is proved of every endpoint that no overlapping or failed      *)
(* rewrite has met, with the overlaps and failures of the others.          *)
(***************************************************************************)
EXTENDS SshTerminal, HostKey, TLAPS

(* The actions of Next, as one disjunction: StartSession and StopTerminal  *)
(* are TakeEntry, with and without a session to start.                     *)
Action ==
  \/ \E tab \in Tabs, next \in Profiles \cup {NoProfile} : TakeEntry(tab, next)
  \/ \E tab \in Tabs, w \in Widths : Resize(tab, w)
  \/ \E tab \in Tabs, r \in Runs :
       \/ \E left \in BOOLEAN : Type(tab, r, left)
       \/ SubmitUsername(tab, r)
       \/ SubmitPassword(tab, r)
  \/ MainStep
  \/ \E r \in Runs : ConnectStep(r) \/ ReaderStep(r) \/ RemoteCloses(r)
  \/ \E t \in Threads : Finalize(t)

LEMMA NextIsAction == Next => Action
  BY DEF Next, Action, Command, StartSession, StopTerminal

(* The threads of a run, and what moving one of them does to pc.           *)
LEMMA ThreadFacts ==
  ASSUME NEW r \in Runs
  PROVE  /\ Connect(r) \in Threads
         /\ Reader(r) \in Threads
         /\ Connect(r) # Reader(r)
         /\ \A s \in Runs : Connect(s) = Connect(r) => s = r
         /\ \A s \in Runs : Reader(s) = Reader(r) => s = r
         /\ \A s \in Runs : Connect(s) # Reader(r)
  BY DEF Connect, Reader, Threads, Kinds

LEMMA IdleFacts ==
  ASSUME NEW r \in Runs
  PROVE  /\ Idle(r) <=> pc[Connect(r)] = "idle" /\ pc[Reader(r)] = "idle"
         /\ Idle(r)' <=> pc'[Connect(r)] = "idle" /\ pc'[Reader(r)] = "idle"
  BY DEF Idle, ThreadsOf

LEMMA ThreadParts ==
  ASSUME NEW t \in Threads
  PROVE  /\ t[1] \in Runs
         /\ t = Connect(t[1]) \/ t = Reader(t[1])
  BY DEF Connect, Reader, Threads, Kinds

LEMMA ThreadOwner ==
  ASSUME NEW r \in Runs
  PROVE  Connect(r)[1] = r /\ Reader(r)[1] = r
  BY DEF Connect, Reader

(* Type correctness needs one fact more: a start in progress has its tab.  *)
LEMMA TypeStep == TypeOK /\ RegistryInv /\ [Next]_vars => TypeOK'
<1> SUFFICES ASSUME TypeOK, RegistryInv, [Next]_vars PROVE TypeOK'
  OBVIOUS
<1> USE RunsFinite, NoRunNoTab, ProfilesType, WidthsType DEF TypeOK, historyVars
<1>1. ASSUME NEW tab \in Tabs, NEW next \in Profiles \cup {NoProfile},
             TakeEntry(tab, next)
      PROVE  TypeOK'
  BY <1>1 DEF TakeEntry, MainPlaces, authVars, runVars, threadVars
<1>2. ASSUME NEW tab \in Tabs, NEW w \in Widths, Resize(tab, w)
      PROVE  TypeOK'
  BY <1>2 DEF Resize, Clamp, PtyWidths, authVars, threadVars
<1>3. ASSUME NEW tab \in Tabs, NEW r \in Runs, NEW left \in BOOLEAN,
             Type(tab, r, left)
      PROVE  TypeOK'
  BY <1>3 DEF Type, registryVars, authVars, threadVars
<1>4. ASSUME NEW tab \in Tabs, NEW r \in Runs, SubmitUsername(tab, r)
      PROVE  TypeOK'
  <2>1. authUser' \in [Tabs -> Runs \cup {NoRun}]
    BY <1>4 DEF SubmitUsername, SetAuth
  <2>2. authPassword' \in [Tabs -> Runs \cup {NoRun}]
    BY <1>4 DEF SubmitUsername, SetAuth
  <2>3. userFile' \in [Tabs -> BOOLEAN]
    BY <1>4 DEF SubmitUsername, SetAuth
  <2>4. state' \in [Runs -> States]
    BY <1>4 DEF SubmitUsername, BeginConnect, States
  <2>5. pc' \in [Threads -> PCs]
    BY <1>4, ThreadFacts DEF SubmitUsername, BeginConnect, PCs
  <2>6. typed' \in [Runs -> BOOLEAN]
    BY <1>4 DEF SubmitUsername
  <2>7. QED
    BY <1>4, <2>1, <2>2, <2>3, <2>4, <2>5, <2>6 DEF SubmitUsername, registryVars
<1>5. ASSUME NEW tab \in Tabs, NEW r \in Runs, SubmitPassword(tab, r)
      PROVE  TypeOK'
  <2>1. authUser' \in [Tabs -> Runs \cup {NoRun}]
    BY <1>5 DEF SubmitPassword, SetAuth
  <2>2. authPassword' \in [Tabs -> Runs \cup {NoRun}]
    BY <1>5 DEF SubmitPassword, SetAuth
  <2>3. userFile' \in [Tabs -> BOOLEAN]
    BY <1>5 DEF SubmitPassword, SetAuth
  <2>4. state' \in [Runs -> States]
    BY <1>5 DEF SubmitPassword, BeginConnect, States
  <2>5. pc' \in [Threads -> PCs]
    BY <1>5, ThreadFacts DEF SubmitPassword, BeginConnect, PCs
  <2>6. QED
    BY <1>5, <2>1, <2>2, <2>3, <2>4, <2>5 DEF SubmitPassword, registryVars
<1>6. ASSUME SignalStop PROVE TypeOK'
  BY <1>6 DEF SignalStop, ClearAuth, GoMain, MainPlaces, registryVars, runVars,
              threadVars
<1>7. ASSUME CloseState PROVE TypeOK'
  BY <1>7 DEF CloseState, GoMain, MainPlaces, States, registryVars, authVars,
              threadVars
<1>8. ASSUME Forget PROVE TypeOK'
  BY <1>8 DEF Forget, ClearAuth, GoMain, MainPlaces, registryVars, runVars,
              threadVars
<1>9. ASSUME NEW r \in Runs, Launch(r) PROVE TypeOK'
  <2>1. main.tab \in Tabs /\ main.next \in Profiles
    BY <1>9 DEF Launch, RegistryInv, MainIdle
  <2>2. FirstState(main.next) \in States
    BY DEF FirstState, States
  <2>3. /\ authUser' \in [Tabs -> Runs \cup {NoRun}]
        /\ authPassword' \in [Tabs -> Runs \cup {NoRun}]
        /\ userFile' \in [Tabs -> BOOLEAN]
    <3>1. CASE FirstState(main.next) = "connecting"
      <4>1. SetAuth(main.tab, r, main.next.secret = "saved")
        BY <1>9, <3>1 DEF Launch
      <4>2. QED
        BY <4>1 DEF SetAuth
    <3>2. CASE FirstState(main.next) # "connecting"
      BY <1>9, <3>2 DEF Launch
    <3>3. QED
      BY <3>1, <3>2
  <2>4. pc' \in [Threads -> PCs]
    BY <1>9, ThreadFacts DEF Launch, PCs
  <2>5. main' \in [at: MainPlaces, tab: Tabs \cup {NoTab},
                   run: Runs \cup {NoRun}, next: Profiles \cup {NoProfile}]
    BY <1>9 DEF Launch, GoMain, MainPlaces
  <2>6. width' \in [Runs -> PtyWidths]
    BY <1>9, <2>1 DEF Launch
  <2>7. /\ tabOf' \in [Runs -> Tabs \cup {NoTab}]
        /\ profile' \in [Runs -> Profiles \cup {NoProfile}]
        /\ terminals' \in [Tabs -> Runs \cup {NoRun}]
        /\ state' \in [Runs -> States]
    BY <1>9, <2>1, <2>2 DEF Launch
  <2>8. elders' \in [Runs -> SUBSET Runs]
    BY <1>9 DEF Launch, Alive
  <2>9. QED
    BY <1>9, <2>3, <2>4, <2>5, <2>6, <2>7, <2>8 DEF Launch
<1>10. ASSUME LaunchFails PROVE TypeOK'
  BY <1>10 DEF LaunchFails, GoMain, MainPlaces, registryVars, authVars, runVars,
               threadVars
<1>11. ASSUME NEW r \in Runs, ConnectStep(r) PROVE TypeOK'
  <2> USE ThreadFacts DEF Go, Finalizing, PCs
  <2>1. CASE ConnectStart(r)
    <3>1. ptyWidth' \in [Runs -> PtyWidths]
      BY <2>1 DEF ConnectStart
    <3>2. pc' \in [Threads -> PCs]
      <4>1. \E place \in {"idle", "opening"} : pc' = [pc EXCEPT ![Connect(r)] = place]
        BY <2>1 DEF ConnectStart
      <4>2. {"idle", "opening"} \subseteq PCs
        OBVIOUS
      <4>3. QED
        BY <4>1, <4>2
    <3>3. QED
      BY <2>1, <3>1, <3>2 DEF ConnectStart, registryVars, authVars
  <2>2. CASE OpenSucceeds(r)
    BY <2>2 DEF OpenSucceeds, registryVars, authVars
  <2>3. CASE RememberAuth(r)
    <3>1. /\ authUser' \in [Tabs -> Runs \cup {NoRun}]
          /\ authPassword' \in [Tabs -> Runs \cup {NoRun}]
          /\ userFile' \in [Tabs -> BOOLEAN]
      BY <2>3 DEF RememberAuth, SetAuth
    <3>2. QED
      BY <2>3, <3>1 DEF RememberAuth, registryVars, runVars
  <2>4. CASE EnterRunning(r)
    BY <2>4 DEF EnterRunning, States, registryVars, authVars
  <2>5. CASE \E error \in ConnectErrors : OpenFails(r, error)
    <3>1. PICK error \in ConnectErrors : OpenFails(r, error)
      BY <2>5
    <3>2. \E to \in PCs : pc' = [pc EXCEPT ![Connect(r)] = to]
      BY <3>1 DEF OpenFails
    <3>3. \/ state' = [state EXCEPT ![r] = "awaitingPassword"]
          \/ state' = state
      BY <3>1 DEF OpenFails
    <3>4. typed' \in [Runs -> BOOLEAN]
      BY <3>1 DEF OpenFails
    <3>5. QED
      BY ZenonT(90), <3>1, <3>2, <3>3, <3>4 DEF OpenFails, States, registryVars, authVars
  <2>6. QED
    BY <1>11, <2>1, <2>2, <2>3, <2>4, <2>5 DEF ConnectStep
<1>12. ASSUME NEW r \in Runs, ReaderStep(r) \/ RemoteCloses(r) PROVE TypeOK'
  <2>1. CASE ReaderStep(r)
    <3>1. pc' \in [Threads -> PCs]
      BY <2>1, ThreadFacts DEF ReaderStep, ReaderTop, ReaderRead, Go, PCs,
                               Finalizing
    <3>2. QED
      BY <2>1, <3>1 DEF ReaderStep, ReaderTop, ReaderRead, registryVars,
                        authVars, runVars
  <2>2. CASE RemoteCloses(r)
    <3>1. channel' \in [Runs -> {"none", "open", "closed"}]
      BY <2>2 DEF RemoteCloses
    <3>2. QED
      BY <2>2, <3>1 DEF RemoteCloses, registryVars, authVars, threadVars
  <2>3. QED
    BY <1>12, <2>1, <2>2
<1>13. ASSUME NEW t \in Threads, Finalize(t) PROVE TypeOK'
  <2> USE ThreadParts DEF Go, Finalizing, PCs
  <2>1. CASE FinalizeSwap(t)
    BY <2>1 DEF FinalizeSwap, registryVars, authVars, runVars
  <2>2. CASE FinalizeRemove(t)
    BY <2>2 DEF FinalizeRemove, authVars, runVars
  <2>3. CASE FinalizeClear(t)
    BY <2>3 DEF FinalizeClear, ClearAuth, registryVars, runVars
  <2>4. CASE FinalizeEmit(t)
    BY <2>4 DEF FinalizeEmit, registryVars, authVars, runVars
  <2>5. QED
    BY <1>13, <2>1, <2>2, <2>3, <2>4 DEF Finalize
<1>14. CASE UNCHANGED vars
  BY <1>14 DEF vars, registryVars, authVars, runVars, threadVars
<1>15. QED
  BY SMTT(60), <1>1, <1>2, <1>3, <1>4, <1>5, <1>6, <1>7, <1>8, <1>9, <1>10, <1>11, <1>12,
     <1>13, <1>14, NextIsAction DEF Action, MainStep

(* Threads keep to their code, and a run that is not started is untouched. *)
LEMMA InPlaceStep ==
  ASSUME TypeOK, ThreadsInPlace, RegistryInv, [Next]_vars
  PROVE  ThreadsInPlace'
<1> SUFFICES ASSUME NEW s \in Runs PROVE InPlace(s)'
  BY DEF ThreadsInPlace
<1> InPlace(s)
  BY DEF ThreadsInPlace
<1> USE NoRunNoTab, ThreadFacts, IdleFacts
    DEF InPlace, Started, ConnectPCs, ReaderPCs, Finalizing
<1>1. ASSUME NEW tab \in Tabs, NEW next \in Profiles \cup {NoProfile},
             TakeEntry(tab, next)
      PROVE  InPlace(s)'
  BY <1>1 DEF TakeEntry, runVars, threadVars, TypeOK
<1>2. ASSUME NEW tab \in Tabs, NEW w \in Widths, Resize(tab, w)
      PROVE  InPlace(s)'
  BY <1>2 DEF Resize, threadVars
<1>3. ASSUME NEW tab \in Tabs, NEW r \in Runs, NEW left \in BOOLEAN,
             Type(tab, r, left)
      PROVE  InPlace(s)'
  BY <1>3 DEF Type, registryVars, threadVars
<1>4. ASSUME NEW tab \in Tabs, NEW r \in Runs, SubmitUsername(tab, r)
      PROVE  InPlace(s)'
  BY <1>4 DEF SubmitUsername, Prompted, BeginConnect, registryVars, TypeOK
<1>5. ASSUME NEW tab \in Tabs, NEW r \in Runs, SubmitPassword(tab, r)
      PROVE  InPlace(s)'
  BY <1>5 DEF SubmitPassword, Prompted, BeginConnect, registryVars, TypeOK
<1>6. ASSUME SignalStop PROVE InPlace(s)'
  BY <1>6 DEF SignalStop, RegistryInv, MainIdle, registryVars, runVars,
              threadVars, TypeOK
<1>7. ASSUME CloseState PROVE InPlace(s)'
  BY <1>7 DEF CloseState, RegistryInv, MainIdle, registryVars, threadVars,
              TypeOK
<1>8. ASSUME Forget PROVE InPlace(s)'
  BY <1>8 DEF Forget, registryVars, runVars, threadVars
<1>9. ASSUME NEW r \in Runs, Launch(r) PROVE InPlace(s)'
  BY <1>9 DEF Launch, RegistryInv, MainIdle, TypeOK
<1>10. ASSUME LaunchFails PROVE InPlace(s)'
  BY <1>10 DEF LaunchFails, registryVars, runVars, threadVars
<1>11. ASSUME NEW r \in Runs, ConnectStep(r) PROVE InPlace(s)'
  <2> USE DEF Go, TypeOK, registryVars, runVars
  <2>1. CASE ConnectStart(r)
    BY <2>1 DEF ConnectStart
  <2>2. CASE OpenSucceeds(r)
    BY <2>2 DEF OpenSucceeds
  <2>3. CASE RememberAuth(r)
    BY <2>3 DEF RememberAuth
  <2>4. CASE EnterRunning(r)
    BY <2>4 DEF EnterRunning, ThreadsInPlace
  <2>5. CASE \E error \in ConnectErrors : OpenFails(r, error)
    BY <2>5 DEF OpenFails, ThreadsInPlace
  <2>6. QED
    BY <1>11, <2>1, <2>2, <2>3, <2>4, <2>5 DEF ConnectStep
<1>12. ASSUME NEW r \in Runs, ReaderStep(r) \/ RemoteCloses(r)
       PROVE  InPlace(s)'
  BY <1>12 DEF ReaderStep, ReaderTop, ReaderRead, RemoteCloses, Go, TypeOK,
               registryVars, runVars, threadVars
<1>13. ASSUME NEW t \in Threads, Finalize(t) PROVE InPlace(s)'
  <2> USE ThreadParts DEF Go, TypeOK, registryVars, runVars
  <2>1. CASE FinalizeSwap(t)
    BY <2>1 DEF FinalizeSwap, ThreadsInPlace
  <2>2. CASE FinalizeRemove(t)
    BY <2>2 DEF FinalizeRemove
  <2>3. CASE FinalizeClear(t)
    BY <2>3 DEF FinalizeClear
  <2>4. CASE FinalizeEmit(t)
    BY <2>4 DEF FinalizeEmit, ThreadsInPlace
  <2>5. QED
    BY <1>13, <2>1, <2>2, <2>3, <2>4 DEF Finalize
<1>14. CASE UNCHANGED vars
  BY <1>14 DEF vars, registryVars, runVars, threadVars
<1>15. QED
  BY <1>1, <1>2, <1>3, <1>4, <1>5, <1>6, <1>7, <1>8, <1>9, <1>10, <1>11, <1>12,
     <1>13, <1>14, NextIsAction DEF Action, MainStep

(* The registry holds each run under its own tab.                          *)
LEMMA RegistryStep ==
  ASSUME TypeOK, ThreadsInPlace, RegistryInv, [Next]_vars
  PROVE  RegistryInv'
<1> USE NoRunNoTab, ProfilesType DEF TypeOK, RegistryInv, MainIdle, GoMain
<1>1. ASSUME NEW tab \in Tabs, NEW next \in Profiles \cup {NoProfile},
             TakeEntry(tab, next)
      PROVE  RegistryInv'
  BY <1>1 DEF TakeEntry
<1>2. ASSUME NEW tab \in Tabs, NEW w \in Widths, Resize(tab, w)
      PROVE  RegistryInv'
  BY <1>2 DEF Resize
<1>3. ASSUME NEW tab \in Tabs, NEW r \in Runs, NEW left \in BOOLEAN,
             Type(tab, r, left)
      PROVE  RegistryInv'
  BY <1>3 DEF Type, registryVars
<1>4. ASSUME NEW tab \in Tabs, NEW r \in Runs,
             SubmitUsername(tab, r) \/ SubmitPassword(tab, r)
      PROVE  RegistryInv'
  BY <1>4 DEF SubmitUsername, SubmitPassword, registryVars
<1>5. ASSUME SignalStop \/ CloseState \/ LaunchFails PROVE RegistryInv'
  <2>1. CASE SignalStop
    BY <2>1 DEF SignalStop, registryVars
  <2>2. CASE CloseState
    BY <2>2 DEF CloseState, registryVars
  <2>3. CASE LaunchFails
    BY <2>3 DEF LaunchFails, registryVars
  <2>4. QED
    BY <1>5, <2>1, <2>2, <2>3
<1>6. ASSUME Forget PROVE RegistryInv'
  BY <1>6 DEF Forget, registryVars
<1>7. ASSUME NEW r \in Runs, Launch(r) PROVE RegistryInv'
  <2>1. main'.at = "idle"
    BY <1>7 DEF Launch
  <2>2. ASSUME NEW t \in Tabs, terminals'[t] # NoRun
        PROVE  tabOf'[terminals'[t]] = t
    <3>1. terminals[t] # r
      BY <1>7 DEF Launch, ThreadsInPlace, InPlace
    <3>2. QED
      BY <1>7, <2>2, <3>1 DEF Launch
  <2>3. QED
    BY <2>1, <2>2
<1>8. ASSUME NEW r \in Runs, ConnectStep(r) \/ ReaderStep(r) \/ RemoteCloses(r)
      PROVE  RegistryInv'
  BY <1>8 DEF ConnectStep, ConnectStart, OpenSucceeds, RememberAuth,
              EnterRunning, OpenFails, ReaderStep, ReaderTop, ReaderRead,
              RemoteCloses, registryVars
<1>9. ASSUME NEW t \in Threads, Finalize(t) PROVE RegistryInv'
  BY <1>9 DEF Finalize, FinalizeSwap, FinalizeRemove, FinalizeClear,
              FinalizeEmit, registryVars
<1>10. CASE UNCHANGED vars
  BY <1>10 DEF vars, registryVars
<1>11. QED
  BY <1>1, <1>2, <1>3, <1>4, <1>5, <1>6, <1>7, <1>8, <1>9, <1>10, NextIsAction
     DEF Action, MainStep

(* A run has one driver at a time.                                         *)
LEMMA SingleDriverStep ==
  ASSUME TypeOK, ThreadsInPlace, RegistryInv, SingleDriver, [Next]_vars
  PROVE  SingleDriver'
<1> SUFFICES ASSUME NEW s \in Runs
             PROVE  /\ state'[s] \in Prompting => Idle(s)'
                    /\ pc'[Connect(s)] = "idle" \/ pc'[Reader(s)] = "idle"
  BY DEF SingleDriver
<1> /\ state[s] \in Prompting => Idle(s)
    /\ pc[Connect(s)] = "idle" \/ pc[Reader(s)] = "idle"
    /\ InPlace(s)
  BY DEF SingleDriver, ThreadsInPlace
<1> USE ThreadFacts, IdleFacts DEF Prompting, TypeOK
<1> DEFINE Goal == /\ state'[s] \in Prompting => Idle(s)'
                   /\ pc'[Connect(s)] = "idle" \/ pc'[Reader(s)] = "idle"
<1>1. ASSUME NEW tab \in Tabs, NEW next \in Profiles \cup {NoProfile},
             TakeEntry(tab, next)
      PROVE  Goal
  BY <1>1 DEF TakeEntry, runVars, threadVars
<1>2. ASSUME NEW tab \in Tabs, NEW w \in Widths, Resize(tab, w)
      PROVE  Goal
  BY <1>2 DEF Resize, threadVars
<1>3. ASSUME NEW tab \in Tabs, NEW r \in Runs, NEW left \in BOOLEAN,
             Type(tab, r, left)
      PROVE  Goal
  BY <1>3 DEF Type, threadVars
<1>4. ASSUME NEW tab \in Tabs, NEW r \in Runs, SubmitUsername(tab, r)
      PROVE  Goal
  BY <1>4 DEF SubmitUsername, Prompted, BeginConnect
<1>5. ASSUME NEW tab \in Tabs, NEW r \in Runs, SubmitPassword(tab, r)
      PROVE  Goal
  BY <1>5 DEF SubmitPassword, Prompted, BeginConnect
<1>6. ASSUME SignalStop \/ Forget \/ LaunchFails PROVE Goal
  BY <1>6 DEF SignalStop, Forget, LaunchFails, runVars, threadVars
<1>7. ASSUME CloseState PROVE Goal
  BY <1>7 DEF CloseState, threadVars
<1>8. ASSUME NEW r \in Runs, Launch(r) PROVE Goal
  BY <1>8 DEF Launch, InPlace
<1>9. ASSUME NEW r \in Runs, ConnectStep(r) PROVE Goal
  <2> USE DEF Go, runVars
  <2>1. CASE ConnectStart(r)
    BY <2>1 DEF ConnectStart
  <2>2. CASE OpenSucceeds(r)
    BY <2>2 DEF OpenSucceeds
  <2>3. CASE RememberAuth(r)
    BY <2>3 DEF RememberAuth
  <2>4. CASE EnterRunning(r)
    BY <2>4 DEF EnterRunning
  <2>5. CASE \E error \in ConnectErrors : OpenFails(r, error)
    BY <2>5 DEF OpenFails
  <2>6. QED
    BY <1>9, <2>1, <2>2, <2>3, <2>4, <2>5 DEF ConnectStep
<1>10. ASSUME NEW r \in Runs, ReaderStep(r) \/ RemoteCloses(r) PROVE Goal
  BY <1>10 DEF ReaderStep, ReaderTop, ReaderRead, RemoteCloses, Go, runVars,
               threadVars
<1>11. ASSUME NEW t \in Threads, Finalize(t) PROVE Goal
  <2>1. PICK to \in PCs : pc[t] # "idle" /\ pc' = [pc EXCEPT ![t] = to]
    BY <1>11 DEF Finalize, FinalizeSwap, FinalizeRemove, FinalizeClear,
                 FinalizeEmit, Go, PCs, Finalizing
  <2>2. state' = state
    BY <1>11 DEF Finalize, FinalizeSwap, FinalizeRemove, FinalizeClear,
                 FinalizeEmit, runVars
  <2>3. QED
    BY <2>1, <2>2, ThreadParts
<1>12. CASE UNCHANGED vars
  BY <1>12 DEF vars, runVars, threadVars
<1>13. QED
  BY <1>1, <1>2, <1>3, <1>4, <1>5, <1>6, <1>7, <1>8, <1>9, <1>10, <1>11, <1>12,
     NextIsAction DEF Action, MainStep

(* What finalize_terminal owes is kept account of: an exit event is        *)
(* emitted once, by the thread that raised the flag.                       *)
Account(r) ==
  /\ exits[r] <= 1
  /\ exits[r] = 1 => /\ stopFlag[r]
                     /\ \A t \in ThreadsOf(r) : ~wins[t]
  /\ \A t \in ThreadsOf(r) : /\ pc[t] \in Owing => stopFlag[r]
                             /\ wins[t] => pc[t] \in Owing
                             /\ pc[t] = "emit" => wins[t]

LEMMA AtMostOne == ASSUME NEW n \in Nat, n <= 1, n # 1 PROVE n = 0
  OBVIOUS

LEMMA FinalizeInvIsAccount == FinalizeInv <=> \A r \in Runs : Account(r)
  BY DEF FinalizeInv, Account

LEMMA FinalizeStep ==
  ASSUME TypeOK, ThreadsInPlace, RegistryInv, SingleDriver, FinalizeInv,
         [Next]_vars
  PROVE  FinalizeInv'
<1> SUFFICES ASSUME NEW s \in Runs PROVE Account(s)'
  BY DEF FinalizeInv, Account
<1> /\ state[s] \in Prompting => Idle(s)
    /\ pc[Connect(s)] = "idle" \/ pc[Reader(s)] = "idle"
    /\ InPlace(s)
    /\ Account(s)
  BY FinalizeInvIsAccount DEF SingleDriver, ThreadsInPlace
<1> USE ThreadFacts, IdleFacts DEF Account, Owing, ThreadsOf, TypeOK
<1>1. ASSUME NEW tab \in Tabs, NEW next \in Profiles \cup {NoProfile},
             TakeEntry(tab, next)
      PROVE  Account(s)'
  BY <1>1 DEF TakeEntry, threadVars
<1>2. ASSUME NEW tab \in Tabs, NEW w \in Widths, Resize(tab, w)
      PROVE  Account(s)'
  BY <1>2 DEF Resize, threadVars
<1>3. ASSUME NEW tab \in Tabs, NEW r \in Runs, NEW left \in BOOLEAN,
             Type(tab, r, left)
      PROVE  Account(s)'
  BY <1>3 DEF Type, threadVars
<1>4. ASSUME NEW tab \in Tabs, NEW r \in Runs, SubmitUsername(tab, r)
      PROVE  Account(s)'
  BY <1>4 DEF SubmitUsername, Prompted, Prompting, BeginConnect
<1>5. ASSUME NEW tab \in Tabs, NEW r \in Runs, SubmitPassword(tab, r)
      PROVE  Account(s)'
  BY <1>5 DEF SubmitPassword, Prompted, Prompting, BeginConnect
<1>6. ASSUME SignalStop PROVE Account(s)'
  BY <1>6 DEF SignalStop, threadVars
<1>7. ASSUME CloseState \/ Forget \/ LaunchFails PROVE Account(s)'
  BY <1>7 DEF CloseState, Forget, LaunchFails, threadVars
<1>8. ASSUME NEW r \in Runs, Launch(r) PROVE Account(s)'
  BY <1>8 DEF Launch, InPlace
<1>9. ASSUME NEW r \in Runs, ConnectStep(r) PROVE Account(s)'
  <2> USE DEF Go, runVars
  <2>1. CASE ConnectStart(r)
    BY <2>1 DEF ConnectStart
  <2>2. CASE OpenSucceeds(r)
    BY <2>2 DEF OpenSucceeds
  <2>3. CASE RememberAuth(r)
    BY <2>3 DEF RememberAuth
  <2>4. CASE EnterRunning(r)
    BY <2>4 DEF EnterRunning
  <2>5. CASE \E error \in ConnectErrors : OpenFails(r, error)
    BY <2>5 DEF OpenFails
  <2>6. QED
    BY <1>9, <2>1, <2>2, <2>3, <2>4, <2>5 DEF ConnectStep
<1>10. ASSUME NEW r \in Runs, ReaderStep(r) \/ RemoteCloses(r)
       PROVE  Account(s)'
  BY <1>10 DEF ReaderStep, ReaderTop, ReaderRead, RemoteCloses, Go, threadVars
<1>11. ASSUME NEW t \in Threads, Finalize(t) PROVE Account(s)'
  <2> USE ThreadParts, ThreadOwner DEF Go
  <2>1. CASE FinalizeSwap(t)
    BY <2>1 DEF FinalizeSwap
  <2>2. CASE FinalizeRemove(t)
    BY <2>2 DEF FinalizeRemove
  <2>3. CASE FinalizeClear(t)
    BY <2>3 DEF FinalizeClear
  <2>4. CASE FinalizeEmit(t)
    <3>1. CASE t[1] # s
      BY <2>4, <3>1 DEF FinalizeEmit
    <3>2. CASE t[1] = s
      <4>1. t = Connect(s) \/ t = Reader(s)
        BY <3>2
      <4>2. wins[t] /\ stopFlag[s] /\ pc[t] # "idle"
        BY <2>4, <4>1 DEF FinalizeEmit
      <4>3. exits[s] # 1
        BY <4>1, <4>2
      <4>4. exits[s] = 0 /\ exits'[s] = exits[s] + 1
        <5>1. exits[s] \in Nat /\ exits[s] <= 1
          OBVIOUS
        <5>2. exits[s] = 0
          BY <4>3, <5>1, AtMostOne
        <5>3. exits'[s] = exits[s] + 1
          BY <2>4, <3>2 DEF FinalizeEmit
        <5>4. QED
          BY <5>2, <5>3
      <4>5. stopFlag'[s]
        BY <2>4, <4>2 DEF FinalizeEmit
      <4>6. \A u \in ThreadsOf(s) : u # t => pc[u] = "idle" /\ ~wins[u]
        BY <4>1, <4>2
      <4>7. \A u \in ThreadsOf(s) : pc'[u] = "idle" /\ ~wins'[u]
        BY <2>4, <4>6 DEF FinalizeEmit
      <4>8. QED
        BY <4>4, <4>5, <4>7
    <3>3. QED
      BY <3>1, <3>2
  <2>5. QED
    BY <1>11, <2>1, <2>2, <2>3, <2>4 DEF Finalize
<1>12. CASE UNCHANGED vars
  BY <1>12 DEF vars, threadVars
<1>13. QED
  BY <1>1, <1>2, <1>3, <1>4, <1>5, <1>6, <1>7, <1>8, <1>9, <1>10, <1>11, <1>12,
     NextIsAction DEF Action, MainStep

(* The entry of a run is gone before its exit event is emitted.            *)
LEMMA GoneStep ==
  ASSUME TypeOK, ThreadsInPlace, RegistryInv, SingleDriver, FinalizeInv,
         GoneInv, [Next]_vars
  PROVE  GoneInv'
<1> SUFFICES ASSUME NEW s \in Runs, NEW tb \in Tabs, terminals'[tb] = s
             PROVE  /\ exits'[s] = 0
                    /\ \A t \in ThreadsOf(s) : wins'[t] => pc'[t] = "remove"
  BY DEF GoneInv, ThreadsOf, Connect, Reader
<1> /\ state[s] \in Prompting => Idle(s)
    /\ pc[Connect(s)] = "idle" \/ pc[Reader(s)] = "idle"
    /\ InPlace(s)
    /\ Account(s)
    /\ terminals[tb] = s => /\ exits[s] = 0
                            /\ \A t \in ThreadsOf(s) :
                                 wins[t] => pc[t] = "remove"
  BY FinalizeInvIsAccount DEF SingleDriver, ThreadsInPlace, GoneInv
<1> DEFINE Goal == /\ exits'[s] = 0
                   /\ \A t \in ThreadsOf(s) : wins'[t] => pc'[t] = "remove"
<1> USE NoRunNoTab, ThreadFacts, IdleFacts DEF Account, Owing, ThreadsOf, TypeOK
<1>1. ASSUME NEW tab \in Tabs, NEW next \in Profiles \cup {NoProfile},
             TakeEntry(tab, next)
      PROVE  Goal
  BY <1>1 DEF TakeEntry, threadVars
<1>2. ASSUME NEW tab \in Tabs, NEW w \in Widths, Resize(tab, w)
      PROVE  Goal
  BY <1>2 DEF Resize, threadVars
<1>3. ASSUME NEW tab \in Tabs, NEW r \in Runs, NEW left \in BOOLEAN,
             Type(tab, r, left)
      PROVE  Goal
  BY <1>3 DEF Type, registryVars, threadVars
<1>4. ASSUME NEW tab \in Tabs, NEW r \in Runs, SubmitUsername(tab, r)
      PROVE  Goal
  BY <1>4 DEF SubmitUsername, Prompted, Prompting, BeginConnect, registryVars
<1>5. ASSUME NEW tab \in Tabs, NEW r \in Runs, SubmitPassword(tab, r)
      PROVE  Goal
  BY <1>5 DEF SubmitPassword, Prompted, Prompting, BeginConnect, registryVars
<1>6. ASSUME SignalStop \/ CloseState \/ Forget \/ LaunchFails PROVE Goal
  BY <1>6 DEF SignalStop, CloseState, Forget, LaunchFails, registryVars,
              threadVars
<1>7. ASSUME NEW r \in Runs, Launch(r) PROVE Goal
  BY <1>7 DEF Launch, InPlace
<1>8. ASSUME NEW r \in Runs, ConnectStep(r) PROVE Goal
  <2> USE DEF Go, runVars, registryVars
  <2>1. CASE ConnectStart(r)
    BY <2>1 DEF ConnectStart
  <2>2. CASE OpenSucceeds(r)
    BY <2>2 DEF OpenSucceeds
  <2>3. CASE RememberAuth(r)
    BY <2>3 DEF RememberAuth
  <2>4. CASE EnterRunning(r)
    BY <2>4 DEF EnterRunning
  <2>5. CASE \E error \in ConnectErrors : OpenFails(r, error)
    BY <2>5 DEF OpenFails
  <2>6. QED
    BY <1>8, <2>1, <2>2, <2>3, <2>4, <2>5 DEF ConnectStep
<1>9. ASSUME NEW r \in Runs, ReaderStep(r) \/ RemoteCloses(r) PROVE Goal
  BY <1>9 DEF ReaderStep, ReaderTop, ReaderRead, RemoteCloses, Go, registryVars,
              threadVars
<1>10. ASSUME NEW t \in Threads, Finalize(t) PROVE Goal
  <2> USE ThreadParts, ThreadOwner DEF Go, registryVars
  <2>1. CASE FinalizeSwap(t)
    BY <2>1 DEF FinalizeSwap
  <2>2. CASE FinalizeRemove(t)
    <3>1. t[1] \in Runs /\ (t[1] = s => tabOf[s] # tb)
      BY <2>2 DEF FinalizeRemove
    <3>2. terminals[tb] = s /\ tabOf[s] = tb
      BY <2>2 DEF FinalizeRemove, RegistryInv
    <3>3. QED
      BY <2>2, <3>1, <3>2 DEF FinalizeRemove
  <2>3. CASE FinalizeClear(t)
    BY <2>3 DEF FinalizeClear
  <2>4. CASE FinalizeEmit(t)
    BY <2>4 DEF FinalizeEmit
  <2>5. QED
    BY <1>10, <2>1, <2>2, <2>3, <2>4 DEF Finalize
<1>11. CASE UNCHANGED vars
  BY <1>11 DEF vars, registryVars, threadVars
<1>12. QED
  BY <1>1, <1>2, <1>3, <1>4, <1>5, <1>6, <1>7, <1>8, <1>9, <1>10, <1>11,
     NextIsAction DEF Action, MainStep

(* A live run is registered, or was robbed by an elder; and the runs of    *)
(* its tab that could finalize after it are its elders.                    *)
LEMMA EldersStep ==
  ASSUME TypeOK, ThreadsInPlace, RegistryInv, EldersKnown, [Next]_vars
  PROVE  EldersKnown'
<1> USE NoRunNoTab, ThreadFacts, IdleFacts DEF TypeOK
<1>1. SUFFICES ASSUME NEW r \in Runs, NEW s \in Runs \ {r},
                      tabOf'[r] # NoTab, terminals'[tabOf'[r]] = r,
                      tabOf'[s] = tabOf'[r]
               PROVE  Idle(s)' \/ s \in elders'[r]
  BY DEF EldersKnown, Started
<1> DEFINE Goal == Idle(s)' \/ s \in elders'[r]
<1>2. ASSUME tabOf[r] # NoTab, terminals[tabOf[r]] = r, tabOf[s] = tabOf[r]
      PROVE  Idle(s) \/ s \in elders[r]
  BY <1>2 DEF EldersKnown, Started
<1>3. ASSUME NEW tab \in Tabs, NEW next \in Profiles \cup {NoProfile},
             TakeEntry(tab, next)
      PROVE  Goal
  BY <1>1, <1>2, <1>3 DEF TakeEntry, historyVars, threadVars
<1>4. ASSUME NEW tab \in Tabs, NEW w \in Widths, Resize(tab, w)
      PROVE  Goal
  BY <1>1, <1>2, <1>4 DEF Resize, historyVars, threadVars
<1>5. ASSUME NEW tab \in Tabs, NEW q \in Runs, NEW left \in BOOLEAN,
             Type(tab, q, left)
      PROVE  Goal
  BY <1>1, <1>2, <1>5 DEF Type, registryVars, historyVars, threadVars
<1>6. ASSUME NEW tab \in Tabs, NEW q \in Runs,
             SubmitUsername(tab, q) \/ SubmitPassword(tab, q)
      PROVE  Goal
  <2>1. /\ terminals' = terminals /\ tabOf' = tabOf /\ elders' = elders
        /\ terminals[tab] = q /\ tabOf[q] = tab
    BY <1>6 DEF SubmitUsername, SubmitPassword, Prompted, RegistryInv,
                registryVars, historyVars
  <2>2. pc' = pc \/ pc' = [pc EXCEPT ![Connect(q)] = "check"]
    BY <1>6 DEF SubmitUsername, SubmitPassword, BeginConnect
  <2>3. s # q
    BY <1>1, <2>1
  <2>4. QED
    BY <1>1, <1>2, <2>1, <2>2, <2>3
<1>7. ASSUME SignalStop \/ CloseState \/ Forget \/ LaunchFails PROVE Goal
  BY <1>1, <1>2, <1>7 DEF SignalStop, CloseState, Forget, LaunchFails,
                          registryVars, historyVars, threadVars
<1>8. ASSUME NEW q \in Runs, Launch(q) PROVE Goal
  <2>1. /\ main.tab \in Tabs /\ tabOf[q] = NoTab
        /\ tabOf' = [tabOf EXCEPT ![q] = main.tab]
        /\ terminals' = [terminals EXCEPT ![main.tab] = q]
        /\ elders' = [elders EXCEPT ![q] = Alive(main.tab)]
        /\ pc' = pc \/ pc' = [pc EXCEPT ![Connect(q)] = "check"]
    BY <1>8 DEF Launch, Started, RegistryInv, MainIdle
  <2>2. CASE r = q
    BY <1>1, <2>1, <2>2 DEF Alive
  <2>3. CASE r # q
    <3>1. /\ tabOf'[r] = tabOf[r] /\ tabOf[r] # main.tab
          /\ terminals[tabOf[r]] = r
      BY <1>1, <2>1, <2>3
    <3>2. s # q
      BY <1>1, <2>1, <3>1
    <3>3. QED
      BY <1>1, <1>2, <2>1, <2>3, <3>1, <3>2
  <2>4. QED
    BY <2>2, <2>3
<1>9. ASSUME NEW q \in Runs, ConnectStep(q) PROVE Goal
  <2>1. terminals' = terminals /\ tabOf' = tabOf /\ elders' = elders
    BY <1>9 DEF ConnectStep, ConnectStart, OpenSucceeds, RememberAuth,
                EnterRunning, OpenFails, registryVars, historyVars
  <2>2. pc[Connect(q)] # "idle"
    BY <1>9 DEF ConnectStep, ConnectStart, OpenSucceeds, RememberAuth,
                EnterRunning, OpenFails
  <2>3. \A x \in Runs \ {q} : /\ pc'[Connect(x)] = pc[Connect(x)]
                              /\ pc'[Reader(x)] = pc[Reader(x)]
    BY <1>9 DEF ConnectStep, ConnectStart, OpenSucceeds, RememberAuth,
                EnterRunning, OpenFails, Go
  <2>4. QED
    BY <1>1, <1>2, <2>1, <2>2, <2>3
<1>10. ASSUME NEW q \in Runs, ReaderStep(q) \/ RemoteCloses(q) PROVE Goal
  BY <1>1, <1>2, <1>10 DEF ReaderStep, ReaderTop, ReaderRead, RemoteCloses, Go,
                           registryVars, historyVars, threadVars
<1>11. ASSUME NEW t \in Threads, Finalize(t) PROVE Goal
  <2> USE ThreadParts
  <2>1. PICK to \in PCs : pc[t] # "idle" /\ pc' = [pc EXCEPT ![t] = to]
    BY <1>11 DEF Finalize, FinalizeSwap, FinalizeRemove, FinalizeClear,
                 FinalizeEmit, Go, PCs, Finalizing
  <2>2. /\ tabOf' = tabOf /\ elders' = elders
        /\ terminals' = terminals
             \/ terminals' = [terminals EXCEPT ![tabOf[t[1]]] = NoRun]
    BY <1>11 DEF Finalize, FinalizeSwap, FinalizeRemove, FinalizeClear,
                 FinalizeEmit, registryVars, historyVars
  <2>3. terminals[tabOf[r]] = r
    BY <1>1, <2>2
  <2>4. QED
    BY <1>1, <1>2, <2>1, <2>2, <2>3
<1>12. CASE UNCHANGED vars
  BY <1>1, <1>2, <1>12 DEF vars, registryVars, historyVars, threadVars
<1>13. QED
  BY <1>3, <1>4, <1>5, <1>6, <1>7, <1>8, <1>9, <1>10, <1>11, <1>12, NextIsAction
     DEF Action, MainStep

LEMMA LiveStep ==
  ASSUME IInv, [Next]_vars
  PROVE  LiveRunIsRegistered'
<1> TypeOK /\ ThreadsInPlace /\ RegistryInv /\ EldersKnown
  BY DEF IInv, ReachInv
<1> USE NoRunNoTab, ProfilesType, ThreadFacts DEF TypeOK
<1>1. SUFFICES ASSUME NEW r \in Runs, tabOf'[r] # NoTab, ~stopFlag'[r]
               PROVE  \/ terminals'[tabOf'[r]] = r
                      \/ main'.at = "signal" /\ main'.run = r
                      \/ r \in robbed'
  BY DEF LiveRunIsRegistered, Started
<1> DEFINE Goal == \/ terminals'[tabOf'[r]] = r
                   \/ main'.at = "signal" /\ main'.run = r
                   \/ r \in robbed'
<1>2. ASSUME tabOf[r] # NoTab, ~stopFlag[r]
      PROVE  \/ terminals[tabOf[r]] = r
             \/ main.at = "signal" /\ main.run = r
             \/ r \in robbed
  BY <1>2 DEF IInv, ReachInv, LiveRunIsRegistered, Started
<1>3. ASSUME NEW tab \in Tabs, NEW next \in Profiles \cup {NoProfile},
             TakeEntry(tab, next)
      PROVE  Goal
  BY <1>1, <1>2, <1>3 DEF TakeEntry, MainIdle, historyVars
<1>4. ASSUME NEW tab \in Tabs, NEW w \in Widths, Resize(tab, w)
      PROVE  Goal
  BY <1>1, <1>2, <1>4 DEF Resize, historyVars
<1>5. ASSUME NEW tab \in Tabs, NEW q \in Runs,
             \/ \E left \in BOOLEAN : Type(tab, q, left)
             \/ SubmitUsername(tab, q)
             \/ SubmitPassword(tab, q)
      PROVE  Goal
  BY <1>1, <1>2, <1>5 DEF Type, SubmitUsername, SubmitPassword, registryVars,
                          historyVars
<1>6. ASSUME SignalStop PROVE Goal
  BY <1>1, <1>2, <1>6 DEF SignalStop, RegistryInv, MainIdle, registryVars,
                          historyVars
<1>7. ASSUME CloseState \/ Forget \/ LaunchFails PROVE Goal
  BY <1>1, <1>2, <1>7 DEF CloseState, Forget, LaunchFails, registryVars,
                          historyVars
<1>8. ASSUME NEW q \in Runs, Launch(q) PROVE Goal
  <2>1. /\ main.tab \in Tabs /\ main.at = "launch" /\ tabOf[q] = NoTab
        /\ terminals[main.tab] = NoRun
        /\ tabOf' = [tabOf EXCEPT ![q] = main.tab]
        /\ terminals' = [terminals EXCEPT ![main.tab] = q]
        /\ stopFlag' = stopFlag /\ robbed' = robbed
    BY <1>8 DEF Launch, Started, RegistryInv, MainIdle
  <2>2. CASE r = q
    BY <2>1, <2>2
  <2>3. CASE r # q
    BY <1>1, <1>2, <2>1, <2>3
  <2>4. QED
    BY <2>2, <2>3
<1>9. ASSUME NEW q \in Runs, ConnectStep(q) \/ ReaderStep(q) \/ RemoteCloses(q)
      PROVE  Goal
  BY <1>1, <1>2, <1>9 DEF ConnectStep, ConnectStart, OpenSucceeds, RememberAuth,
       EnterRunning, OpenFails, ReaderStep, ReaderTop, ReaderRead, RemoteCloses,
       registryVars, historyVars
<1>10. ASSUME NEW t \in Threads, Finalize(t) PROVE Goal
  <2> USE ThreadParts
  <2>1. tabOf' = tabOf /\ main' = main
    BY <1>10 DEF Finalize, FinalizeSwap, FinalizeRemove, FinalizeClear,
                 FinalizeEmit, registryVars
  <2>2. ~stopFlag[r]
    <3>1. stopFlag' = stopFlag \/ stopFlag' = [stopFlag EXCEPT ![t[1]] = TRUE]
      BY <1>10 DEF Finalize, FinalizeSwap, FinalizeRemove, FinalizeClear,
                   FinalizeEmit
    <3>2. QED
      BY <1>1, <3>1
  <2>3. CASE ~FinalizeRemove(t)
    <3>1. terminals' = terminals /\ robbed' = robbed
      BY <1>10, <2>3 DEF Finalize, FinalizeSwap, FinalizeClear, FinalizeEmit,
                         registryVars, historyVars
    <3>2. QED
      BY <1>1, <1>2, <2>1, <2>2, <3>1
  <2>4. CASE FinalizeRemove(t)
    <3>1. stopFlag[t[1]] /\ pc[t] # "idle"
      BY <2>4 DEF FinalizeRemove, IInv, FinalizeInv, ThreadsOf, Owing
    <3>2. t[1] # r /\ ~Idle(t[1])
      BY <2>2, <3>1, IdleFacts
    <3>3. /\ terminals' = [terminals EXCEPT ![tabOf[t[1]]] = NoRun]
          /\ robbed' = robbed \cup {q \in Runs : /\ terminals[tabOf[t[1]]] = q
                                                /\ t[1] \in elders[q]}
      BY <2>4 DEF FinalizeRemove
    <3>4. ASSUME terminals[tabOf[r]] = r, tabOf[t[1]] = tabOf[r]
          PROVE  r \in robbed'
      BY <1>1, <2>1, <3>2, <3>3, <3>4 DEF EldersKnown, Started
    <3>5. QED
      BY <1>1, <1>2, <2>1, <2>2, <3>3, <3>4
  <2>5. QED
    BY <2>3, <2>4
<1>11. CASE UNCHANGED vars
  BY <1>1, <1>2, <1>11 DEF vars, registryVars, historyVars
<1>12. QED
  BY <1>3, <1>4, <1>5, <1>6, <1>7, <1>8, <1>9, <1>10, <1>11, NextIsAction
     DEF Action, MainStep

(* The initial states satisfy the invariant.                               *)
LEMMA InitIInv == Init => IInv
<1> SUFFICES ASSUME Init PROVE IInv
  OBVIOUS
<1> USE NoRunNoTab, WidthsType, ThreadFacts DEF Init
<1>1. TypeOK
  BY DEF TypeOK, PtyWidths, MainPlaces, States, PCs
<1>2. ThreadsInPlace
  BY IdleFacts DEF ThreadsInPlace, InPlace, ConnectPCs, ReaderPCs, Started
<1>3. RegistryInv
  BY DEF RegistryInv, MainIdle
<1>4. SingleDriver
  BY DEF SingleDriver, Prompting
<1>5. FinalizeInv
  BY DEF FinalizeInv, ThreadsOf, Owing
<1>6. GoneInv
  BY DEF GoneInv
<1>7. ReachInv
  BY IdleFacts DEF ReachInv, EldersKnown, LiveRunIsRegistered, Started
<1>8. QED
  BY <1>1, <1>2, <1>3, <1>4, <1>5, <1>6, <1>7 DEF IInv

LEMMA StepIInv == IInv /\ [Next]_vars => IInv'
<1> SUFFICES ASSUME IInv, [Next]_vars PROVE IInv'
  OBVIOUS
<1> /\ TypeOK /\ ThreadsInPlace /\ RegistryInv /\ SingleDriver /\ FinalizeInv
    /\ GoneInv
  BY DEF IInv
<1>1. ReachInv'
  BY EldersStep, LiveStep DEF IInv, ReachInv
<1>2. QED
  BY <1>1, TypeStep, InPlaceStep, RegistryStep, SingleDriverStep, FinalizeStep,
     GoneStep DEF IInv

THEOREM Invariant == Spec => []IInv
  BY InitIInv, StepIInv, PTL DEF Spec

(* The variables keep their types, and no PTY has fewer than two columns.  *)
THEOREM TypeCorrect == Spec => []TypeOK
<1>1. IInv => TypeOK
  BY DEF IInv
<1>2. QED
  BY <1>1, Invariant, PTL

(* A run never has two threads that drive its session, nor a prompt whose  *)
(* answer could start a second connection.                                 *)
THEOREM OneDriver == Spec => []SingleDriver
<1>1. IInv => SingleDriver
  BY DEF IInv
<1>2. QED
  BY <1>1, Invariant, PTL

(* The registry is true, however often a tab is started again and whatever *)
(* its earlier runs are still doing: a live run can be reached through it, *)
(* unless an earlier run that was ending when it was launched finalized    *)
(* after it; and a run whose exit was reported has left it.                *)
THEOREM RegistryHolds == Spec => []RegistryIsTrue
<1>1. IInv => LiveRunIsRegistered
  BY DEF IInv, ReachInv
<1>2. IInv => ExitedRunIsGone
  BY DEF IInv, GoneInv, ExitedRunIsGone, TypeOK
<1>3. QED
  BY <1>1, <1>2, Invariant, PTL DEF RegistryIsTrue

(* The refinement.  Only four actions change the phase of a run, each that *)
(* of one run.                                                             *)
LEMMA OneMoves ==
  ASSUME NEW q \in Runs, NEW from, NEW to,
         PhaseOf(q) = from, PhaseOf(q)' = to,
         \A s \in Runs \ {q} : PhaseOf(s)' = PhaseOf(s)
  PROVE  Lifecycle!Move(q, from, to)
<1>1. phase' = [r \in Runs |-> PhaseOf(r)']
  BY DEF phase
<1>2. phase[q] = from
  BY DEF phase
<1>3. phase' = [phase EXCEPT ![q] = to]
  BY <1>1 DEF phase
<1>4. QED
  BY <1>2, <1>3 DEF Lifecycle!Move

LEMMA NoneMoves ==
  ASSUME \A s \in Runs : PhaseOf(s)' = PhaseOf(s)
  PROVE  phase' = phase
  BY DEF phase

(* What PhaseOf depends on.                                                *)
LEMMA SamePhase ==
  ASSUME NEW s \in Runs, Started(s)' <=> Started(s),
         stopFlag'[s] = stopFlag[s], exits'[s] = exits[s],
         wins'[Connect(s)] = wins[Connect(s)],
         wins'[Reader(s)] = wins[Reader(s)]
  PROVE  PhaseOf(s)' = PhaseOf(s)
  BY DEF PhaseOf, ThreadsOf

LEMMA SameWhenUnchanged ==
  ASSUME UNCHANGED <<tabOf, stopFlag, exits, wins>>
  PROVE  phase' = phase
  BY SamePhase, NoneMoves DEF Started

(* The phase of a run whose account is kept.                               *)
LEMMA PhaseFacts ==
  ASSUME TypeOK, NEW r \in Runs, InPlace(r), Account(r)
  PROVE  /\ ~Started(r) => PhaseOf(r) = "new"
         /\ Started(r) /\ ~stopFlag[r] =>
              /\ PhaseOf(r) = "live"
              /\ exits[r] = 0
              /\ \A t \in ThreadsOf(r) : ~wins[t]
         /\ \A t \in ThreadsOf(r) : wins[t] =>
              /\ PhaseOf(r) = "ending"
              /\ exits[r] = 0
              /\ Started(r) /\ stopFlag[r]
<1> USE ThreadFacts, IdleFacts
    DEF TypeOK, InPlace, Account, Owing, ThreadsOf, PhaseOf
<1>1. ASSUME exits[r] # 1 PROVE exits[r] = 0
  BY <1>1, AtMostOne
<1>2. Started(r) /\ ~stopFlag[r] => exits[r] = 0
  BY <1>1
<1>3. \A t \in ThreadsOf(r) :
        wins[t] => exits[r] = 0 /\ Started(r) /\ stopFlag[r]
  BY <1>1
<1>4. QED
  BY <1>2, <1>3

LEMMA RefinementStep ==
  ASSUME IInv, [Next]_vars
  PROVE  [Lifecycle!Next]_phase
<1> /\ TypeOK /\ ThreadsInPlace /\ RegistryInv /\ SingleDriver
    /\ \A r \in Runs : InPlace(r) /\ Account(r)
  BY FinalizeInvIsAccount DEF IInv, ThreadsInPlace
<1> USE ThreadFacts DEF TypeOK
<1>1. CASE SignalStop
  <2>1. PICK q \in Runs : q = main.run
    BY <1>1 DEF SignalStop, RegistryInv
  <2>2. /\ Started(q)
        /\ stopFlag' = [stopFlag EXCEPT ![q] = TRUE]
        /\ tabOf' = tabOf /\ exits' = exits /\ wins' = wins
    BY <1>1, <2>1, NoRunNoTab DEF SignalStop, RegistryInv, MainIdle, Started,
                                  registryVars, threadVars
  <2>3. \A s \in Runs \ {q} : PhaseOf(s)' = PhaseOf(s)
    BY <2>2, SamePhase DEF Started
  <2>4. CASE stopFlag[q]
    <3>1. stopFlag' = stopFlag
      BY <2>2, <2>4
    <3>2. QED
      BY <2>2, <3>1, SameWhenUnchanged
  <2>5. CASE ~stopFlag[q]
    <3>1. /\ PhaseOf(q) = "live" /\ exits[q] = 0
          /\ \A t \in ThreadsOf(q) : ~wins[t]
      BY <2>2, <2>5, PhaseFacts
    <3>2. PhaseOf(q)' = "stopped"
      BY <2>2, <3>1 DEF PhaseOf, Started, ThreadsOf
    <3>3. QED
      BY <2>2, <2>3, <3>1, <3>2, OneMoves DEF Lifecycle!Next, Lifecycle!Stop
  <2>6. QED
    BY <2>4, <2>5
<1>2. ASSUME NEW q \in Runs, Launch(q) PROVE [Lifecycle!Next]_phase
  <2>1. /\ ~Started(q) /\ ~stopFlag[q] /\ stopFlag' = stopFlag
        /\ main.tab # NoTab /\ tabOf' = [tabOf EXCEPT ![q] = main.tab]
        /\ exits' = exits /\ wins' = wins
    BY <1>2, NoRunNoTab DEF Launch, RegistryInv, MainIdle, InPlace
  <2>2. \A s \in Runs \ {q} : PhaseOf(s)' = PhaseOf(s)
    BY <2>1, SamePhase DEF Started
  <2>3. PhaseOf(q) = "new" /\ PhaseOf(q)' = "live"
    BY <2>1 DEF PhaseOf, Started
  <2>4. QED
    BY <2>2, <2>3, OneMoves DEF Lifecycle!Next, Lifecycle!Launch
<1>3. ASSUME NEW t \in Threads, FinalizeSwap(t) PROVE [Lifecycle!Next]_phase
  <2> DEFINE q == t[1]
  <2>1. /\ q \in Runs /\ t \in ThreadsOf(q) /\ Started(q)
        /\ stopFlag' = [stopFlag EXCEPT ![q] = TRUE]
        /\ wins' = [wins EXCEPT ![t] = ~stopFlag[q]]
        /\ tabOf' = tabOf /\ exits' = exits
    BY <1>3, ThreadParts, IdleFacts
       DEF FinalizeSwap, registryVars, ThreadsOf, InPlace
  <2>2. \A s \in Runs \ {q} : PhaseOf(s)' = PhaseOf(s)
    BY <2>1, SamePhase DEF Started, ThreadsOf
  <2>3. ~wins[t]
    BY <1>3, <2>1 DEF FinalizeSwap, Account, Owing
  <2>4. CASE stopFlag[q]
    <3>1. stopFlag' = stopFlag
      BY <2>1, <2>4
    <3>2. wins' = wins
      BY <2>1, <2>3, <2>4
    <3>3. QED
      BY <2>1, <3>1, <3>2, SameWhenUnchanged
  <2>5. CASE ~stopFlag[q]
    <3>1. PhaseOf(q) = "live" /\ exits[q] = 0
      BY <2>1, <2>5, PhaseFacts
    <3>2. wins'[t] /\ stopFlag'[q] /\ exits'[q] = 0
      BY <2>1, <2>5, <3>1
    <3>3. PhaseOf(q)' = "ending"
      BY <2>1, <3>2 DEF PhaseOf, Started, ThreadsOf
    <3>4. QED
      BY <2>1, <2>2, <3>1, <3>3, OneMoves DEF Lifecycle!Next, Lifecycle!End
  <2>6. QED
    BY <2>4, <2>5
<1>4. ASSUME NEW t \in Threads, FinalizeEmit(t) PROVE [Lifecycle!Next]_phase
  <2> DEFINE q == t[1]
  <2>1. /\ q \in Runs /\ t \in ThreadsOf(q) /\ wins[t]
        /\ exits' = [exits EXCEPT ![q] = exits[q] + 1]
        /\ wins' = [wins EXCEPT ![t] = FALSE]
        /\ tabOf' = tabOf /\ stopFlag' = stopFlag
    BY <1>4, ThreadParts DEF FinalizeEmit, registryVars, ThreadsOf, Account
  <2>2. \A s \in Runs \ {q} : PhaseOf(s)' = PhaseOf(s)
    <3>1. \A s \in Runs \ {q} : exits'[s] = exits[s]
      BY <2>1
    <3>2. \A s \in Runs \ {q} : /\ wins'[Connect(s)] = wins[Connect(s)]
                                /\ wins'[Reader(s)] = wins[Reader(s)]
      BY <2>1 DEF ThreadsOf
    <3>3. QED
      BY <2>1, <3>1, <3>2, SamePhase DEF Started
  <2>3. /\ PhaseOf(q) = "ending" /\ exits[q] = 0
        /\ Started(q) /\ stopFlag[q]
    BY <2>1, PhaseFacts
  <2>4. exits'[q] = 1
    BY <2>1, <2>3
  <2>5. PhaseOf(q)' = "exited"
    BY <2>1, <2>3, <2>4 DEF PhaseOf, Started
  <2>6. QED
    BY <2>1, <2>2, <2>3, <2>5, OneMoves DEF Lifecycle!Next, Lifecycle!Report
<1>5. ASSUME UNCHANGED <<tabOf, stopFlag, exits, wins>>
      PROVE  [Lifecycle!Next]_phase
  BY <1>5, SameWhenUnchanged
<1>6. ASSUME NEW tab \in Tabs, NEW next \in Profiles \cup {NoProfile},
             TakeEntry(tab, next)
      PROVE  [Lifecycle!Next]_phase
  BY <1>5, <1>6 DEF TakeEntry, threadVars
<1>7. ASSUME NEW tab \in Tabs, NEW w \in Widths, Resize(tab, w)
      PROVE  [Lifecycle!Next]_phase
  BY <1>5, <1>7 DEF Resize, threadVars
<1>8. ASSUME NEW tab \in Tabs, NEW r \in Runs,
             \/ \E left \in BOOLEAN : Type(tab, r, left)
             \/ SubmitUsername(tab, r)
             \/ SubmitPassword(tab, r)
      PROVE  [Lifecycle!Next]_phase
  BY <1>5, <1>8 DEF Type, SubmitUsername, SubmitPassword, registryVars,
                    threadVars
<1>9. ASSUME CloseState \/ Forget \/ LaunchFails PROVE [Lifecycle!Next]_phase
  BY <1>5, <1>9 DEF CloseState, Forget, LaunchFails, registryVars, threadVars
<1>10. ASSUME NEW r \in Runs,
              ConnectStep(r) \/ ReaderStep(r) \/ RemoteCloses(r)
       PROVE  [Lifecycle!Next]_phase
  BY <1>5, <1>10 DEF ConnectStep, ConnectStart, OpenSucceeds, RememberAuth,
                     EnterRunning, OpenFails, ReaderStep, ReaderTop, ReaderRead,
                     RemoteCloses, registryVars, threadVars
<1>11. ASSUME NEW t \in Threads, FinalizeRemove(t) \/ FinalizeClear(t)
       PROVE  [Lifecycle!Next]_phase
  BY <1>5, <1>11 DEF FinalizeRemove, FinalizeClear, registryVars
<1>12. CASE UNCHANGED vars
  BY <1>5, <1>12 DEF vars, registryVars, threadVars
<1>13. QED
  BY <1>1, <1>2, <1>3, <1>4, <1>6, <1>7, <1>8, <1>9, <1>10, <1>11, <1>12,
     NextIsAction DEF Action, MainStep, Finalize

(* Every terminal run is launched once and ends once, either stopped in    *)
(* silence or with one exit event: the runtime implements the lifecycle.   *)
THEOREM Refinement == Spec => ImplementsLifecycle
<1>1. Init => Lifecycle!Init
  BY DEF Init, Lifecycle!Init, phase, PhaseOf, Started
<1>2. IInv /\ [Next]_vars => [Lifecycle!Next]_phase
  BY RefinementStep
<1>3. QED
  BY <1>1, <1>2, Invariant, PTL DEF Spec, ImplementsLifecycle, Lifecycle!Spec

(* Sizes: the registry invariant gives a resized run no other tab.         *)
LEMMA SizeStep ==
  ASSUME IInv, RegisteredRunHasLatestSize, [Next]_vars
  PROVE  RegisteredRunHasLatestSize'
<1> SUFFICES ASSUME NEW tab \in Tabs, terminals'[tab] # NoRun
             PROVE  width'[terminals'[tab]] = pendingWidth'[tab]
  BY DEF RegisteredRunHasLatestSize
<1> DEFINE Goal == width'[terminals'[tab]] = pendingWidth'[tab]
<1> /\ terminals[tab] # NoRun => /\ width[terminals[tab]] = pendingWidth[tab]
                                 /\ tabOf[terminals[tab]] = tab
    /\ TypeOK /\ ThreadsInPlace /\ RegistryInv
  BY DEF IInv, RegisteredRunHasLatestSize, RegistryInv
<1> USE NoRunNoTab DEF TypeOK
<1>1. ASSUME NEW tb \in Tabs, NEW next \in Profiles \cup {NoProfile},
             TakeEntry(tb, next)
      PROVE  Goal
  BY <1>1 DEF TakeEntry, runVars
<1>2. ASSUME NEW tb \in Tabs, NEW w \in Widths, Resize(tb, w)
      PROVE  Goal
  <2>1. terminals[tb] # NoRun => tabOf[terminals[tb]] = tb
    BY DEF RegistryInv
  <2>2. QED
    BY <1>2, <2>1 DEF Resize
<1>3. ASSUME NEW tb \in Tabs, NEW r \in Runs,
             \/ \E left \in BOOLEAN : Type(tb, r, left)
             \/ SubmitUsername(tb, r)
             \/ SubmitPassword(tb, r)
      PROVE  Goal
  BY <1>3 DEF Type, SubmitUsername, SubmitPassword, registryVars
<1>4. ASSUME SignalStop \/ CloseState \/ Forget \/ LaunchFails PROVE Goal
  BY <1>4 DEF SignalStop, CloseState, Forget, LaunchFails, registryVars, runVars
<1>5. ASSUME NEW r \in Runs, Launch(r) PROVE Goal
  <2>1. terminals[tab] # r
    BY <1>5 DEF Launch, ThreadsInPlace, InPlace
  <2>2. main.tab \in Tabs
    BY <1>5 DEF Launch, RegistryInv, MainIdle
  <2>3. QED
    BY <1>5, <2>1, <2>2 DEF Launch
<1>6. ASSUME NEW r \in Runs, ConnectStep(r) \/ ReaderStep(r) \/ RemoteCloses(r)
      PROVE  Goal
  BY <1>6 DEF ConnectStep, ConnectStart, OpenSucceeds, RememberAuth,
              EnterRunning, OpenFails, ReaderStep, ReaderTop, ReaderRead,
              RemoteCloses, registryVars, runVars
<1>7. ASSUME NEW t \in Threads, Finalize(t) PROVE Goal
  BY <1>7 DEF Finalize, FinalizeSwap, FinalizeRemove, FinalizeClear,
              FinalizeEmit, registryVars, runVars
<1>8. CASE UNCHANGED vars
  BY <1>8 DEF vars, registryVars, runVars
<1>9. QED
  BY <1>1, <1>2, <1>3, <1>4, <1>5, <1>6, <1>7, <1>8, NextIsAction
     DEF Action, MainStep

(* A registered run always knows the newest size of its tab.               *)
THEOREM LatestSize == Spec => []RegisteredRunHasLatestSize
<1>1. Init => RegisteredRunHasLatestSize
  BY DEF Init, RegisteredRunHasLatestSize
<1>2. /\ IInv
      /\ RegisteredRunHasLatestSize
      /\ [Next]_vars
      => RegisteredRunHasLatestSize'
  BY SizeStep
<1>3. QED
  BY <1>1, <1>2, Invariant, PTL DEF Spec

-----------------------------------------------------------------------------
(***************************************************************************)
(* Host-key verification.                                                  *)
(***************************************************************************)

LEMMA InitTrust == HostKeyInit => TrustInv
  BY HostKeyAssumption
  DEF HostKeyInit, TrustInv, HostKeyTypeOK, Places, Decisions, FilesVouched, AnswersDecided,
      PlacesDecided, Storing, Vouched

(* What the user has answered is never taken back.                         *)
LEMMA VouchedStays ==
  ASSUME decided \subseteq decided'
  PROVE  \A line : Vouched(line) => Vouched(line)'
  BY DEF Vouched, Approved, Line

LEMMA HostKeyTypeStep == HostKeyTypeOK /\ [HostKeyNext]_hostKeyVars => HostKeyTypeOK'
<1> SUFFICES ASSUME HostKeyTypeOK, [HostKeyNext]_hostKeyVars PROVE HostKeyTypeOK'
  OBVIOUS
<1> USE HostKeyAssumption DEF HostKeyTypeOK
<1>1. ASSUME NEW c \in Conns, Verify(c) PROVE HostKeyTypeOK'
  <2> Line(c) \in Endpoints \X Keys
    BY DEF Line
  <2> USE DEF MoveTo, Release, Places, fileVars, windowVars
  <2>1. CASE FirstCheck(c)
    BY <2>1 DEF FirstCheck
  <2>2. CASE Acquire(c)
    BY <2>2 DEF Acquire
  <2>3. CASE Recheck(c)
    <3>1. /\ stage' \in [Conns -> Places] /\ hostLock' \in [Endpoints -> Conns \cup {NoConn}]
          /\ kind' \in [Conns -> {"unknown", "changed"}]
      BY <2>3 DEF Recheck
    <3>2. harmed' \subseteq Endpoints
      BY <2>3 DEF Recheck
    <3>3. QED
      BY <2>3, <3>1, <3>2 DEF Recheck
  <2>4. CASE Register(c)
    BY <2>4 DEF Register
  <2>5. CASE Receive(c) \/ AbortAsking(c) \/ GiveUp(c)
    BY ZenonT(90), <2>5 DEF Receive, AbortAsking, GiveUp, Decide, Decisions
  <2>6. CASE Unregister(c)
    BY <2>6 DEF Unregister, Decisions
  <2>7. CASE Reject(c)
    BY <2>7 DEF Reject
  <2>8. CASE AcceptOnce(c)
    BY <2>8 DEF AcceptOnce, OnceKey
  <2>9. CASE ReadFile(c)
    BY <2>9 DEF ReadFile
  <2>10. CASE TruncateFile(c)
    BY <2>10 DEF TruncateFile
  <2>11. CASE WriteFile(c)
    BY <2>11 DEF WriteFile
  <2>12. CASE AppendLine(c)
    <3>1. /\ stage' \in [Conns -> Places] /\ hostLock' \in [Endpoints -> Conns \cup {NoConn}]
          /\ knownHosts' \subseteq Endpoints \X Keys
      BY <2>12 DEF AppendLine
    <3>2. harmed' \subseteq Endpoints
      BY <2>12 DEF AppendLine, Overwritten
    <3>3. QED
      BY <2>12, <3>1, <3>2 DEF AppendLine
  <2>13. QED
    BY <1>1, <2>1, <2>2, <2>3, <2>4, <2>5, <2>6, <2>7, <2>8, <2>9, <2>10, <2>11,
       <2>12 DEF Verify
<1>2. ASSUME NEW d \in Decisions, Answer(d) PROVE HostKeyTypeOK'
  BY <1>2 DEF Answer, fileVars
<1>3. ASSUME NEW c \in Conns, NEW d \in Decisions, Resolve(c, d) PROVE HostKeyTypeOK'
  BY <1>3 DEF Resolve, fileVars
<1>4. ASSUME NEW c \in Conns, RequestStop(c) PROVE HostKeyTypeOK'
  BY <1>4 DEF RequestStop, fileVars, windowVars
<1>5. CASE UNCHANGED hostKeyVars
  BY <1>5 DEF hostKeyVars, fileVars, windowVars
<1>6. QED
  BY <1>1, <1>2, <1>3, <1>4, <1>5 DEF HostKeyNext, Window

(* The steps of a verification: the user's answers stay as they are.       *)
LEMMA VerifyTrust ==
  ASSUME TrustInv, NEW c \in Conns, Verify(c)
  PROVE  FilesVouched' /\ AnswersDecided' /\ PlacesDecided'
<1> /\ HostKeyTypeOK /\ FilesVouched /\ AnswersDecided /\ PlacesDecided
  BY DEF TrustInv
<1>1. decided' = decided /\ resolving' = resolving /\ mailbox' = mailbox
  BY DEF Verify, FirstCheck, Acquire, Recheck, Register, Receive, AbortAsking,
         GiveUp, Decide, Unregister, Reject, AcceptOnce, ReadFile, TruncateFile,
         WriteFile, AppendLine, windowVars
<1>2. \A line : Vouched(line)' <=> Vouched(line)
  BY <1>1 DEF Vouched, Approved, Line
<1>3. AnswersDecided'
  BY <1>1 DEF AnswersDecided
<1>4. <<c, "store">> \in decided \/ <<c, "once">> \in decided
      => Vouched(Line(c))
  BY DEF Vouched, Approved
<1> DEFINE Place(x) ==
             /\ stage[x] = "decided" => \/ decision[x] = "reject"
                                     \/ <<x, decision[x]>> \in decided
             /\ stage[x] = "once" => <<x, "once">> \in decided
             /\ stage[x] \in Storing => <<x, "store">> \in decided
             /\ stage[x] = "ok" => Vouched(Line(x))
           Files == /\ \A line \in knownHosts' \cup acceptedOnce' :
                         Vouched(line)
                    /\ \A x \in Conns : \A line \in kept'[x] : Vouched(line)
<1>5. \A x \in Conns \ {c} : Place(x)'
  <2>1. stage' = [stage EXCEPT ![c] = stage'[c]]
    BY DEF Verify, FirstCheck, Acquire, Recheck, Register, Receive, AbortAsking,
           GiveUp, Decide, Unregister, Reject, AcceptOnce, ReadFile,
           TruncateFile, WriteFile, AppendLine, MoveTo, Release, HostKeyTypeOK
  <2>2. decision' = [decision EXCEPT ![c] = decision'[c]]
    BY DEF Verify, FirstCheck, Acquire, Recheck, Register, Receive, AbortAsking,
           GiveUp, Decide, Unregister, Reject, AcceptOnce, ReadFile,
           TruncateFile, WriteFile, AppendLine, HostKeyTypeOK
  <2>3. \A x \in Conns \ {c} : stage'[x] = stage[x] /\ decision'[x] = decision[x]
    BY <2>1, <2>2 DEF HostKeyTypeOK
  <2>4. QED
    BY <1>1, <1>2, <2>3 DEF PlacesDecided, Line
<1>6. Place(c)' /\ Files
  <2> USE <1>1, <1>2, <1>4
      DEF MoveTo, Release, Storing, HostKeyTypeOK, FilesVouched, PlacesDecided, Line,
          fileVars
  <2>1. CASE FirstCheck(c) \/ Acquire(c) \/ Recheck(c) \/ Register(c)
    BY <2>1 DEF FirstCheck, Acquire, Recheck, Register, Known
  <2>2. CASE Receive(c)
    BY <2>2 DEF Receive, Decide, AnswersDecided
  <2>3. CASE AbortAsking(c) \/ GiveUp(c)
    BY <2>3 DEF AbortAsking, GiveUp, Decide
  <2>4. CASE Unregister(c)
    BY <2>4 DEF Unregister, Decisions
  <2>5. CASE Reject(c)
    BY <2>5 DEF Reject
  <2>6. CASE AcceptOnce(c)
    BY <2>6 DEF AcceptOnce, OnceKey
  <2>7. CASE ReadFile(c)
    <3>1. \A x \in Conns : kept'[x] \subseteq kept[x] \cup knownHosts
      <4>1. \/ kept' = kept
            \/ kept' = [kept EXCEPT ![c] = {line \in knownHosts : ~Matches(c, line)}]
        BY <2>7 DEF ReadFile
      <4>2. CASE kept' = kept
        BY <4>2
      <4>3. CASE kept' = [kept EXCEPT ![c] = {line \in knownHosts : ~Matches(c, line)}]
        <5>1. PICK rest : rest = {line \in knownHosts : ~Matches(c, line)}
          OBVIOUS
        <5>2. rest \subseteq knownHosts
          BY <5>1
        <5>3. QED
          BY <4>3, <5>1, <5>2 DEF HostKeyTypeOK
      <4>4. QED
        BY <4>1, <4>2, <4>3
    <3>2. Files
      BY <2>7, <3>1 DEF ReadFile
    <3>3. QED
      BY <2>7, <3>2 DEF ReadFile
  <2>8. CASE TruncateFile(c)
    BY <2>8 DEF TruncateFile
  <2>9. CASE WriteFile(c)
    <3>1. \A x \in Conns : kept'[x] \subseteq kept[x]
      BY <2>9 DEF WriteFile
    <3>2. Files
      BY <2>9, <3>1 DEF WriteFile
    <3>3. QED
      BY <2>9, <3>2 DEF WriteFile
  <2>10. CASE AppendLine(c)
    BY <2>10 DEF AppendLine
  <2>11. QED
    BY <2>1, <2>2, <2>3, <2>4, <2>5, <2>6, <2>7, <2>8, <2>9, <2>10 DEF Verify
<1>7. FilesVouched'
  BY <1>2, <1>6 DEF FilesVouched
<1>8. PlacesDecided'
  BY <1>5, <1>6 DEF PlacesDecided
<1>9. QED
  BY <1>3, <1>7, <1>8

LEMMA StepTrust == TrustInv /\ [HostKeyNext]_hostKeyVars => TrustInv'
<1> SUFFICES ASSUME TrustInv, [HostKeyNext]_hostKeyVars PROVE TrustInv'
  OBVIOUS
<1>1. HostKeyTypeOK'
  BY HostKeyTypeStep DEF TrustInv
<1> DEFINE Rest == FilesVouched /\ AnswersDecided /\ PlacesDecided
<1> USE DEF TrustInv
<1>2. ASSUME NEW c \in Conns, Verify(c) PROVE Rest'
  BY <1>2, VerifyTrust
<1>3. ASSUME decided \subseteq decided', UNCHANGED <<fileVars, kept, stage, decision>>,
             AnswersDecided'
      PROVE  Rest'
  <2>1. FilesVouched'
    BY <1>3, VouchedStays DEF FilesVouched, fileVars
  <2>2. PlacesDecided'
    BY <1>3, VouchedStays DEF PlacesDecided, Line
  <2>3. QED
    BY <1>3, <2>1, <2>2
<1>4. ASSUME NEW d \in Decisions, Answer(d) PROVE Rest'
  <2>1. AnswersDecided'
    BY <1>4 DEF Answer, AnswersDecided
  <2>2. QED
    BY <1>3, <1>4, <2>1 DEF Answer
<1>5. ASSUME NEW c \in Conns, NEW d \in Decisions, Resolve(c, d) PROVE Rest'
  <2>1. AnswersDecided'
    BY <1>5 DEF Resolve, AnswersDecided, HostKeyTypeOK
  <2>2. QED
    BY <1>3, <1>5, <2>1 DEF Resolve
<1>6. ASSUME NEW c \in Conns, RequestStop(c) PROVE Rest'
  <2>1. AnswersDecided'
    BY <1>6 DEF RequestStop, AnswersDecided, windowVars
  <2>2. QED
    BY <1>3, <1>6, <2>1 DEF RequestStop, windowVars
<1>7. ASSUME UNCHANGED hostKeyVars PROVE Rest'
  <2>1. AnswersDecided'
    BY <1>7 DEF hostKeyVars, AnswersDecided, windowVars
  <2>2. UNCHANGED <<fileVars, kept, stage, decision>> /\ decided \subseteq decided'
    BY <1>7 DEF hostKeyVars, windowVars
  <2>3. QED
    BY <1>3, <2>1, <2>2
<1>8. QED
  BY <1>1, <1>2, <1>4, <1>5, <1>6, <1>7 DEF HostKeyNext, Window

(* Late answers, timeouts, stops and rewrites of the file in any order     *)
(* never let a key pass that nobody trusted.                               *)
THEOREM OnlyTrustedPass == HostKeySpec => []PassedIsTrusted
<1>1. TrustInv => PassedIsTrusted
  BY DEF TrustInv, PlacesDecided, PassedIsTrusted, Vouched
<1>2. QED
  BY <1>1, InitTrust, StepTrust, PTL DEF HostKeySpec

---------------------------------------------------------------------------
(* The lock of an endpoint.                                                *)

Holding == {"recheck", "register", "asking", "decided", "reject", "once", "read", "truncate",
            "write", "store"}

(* A connection past the lock holds it, and a request is registered only   *)
(* while its connection waits.                                             *)
LockInv ==
  /\ \A c \in Conns : stage[c] \in Holding => hostLock[EndpointOf[c]] = c
  /\ NoLeakedRequest

LEMMA InitLock == HostKeyInit => HostKeyTypeOK /\ LockInv
  BY InitTrust DEF HostKeyInit, TrustInv, LockInv, Holding, NoLeakedRequest

LEMMA LockStep == HostKeyTypeOK /\ LockInv /\ [HostKeyNext]_hostKeyVars => LockInv'
  <1> SUFFICES ASSUME HostKeyTypeOK, LockInv, [HostKeyNext]_hostKeyVars PROVE LockInv'
    OBVIOUS
  <1> USE HostKeyAssumption
      DEF HostKeyTypeOK, LockInv, NoLeakedRequest, Holding, MoveTo, Release, fileVars, windowVars
  <1>1. ASSUME NEW c \in Conns, Verify(c) PROVE LockInv'
    <2>1. CASE FirstCheck(c)
      <3>1. PICK to \in {"ok", "waiting", "failed"} :
              stage[c] = "new" /\ MoveTo(c, to) /\ UNCHANGED <<hostLock, pending>>
        BY <2>1 DEF FirstCheck
      <3> QED BY <2>1, <3>1
    <2>2. CASE Acquire(c)
      BY <2>2 DEF Acquire
    <2>3. CASE Recheck(c)
      BY <2>3 DEF Recheck
    <2>4. CASE Register(c)
      BY <2>4 DEF Register
    <2>5. CASE Receive(c)
      BY <2>5 DEF Receive, Decide
    <2>6. CASE AbortAsking(c)
      BY <2>6 DEF AbortAsking, Decide
    <2>7. CASE GiveUp(c)
      BY <2>7 DEF GiveUp, Decide
    <2>8. CASE Unregister(c)
      BY <2>8 DEF Unregister, Decisions
    <2>9. CASE Reject(c)
      BY <2>9 DEF Reject
    <2>10. CASE AcceptOnce(c)
      BY <2>10 DEF AcceptOnce
    <2>11. CASE ReadFile(c)
      BY <2>11 DEF ReadFile
    <2>12. CASE TruncateFile(c)
      BY <2>12 DEF TruncateFile
    <2>13. CASE WriteFile(c)
      BY <2>13 DEF WriteFile
    <2>14. CASE AppendLine(c)
      <3>1. PICK to \in {"ok", "failed"} : Release(c, to) /\ UNCHANGED pending
        BY <2>14 DEF AppendLine
      <3> QED BY <2>14, <3>1 DEF AppendLine
    <2> QED BY <1>1, <2>1, <2>2, <2>3, <2>4, <2>5, <2>6, <2>7, <2>8, <2>9, <2>10, <2>11, <2>12,
               <2>13, <2>14 DEF Verify
  <1>2. ASSUME NEW d \in Decisions, Answer(d) PROVE LockInv'
    BY <1>2 DEF Answer
  <1>3. ASSUME NEW c \in Conns, NEW d \in Decisions, Resolve(c, d) PROVE LockInv'
    BY <1>3 DEF Resolve
  <1>4. ASSUME NEW c \in Conns, RequestStop(c) PROVE LockInv'
    BY <1>4 DEF RequestStop
  <1>5. CASE UNCHANGED hostKeyVars
    BY <1>5 DEF hostKeyVars
  <1> QED BY <1>1, <1>2, <1>3, <1>4, <1>5 DEF HostKeyNext, Window

LEMMA LockHolds == HostKeySpec => [](HostKeyTypeOK /\ LockInv)
  <1>1. HostKeyInit => HostKeyTypeOK /\ LockInv
    BY InitLock
  <1>2. (HostKeyTypeOK /\ LockInv) /\ [HostKeyNext]_hostKeyVars => (HostKeyTypeOK /\ LockInv)'
    BY HostKeyTypeStep, LockStep
  <1> QED BY <1>1, <1>2, PTL DEF HostKeySpec

(* The lock of src-tauri/src/runtime/ssh/host_key.rs keeps the             *)
(* connections of one endpoint to one prompt between them, and no request  *)
(* outlives the wait of its connection, for any endpoints and whatever the *)
(* timeouts and stops.                                                     *)
THEOREM OnePromptAtATime == HostKeySpec => [](OnePromptPerEndpoint /\ NoLeakedRequest)
  <1>1. HostKeyTypeOK /\ LockInv => OnePromptPerEndpoint /\ NoLeakedRequest
    BY DEF LockInv, Holding, Asking, OnePromptPerEndpoint
  <1> QED BY <1>1, LockHolds, PTL

---------------------------------------------------------------------------
(* The file.  It is shared by all endpoints and no lock protects it; what  *)
(* it keeps is proved of the endpoints that no rewrite for another one has *)
(* harmed, whatever the others suffer.                                     *)

(* How a decision is carried out.                                          *)
DecisionInv ==
  \A c \in Conns :
    /\ stage[c] \in {"new", "waiting", "recheck", "register", "asking", "reject", "once"} =>
         decision[c] # "store"
    /\ stage[c] \in {"read", "truncate", "write"} => kind[c] = "changed"
    /\ stage[c] \in Storing => decision[c] = "store"

(* Two rewrites at once harm every endpoint.                               *)
AloneInv ==
  \A c, d \in Conns : c # d /\ Rewriting(c) /\ Rewriting(d) => harmed = Endpoints

(* A rewrite knows nothing of its own endpoint, keeps what was in the file *)
(* of the others, and after the truncation the file has only lines that    *)
(* the rewrite may cost.                                                   *)
KeptInv ==
  \A d \in Conns :
    /\ Rewriting(d) =>
         /\ \A line \in kept[d] : line[1] # EndpointOf[d]
         /\ \A line, other \in kept[d] :
              line[1] = other[1] /\ line[1] \notin harmed =>
                line = other \/ {line, other} \subseteq InitialHosts
    /\ stage[d] = "truncate" =>
         \A line \in kept[d] : line[1] \notin harmed => line \in knownHosts
    /\ stage[d] = "write" => \A line \in knownHosts : line[1] \in harmed

(* A line is in the file, or in a rewrite of it.                           *)
InFile(line) ==
  line \in knownHosts \/ \E d \in Conns : Rewriting(d) /\ line \in kept[d]

(* What a connection that holds the lock of an endpoint knows of the lines *)
(* of the endpoint.                                                        *)
Knows(c, line) ==
  /\ stage[c] \in Asking => line # Line(c) /\ kind[c] = "changed"
  /\ stage[c] # "store"

AskInv ==
  \A c \in Conns :
    /\ stage[c] \in Asking => Line(c) \notin acceptedOnce
    /\ EndpointOf[c] \notin harmed =>
         \A line \in Endpoints \X Keys :
           line[1] = EndpointOf[c] /\ InFile(line) => Knows(c, line)

(* A stored key stays until another connection replaces it.                *)
Stays(c) ==
  \/ ReplacedByOther(c)
  \/ /\ Line(c) \in knownHosts
     /\ \A d \in Conns : stage[d] = "truncate" => Line(c) \in kept[d]
  \/ \E d \in Conns : stage[d] = "write" /\ Line(c) \in kept[d]

StoredInv ==
  \A c \in Conns :
    stage[c] = "ok" /\ decision[c] = "store" /\ EndpointOf[c] \notin harmed => Stays(c)

FileInv ==
  DecisionInv /\ AloneInv /\ KeptInv /\ AskInv /\ OneKeyPerEndpoint /\ StoredInv

LEMMA InitFile == HostKeyInit => FileInv
  BY HostKeyAssumption
  DEF HostKeyInit, FileInv, DecisionInv, AloneInv, KeptInv, AskInv, Asking, Storing,
      Rewriting, InFile, Knows, OneKeyPerEndpoint, StoredInv

(* Two holders of a lock are of different endpoints.                       *)
LEMMA HoldersApart ==
  ASSUME LockInv,
         NEW c \in Conns, NEW d \in Conns, c # d, stage[c] \in Holding, stage[d] \in Holding
  PROVE  EndpointOf[c] # EndpointOf[d]
  BY DEF LockInv

LEMMA LineIsOne ==
  ASSUME NEW c \in Conns
  PROVE  Line(c) \in Endpoints \X Keys /\ Line(c)[1] = EndpointOf[c]
  BY HostKeyAssumption DEF Line

(* What every step of a verification does to the connection that takes it, *)
(* and to the others.                                                      *)
LEMMA OthersStay ==
  ASSUME HostKeyTypeOK, NEW c \in Conns, Verify(c)
  PROVE  /\ \A x \in Conns \ {c} : /\ stage'[x] = stage[x]
                                   /\ kind'[x] = kind[x]
                                   /\ decision'[x] = decision[x]
                                   /\ kept'[x] = kept[x]
         /\ harmed \subseteq harmed' /\ acceptedOnce \subseteq acceptedOnce'
<1> USE HostKeyAssumption
    DEF HostKeyTypeOK, MoveTo, Release, fileVars, windowVars
<1>1. CASE FirstCheck(c) \/ Acquire(c) \/ Register(c) \/ Unregister(c) \/ Reject(c)
  <2>1. \E to : stage' = [stage EXCEPT ![c] = to]
    BY <1>1 DEF FirstCheck, Acquire, Register, Unregister, Reject
  <2>2. UNCHANGED <<kind, decision, kept, harmed, acceptedOnce>>
    BY <1>1 DEF FirstCheck, Acquire, Register, Unregister, Reject
  <2>3. QED
    BY <2>1, <2>2
<1>2. CASE Recheck(c)
  <2>1. PICK to \in {"ok", "register", "failed"} : stage' = [stage EXCEPT ![c] = to]
    BY <1>2 DEF Recheck
  <2>2. kind' = kind \/ \E k \in {"unknown", "changed"} : kind' = [kind EXCEPT ![c] = k]
    BY <1>2 DEF Recheck
  <2>3. /\ decision' = decision /\ kept' = kept /\ acceptedOnce' = acceptedOnce
        /\ harmed \subseteq harmed'
    BY <1>2 DEF Recheck
  <2>4. QED
    BY <2>1, <2>2, <2>3
<1>3. CASE Receive(c) \/ AbortAsking(c) \/ GiveUp(c)
  <2>1. PICK d : Decide(c, d)
    BY <1>3 DEF Receive, AbortAsking, GiveUp
  <2>2. QED
    BY <2>1 DEF Decide
<1>4. CASE AcceptOnce(c)
  BY <1>4 DEF AcceptOnce
<1>5. CASE ReadFile(c)
  BY <1>5 DEF ReadFile
<1>6. CASE TruncateFile(c)
  BY <1>6 DEF TruncateFile
<1>7. CASE WriteFile(c)
  BY <1>7 DEF WriteFile
<1>8. CASE AppendLine(c)
  <2>1. PICK to \in {"ok", "failed"} : stage' = [stage EXCEPT ![c] = to]
    BY <1>8 DEF AppendLine
  <2>2. UNCHANGED <<kind, decision, kept, acceptedOnce>> /\ harmed \subseteq harmed'
    BY <1>8 DEF AppendLine, Overwritten
  <2>3. QED
    BY <2>1, <2>2
<1>9. QED
  BY <1>1, <1>2, <1>3, <1>4, <1>5, <1>6, <1>7, <1>8 DEF Verify

(* What a step of a verification does to the file and to its rewrites.     *)
LEMMA FileSteps ==
  ASSUME HostKeyTypeOK, LockInv, NEW c \in Conns, Verify(c)
  PROVE  \/ /\ UNCHANGED <<knownHosts, kept>>
            /\ ~Rewriting(c)
            /\ stage'[c] \notin {"truncate", "write"}
         \/ ReadFile(c) /\ stage'[c] = "truncate"
         \/ TruncateFile(c) /\ stage'[c] = "write"
         \/ /\ TruncateFile(c) /\ stage'[c] = "failed"
            /\ knownHosts' = knownHosts
         \/ WriteFile(c) /\ stage'[c] = "store" /\ knownHosts' = kept[c]
         \/ WriteFile(c) /\ stage'[c] = "failed" /\ harmed' = Endpoints
         \/ AppendLine(c)
<1> USE HostKeyAssumption
    DEF HostKeyTypeOK, MoveTo, Release, Rewriting, fileVars, windowVars
<1>1. CASE FirstCheck(c)
  BY <1>1 DEF FirstCheck
<1>2. CASE Acquire(c) \/ Register(c) \/ Reject(c) \/ AcceptOnce(c)
  BY <1>2 DEF Acquire, Register, Reject, AcceptOnce
<1>3. CASE Recheck(c)
  BY <1>3 DEF Recheck
<1>4. CASE Receive(c) \/ AbortAsking(c) \/ GiveUp(c)
  BY <1>4 DEF Receive, AbortAsking, GiveUp, Decide
<1>5. CASE Unregister(c)
  BY <1>5 DEF Unregister, Decisions
<1>6. CASE ReadFile(c)
  BY <1>6 DEF ReadFile
<1>7. CASE TruncateFile(c)
  BY <1>7 DEF TruncateFile
<1>8. CASE WriteFile(c)
  BY <1>8 DEF WriteFile
<1>9. QED
  BY <1>1, <1>2, <1>3, <1>4, <1>5, <1>6, <1>7, <1>8 DEF Verify

LEMMA DecisionInvStep ==
  ASSUME HostKeyTypeOK, DecisionInv, NEW c \in Conns, Verify(c)
  PROVE  DecisionInv'
<1> USE HostKeyAssumption
    DEF HostKeyTypeOK, MoveTo, Release, fileVars, windowVars, DecisionInv, Storing
<1>1. CASE FirstCheck(c) \/ Acquire(c)
  BY <1>1 DEF FirstCheck, Acquire
<1>2. CASE Recheck(c)
  BY <1>2 DEF Recheck
<1>3. CASE Register(c) \/ Reject(c)
  BY <1>3 DEF Register, Reject
<1>4. CASE Receive(c) \/ AbortAsking(c) \/ GiveUp(c)
  BY <1>4 DEF Receive, AbortAsking, GiveUp, Decide
<1>5. CASE Unregister(c)
  BY <1>5 DEF Unregister, Decisions
<1>6. CASE AcceptOnce(c)
  BY <1>6 DEF AcceptOnce
<1>7. CASE ReadFile(c)
  BY <1>7 DEF ReadFile
<1>8. CASE TruncateFile(c)
  BY <1>8 DEF TruncateFile
<1>9. CASE WriteFile(c)
  BY <1>9 DEF WriteFile
<1>10. CASE AppendLine(c)
  BY <1>10 DEF AppendLine
<1>11. QED
  BY <1>1, <1>2, <1>3, <1>4, <1>5, <1>6, <1>7, <1>8, <1>9, <1>10 DEF Verify

LEMMA AloneStep ==
  ASSUME HostKeyTypeOK, HostKeyTypeOK', LockInv, AloneInv, NEW c \in Conns, Verify(c)
  PROVE  AloneInv'
<1>1. SUFFICES ASSUME NEW x \in Conns, NEW y \in Conns, x # y,
                      Rewriting(x)', Rewriting(y)'
               PROVE  harmed' = Endpoints
  BY DEF AloneInv
<1>2. harmed = Endpoints => harmed' = Endpoints
  BY OthersStay DEF HostKeyTypeOK
<1>3. \A d \in Conns \ {c} : Rewriting(d)' => Rewriting(d)
  BY OthersStay DEF Rewriting
<1>4. CASE x # c /\ y # c
  BY <1>1, <1>2, <1>3, <1>4 DEF AloneInv
<1>5. CASE x = c \/ y = c
  <2>1. PICK d \in Conns \ {c} : Rewriting(d)
    BY <1>1, <1>3, <1>5
  <2>2. CASE Rewriting(c)
    BY <1>2, <2>1, <2>2 DEF AloneInv
  <2>3. CASE ~Rewriting(c)
    <3>1. ReadFile(c) /\ stage'[c] = "truncate"
      BY <1>1, <1>5, <2>3, FileSteps, SMTT(30)
      DEF Rewriting, TruncateFile, WriteFile, AppendLine, MoveTo, Release, HostKeyTypeOK
    <3>2. QED
      BY <2>1, <3>1 DEF ReadFile, MoveTo, Release, HostKeyTypeOK
  <2>4. QED
    BY <2>2, <2>3
<1>6. QED
  BY <1>4, <1>5

LEMMA KeptStep ==
  ASSUME HostKeyTypeOK, HostKeyTypeOK', LockInv, AloneInv, AloneInv', KeptInv,
         OneKeyPerEndpoint, NEW c \in Conns, Verify(c)
  PROVE  KeptInv'
<1> USE HostKeyAssumption DEF HostKeyTypeOK, MoveTo, Release
<1>1. SUFFICES ASSUME NEW d \in Conns
               PROVE  /\ Rewriting(d)' =>
                           /\ \A line \in kept'[d] : line[1] # EndpointOf[d]
                           /\ \A line, other \in kept'[d] :
                                line[1] = other[1] /\ line[1] \notin harmed' =>
                                  line = other \/ {line, other} \subseteq InitialHosts
                      /\ stage'[d] = "truncate" =>
                           \A line \in kept'[d] :
                             line[1] \notin harmed' => line \in knownHosts'
                      /\ stage'[d] = "write" =>
                           \A line \in knownHosts' : line[1] \in harmed'
  BY DEF KeptInv
<1> DEFINE Goal == /\ Rewriting(d)' =>
                        /\ \A line \in kept'[d] : line[1] # EndpointOf[d]
                        /\ \A line, other \in kept'[d] :
                             line[1] = other[1] /\ line[1] \notin harmed' =>
                               line = other \/ {line, other} \subseteq InitialHosts
                   /\ stage'[d] = "truncate" =>
                        \A line \in kept'[d] :
                          line[1] \notin harmed' => line \in knownHosts'
                   /\ stage'[d] = "write" =>
                        \A line \in knownHosts' : line[1] \in harmed'
<1>2. harmed \subseteq harmed'
  BY OthersStay
<1>3. CASE d # c
  <2>1. stage'[d] = stage[d] /\ kept'[d] = kept[d]
    BY <1>3, OthersStay
  <2>2. CASE ~Rewriting(d)
    BY <2>1, <2>2 DEF Rewriting
  <2>3. CASE Rewriting(d) /\ (Rewriting(c) \/ Rewriting(c)')
    <3>1. harmed' = Endpoints
      BY <1>2, <1>3, <2>1, <2>3 DEF AloneInv, Rewriting
    <3>2. \A line \in kept'[d] \cup knownHosts' : line[1] \in harmed'
      BY <3>1
    <3>3. QED
      BY <2>1, <2>3, <3>2 DEF KeptInv, Rewriting
  <2>4. CASE Rewriting(d) /\ ~Rewriting(c) /\ ~Rewriting(c)'
    <3>1. CASE AppendLine(c)
      <4>1. knownHosts \subseteq knownHosts' /\ knownHosts' \subseteq knownHosts \cup {Line(c)}
        BY <3>1 DEF AppendLine
      <4>2. Line(c)[1] \in harmed'
        BY <1>3, <2>4, <3>1 DEF AppendLine, Overwritten, Line
      <4>3. QED
        BY <1>2, <2>1, <2>4, <4>1, <4>2 DEF KeptInv
    <3>2. CASE ~AppendLine(c)
      <4>1. knownHosts' = knownHosts
        BY <2>4, <3>2, FileSteps DEF Rewriting, WriteFile, TruncateFile
      <4>2. QED
        BY <1>2, <2>1, <2>4, <4>1 DEF KeptInv
    <3>3. QED
      BY <3>1, <3>2
  <2>5. QED
    BY <2>2, <2>3, <2>4
<1>4. CASE d = c
  <2>1. CASE ~Rewriting(c)'
    BY <1>4, <2>1 DEF Rewriting
  <2>2. CASE ReadFile(c) /\ stage'[c] = "truncate"
    <3>1. /\ kept'[c] \subseteq knownHosts /\ knownHosts' = knownHosts
          /\ \A line \in kept'[c] : line[1] # EndpointOf[c]
      BY <2>2 DEF ReadFile, Matches
    <3>2. QED
      BY <1>2, <1>4, <2>2, <3>1 DEF OneKeyPerEndpoint
  <2>3. CASE TruncateFile(c) /\ stage'[c] = "write"
    <3>1. Rewriting(c) /\ kept' = kept /\ knownHosts' = {}
      BY <2>3 DEF TruncateFile, Rewriting
    <3>2. QED
      BY <1>2, <1>4, <2>3, <3>1 DEF KeptInv
  <2>4. QED
    BY <2>1, <2>2, <2>3, FileSteps DEF Rewriting, AppendLine
<1>5. QED
  BY <1>3, <1>4

LEMMA OneKeyStep ==
  ASSUME HostKeyTypeOK, HostKeyTypeOK', LockInv, KeptInv, AskInv, OneKeyPerEndpoint,
         NEW c \in Conns, Verify(c)
  PROVE  OneKeyPerEndpoint'
<1> USE HostKeyAssumption DEF HostKeyTypeOK, MoveTo, Release
<1>1. harmed \subseteq harmed'
  BY OthersStay
<1>2. CASE knownHosts' \subseteq knownHosts
  BY <1>1, <1>2 DEF OneKeyPerEndpoint
<1>3. CASE WriteFile(c) /\ harmed' # Endpoints
  <2>1. Rewriting(c) /\ knownHosts' = kept[c]
    BY <1>3 DEF WriteFile, Rewriting
  <2>2. QED
    BY <1>1, <2>1 DEF KeptInv, OneKeyPerEndpoint
<1>4. CASE harmed' = Endpoints
  <2>1. \A line \in knownHosts' : line[1] \in harmed'
    BY <1>4
  <2>2. QED
    BY <2>1 DEF OneKeyPerEndpoint
<1>5. CASE AppendLine(c)
  <2>1. knownHosts' \subseteq knownHosts \cup {Line(c)} /\ stage[c] = "store"
    BY <1>5 DEF AppendLine
  <2>2. ASSUME NEW line \in knownHosts', NEW other \in knownHosts',
               line[1] = other[1], line[1] \notin harmed'
        PROVE  line = other \/ {line, other} \subseteq InitialHosts
    <3>1. ASSUME EndpointOf[c] \notin harmed, NEW old \in knownHosts
          PROVE  old[1] # EndpointOf[c]
      BY <2>1, <3>1 DEF AskInv, Knows, InFile
    <3>2. line[1] \notin harmed
      BY <1>1, <2>2
    <3>3. CASE line = Line(c)
      BY <2>1, <2>2, <3>1, <3>2, <3>3, LineIsOne
    <3>4. CASE other = Line(c)
      BY <2>1, <2>2, <3>1, <3>2, <3>4, LineIsOne
    <3>5. CASE line \in knownHosts /\ other \in knownHosts
      BY <2>2, <3>2, <3>5 DEF OneKeyPerEndpoint
    <3>6. QED
      BY <2>1, <3>3, <3>4, <3>5
  <2>3. QED
    BY <2>2 DEF OneKeyPerEndpoint
<1>6. QED
  BY <1>2, <1>3, <1>4, <1>5, FileSteps DEF ReadFile, TruncateFile

(* Only appending brings a line into the file or into a rewrite of it, but *)
(* for what a rewrite that is not alone does.                              *)
LEMMA InFileStep ==
  ASSUME HostKeyTypeOK, HostKeyTypeOK', LockInv, KeptInv, NEW c \in Conns, Verify(c),
         NEW line, InFile(line)', harmed' # Endpoints
  PROVE  InFile(line) \/ (AppendLine(c) /\ line = Line(c))
<1> USE HostKeyAssumption DEF HostKeyTypeOK, MoveTo, Release
<1>1. \A d \in Conns \ {c} : kept'[d] = kept[d] /\ (Rewriting(d)' <=> Rewriting(d))
  BY OthersStay DEF Rewriting
<1>2. CASE line \in knownHosts'
  <2>1. CASE WriteFile(c)
    <3>1. knownHosts' = kept[c] /\ Rewriting(c)
      BY <2>1, FileSteps DEF WriteFile, Rewriting
    <3>2. QED
      BY <1>2, <3>1 DEF InFile
  <2>2. CASE ~WriteFile(c)
    <3>1. line \in knownHosts \/ (AppendLine(c) /\ line = Line(c))
      BY <1>2, <2>2, FileSteps DEF ReadFile, TruncateFile, AppendLine
    <3>2. QED
      BY <3>1 DEF InFile
  <2>3. QED
    BY <2>1, <2>2
<1>3. CASE \E d \in Conns \ {c} : Rewriting(d)' /\ line \in kept'[d]
  BY <1>1, <1>3 DEF InFile
<1>4. CASE Rewriting(c)' /\ line \in kept'[c]
  <2>1. CASE ReadFile(c)
    BY <1>4, <2>1 DEF ReadFile, InFile, Rewriting
  <2>2. CASE ~ReadFile(c)
    <3>1. Rewriting(c) /\ kept'[c] = kept[c]
      BY <1>4, <2>2, FileSteps DEF TruncateFile, WriteFile, AppendLine, Rewriting
    <3>2. QED
      BY <1>4, <3>1 DEF InFile
  <2>3. QED
    BY <2>1, <2>2
<1>5. QED
  BY <1>2, <1>3, <1>4 DEF InFile

LEMMA AskStep ==
  ASSUME HostKeyTypeOK, HostKeyTypeOK', LockInv, AloneInv, AloneInv', KeptInv, AskInv,
         DecisionInv, NEW c \in Conns, Verify(c)
  PROVE  AskInv'
<1> USE HostKeyAssumption DEF HostKeyTypeOK, MoveTo, Release
<1>1. SUFFICES ASSUME NEW x \in Conns
               PROVE  /\ stage'[x] \in Asking => Line(x) \notin acceptedOnce'
                      /\ EndpointOf[x] \notin harmed' =>
                           \A line \in Endpoints \X Keys :
                             line[1] = EndpointOf[x] /\ InFile(line)' => Knows(x, line)'
  BY DEF AskInv, Line
<1>2. harmed \subseteq harmed'
  BY OthersStay
<1>3. ASSUME stage'[x] \in Asking PROVE Line(x) \notin acceptedOnce'
  <2>1. CASE x = c
    <3>1. CASE Recheck(c)
      BY <1>3, <2>1, <3>1 DEF Recheck, Asking, fileVars
    <3>2. CASE Register(c) \/ Receive(c) \/ AbortAsking(c) \/ GiveUp(c)
      <4>1. stage[c] \in Asking /\ acceptedOnce' = acceptedOnce
        BY <3>2 DEF Register, Receive, AbortAsking, GiveUp, Decide, Asking, fileVars
      <4>2. QED
        BY <2>1, <4>1 DEF AskInv
    <3>3. ASSUME ~Recheck(c), ~Register(c), ~Receive(c), ~AbortAsking(c), ~GiveUp(c)
          PROVE  FALSE
      <4>1. CASE Unregister(c)
        BY <1>3, <2>1, <4>1 DEF Unregister, Decisions, Asking
      <4>2. CASE FirstCheck(c) \/ Acquire(c) \/ Reject(c) \/ AcceptOnce(c)
        BY <1>3, <2>1, <4>2 DEF FirstCheck, Acquire, Reject, AcceptOnce, Asking
      <4>3. CASE ReadFile(c) \/ TruncateFile(c) \/ WriteFile(c) \/ AppendLine(c)
        BY <1>3, <2>1, <4>3 DEF ReadFile, TruncateFile, WriteFile, AppendLine, Asking
      <4>4. QED
        BY <3>3, <4>1, <4>2, <4>3 DEF Verify
    <3>4. QED
      BY <3>1, <3>2, <3>3
  <2>2. CASE x # c
    <3>1. stage[x] \in Asking /\ Line(x) \notin acceptedOnce
      BY <1>3, <2>2, OthersStay DEF AskInv
    <3>2. CASE ~AcceptOnce(c)
      <4>1. acceptedOnce' = acceptedOnce
        BY <3>2 DEF Verify, FirstCheck, Acquire, Recheck, Register, Receive, AbortAsking,
           GiveUp, Decide, Unregister, Reject, ReadFile, TruncateFile, WriteFile,
           AppendLine, fileVars
      <4>2. QED
        BY <3>1, <4>1
    <3>3. CASE AcceptOnce(c)
      <4>1. EndpointOf[x] # EndpointOf[c]
        BY <2>2, <3>1, <3>3, HoldersApart DEF AcceptOnce, Holding, Asking
      <4>2. QED
        BY <3>1, <3>3, <4>1 DEF AcceptOnce, OnceKey, Line
    <3>4. QED
      BY <3>2, <3>3
  <2>3. QED
    BY <2>1, <2>2
<1>4. ASSUME EndpointOf[x] \notin harmed', NEW line \in Endpoints \X Keys,
             line[1] = EndpointOf[x], InFile(line)'
      PROVE  Knows(x, line)'
  <2>1. harmed' # Endpoints /\ EndpointOf[x] \notin harmed
    BY <1>2, <1>4
  <2>2. InFile(line) \/ (AppendLine(c) /\ line = Line(c))
    BY <1>4, <2>1, InFileStep
  <2>3. CASE x # c
    <3>1. stage'[x] = stage[x] /\ kind'[x] = kind[x]
      BY <2>3, OthersStay
    <3>2. CASE InFile(line)
      BY <1>4, <2>1, <3>1, <3>2 DEF AskInv, Knows, Line
    <3>3. CASE AppendLine(c) /\ line = Line(c)
      <4>1. EndpointOf[c] = EndpointOf[x] /\ stage[c] \in Holding
        BY <1>4, <3>3, LineIsOne DEF AppendLine, Holding
      <4>2. stage[x] \notin Holding
        BY <2>3, <4>1, HoldersApart
      <4>3. QED
        BY <3>1, <4>2 DEF Knows, Holding, Asking
    <3>4. QED
      BY <2>2, <3>2, <3>3
  <2>4. CASE x = c
    <3>1. CASE Recheck(c)
      <4>1. knownHosts' = knownHosts /\ kept' = kept
        BY <3>1 DEF Recheck
      <4>2. \A d \in Conns \ {c} : stage[d] # "write"
        BY <1>4, <2>4, <3>1 DEF Recheck
      <4>3. InFile(line)
        BY <2>2, <3>1 DEF Recheck, AppendLine
      <4>4. line \in knownHosts
        BY <1>4, <2>1, <3>1, <4>2, <4>3 DEF InFile, KeptInv, Rewriting, Recheck
      <4>5. QED
        BY <1>4, <2>4, <3>1, <4>4, ZenonT(40) DEF Recheck, Knows, Known, Unknown, LinesOf, Asking, Line
    <3>2. CASE Register(c) \/ Receive(c) \/ AbortAsking(c) \/ GiveUp(c)
      <4>1. stage[c] \in Asking /\ kind' = kind /\ stage'[c] \in Asking /\ ~AppendLine(c)
        BY <3>2 DEF Register, Receive, AbortAsking, GiveUp, Decide, Asking, AppendLine
      <4>2. QED
        BY <1>4, <2>1, <2>2, <2>4, <4>1 DEF AskInv, Knows, Asking, Line
    <3>3. CASE Unregister(c)
      <4>1. stage[c] \in Asking /\ kind' = kind /\ InFile(line)
        BY <2>2, <3>3 DEF Unregister, Asking, AppendLine
      <4>2. kind[c] = "changed"
        BY <1>4, <2>1, <2>4, <4>1 DEF AskInv, Knows
      <4>3. QED
        BY <2>4, <3>3, <4>1, <4>2 DEF Unregister, Knows, Asking, Decisions
    <3>4. CASE WriteFile(c)
      <4>1. stage'[c] = "store" => knownHosts' = kept[c] /\ Rewriting(c)
        BY <3>4 DEF WriteFile, Rewriting
      <4>2. ASSUME stage'[c] = "store" PROVE FALSE
        <5>1. line \notin knownHosts'
          BY <1>4, <2>4, <4>1, <4>2 DEF KeptInv
        <5>2. PICK d \in Conns : Rewriting(d)' /\ line \in kept'[d]
          BY <1>4, <5>1 DEF InFile
        <5>3. d # c
          BY <4>2, <5>2 DEF Rewriting
        <5>4. Rewriting(d)
          BY <5>2, <5>3, OthersStay DEF Rewriting
        <5>5. harmed = Endpoints
          BY <4>1, <4>2, <5>3, <5>4 DEF AloneInv
        <5>6. QED
          BY <1>2, <2>1, <5>5
      <4>3. QED
        BY <2>4, <3>4, <4>2 DEF WriteFile, Knows, Asking
    <3>5. CASE FirstCheck(c) \/ Acquire(c) \/ Reject(c) \/ AcceptOnce(c)
                 \/ ReadFile(c) \/ TruncateFile(c) \/ AppendLine(c)
      <4>1. stage'[c] \notin Asking /\ stage'[c] # "store"
        BY <3>5 DEF FirstCheck, Acquire, Reject, AcceptOnce, ReadFile, TruncateFile,
           AppendLine, Asking
      <4>2. QED
        BY <2>4, <4>1 DEF Knows
    <3>6. QED
      BY <3>1, <3>2, <3>3, <3>4, <3>5 DEF Verify
  <2>5. QED
    BY <2>3, <2>4
<1>5. QED
  BY <1>3, <1>4

LEMMA StoredStep ==
  ASSUME HostKeyTypeOK, HostKeyTypeOK', LockInv, AloneInv, KeptInv, DecisionInv,
         StoredInv, NEW c \in Conns, Verify(c)
  PROVE  StoredInv'
<1> USE HostKeyAssumption DEF HostKeyTypeOK, MoveTo, Release
<1>1. SUFFICES ASSUME NEW x \in Conns, stage'[x] = "ok", decision'[x] = "store",
                      EndpointOf[x] \notin harmed'
               PROVE  Stays(x)'
  BY DEF StoredInv
<1>2. harmed' # Endpoints /\ harmed \subseteq harmed' /\ EndpointOf[x] \notin harmed
  BY <1>1, OthersStay
<1>3. ReplacedByOther(x) => ReplacedByOther(x)'
  <2>1. ASSUME NEW d \in Conns, decision[d] = "store", kind[d] = "changed"
        PROVE  decision'[d] = "store" /\ kind'[d] = "changed"
    <3>1. CASE d # c
      BY <2>1, <3>1, OthersStay
    <3>2. CASE d = c
      <4>1. stage[c] \notin {"recheck", "asking"}
        BY <2>1, <3>2 DEF DecisionInv
      <4>2. decision' = decision /\ kind' = kind
        BY <4>1 DEF Verify, FirstCheck, Acquire, Recheck, Register, Receive, AbortAsking,
           GiveUp, Decide, Unregister, Reject, AcceptOnce, ReadFile, TruncateFile,
           WriteFile, AppendLine
      <4>3. QED
        BY <2>1, <4>2
    <3>3. QED
      BY <3>1, <3>2
  <2>2. QED
    BY <2>1 DEF ReplacedByOther, Matches, Line
<1>4. CASE x = c
  <2>1. stage[c] = "store" /\ AppendLine(c)
    <3>1. CASE FirstCheck(c) \/ Recheck(c) \/ AcceptOnce(c)
      <4>1. decision[c] # "store" /\ decision' = decision
        BY <3>1 DEF FirstCheck, Recheck, AcceptOnce, DecisionInv
      <4>2. QED
        BY <1>1, <1>4, <4>1
    <3>2. CASE Acquire(c) \/ Register(c) \/ Receive(c) \/ AbortAsking(c) \/ GiveUp(c)
      BY <1>1, <1>4, <3>2 DEF Acquire, Register, Receive, AbortAsking, GiveUp, Decide
    <3>3. CASE Unregister(c) \/ Reject(c)
      BY <1>1, <1>4, <3>3 DEF Unregister, Reject, Decisions
    <3>4. CASE ReadFile(c) \/ TruncateFile(c) \/ WriteFile(c)
      BY <1>1, <1>4, <3>4 DEF ReadFile, TruncateFile, WriteFile
    <3>5. QED
      BY <3>1, <3>2, <3>3, <3>4 DEF Verify, AppendLine
  <2>2. Line(c) \in knownHosts'
    BY <1>1, <1>4, <2>1 DEF AppendLine
  <2>3. \A d \in Conns : stage'[d] # "truncate"
    <3>1. \A d \in Conns \ {c} : stage[d] # "truncate"
      BY <1>1, <1>4, <2>1 DEF AppendLine, Overwritten, Rewriting
    <3>2. QED
      BY <1>1, <1>4, <3>1, OthersStay
  <2>4. QED
    BY <1>4, <2>2, <2>3 DEF Stays, Line
<1>5. CASE x # c
  <2>1. Stays(x)
    BY <1>1, <1>2, <1>5, OthersStay DEF StoredInv
  <2>2. CASE ReplacedByOther(x)
    BY <1>3, <2>2 DEF Stays
  <2>3. CASE /\ Line(x) \in knownHosts
             /\ \A d \in Conns : stage[d] = "truncate" => Line(x) \in kept[d]
    <3>1. CASE \/ UNCHANGED <<knownHosts, kept>> /\ stage'[c] \notin {"truncate", "write"}
               \/ AppendLine(c)
      <4>1. Line(x) \in knownHosts' /\ stage'[c] # "truncate"
        BY <2>3, <3>1 DEF AppendLine
      <4>2. \A d \in Conns : stage'[d] = "truncate" => Line(x) \in kept'[d]
        BY <2>3, <4>1, OthersStay
      <4>3. QED
        BY <4>1, <4>2 DEF Stays, Line
    <3>2. CASE ReadFile(c) /\ stage'[c] = "truncate"
      <4>1. CASE Matches(c, Line(x))
        <5>1. decision[c] = "store" /\ kind[c] = "changed"
          BY <3>2 DEF ReadFile, DecisionInv, Storing
        <5>2. QED
          BY <1>3, <1>5, <4>1, <5>1 DEF ReplacedByOther, Stays
      <4>2. CASE ~Matches(c, Line(x))
        <5>1. Line(x) \in knownHosts' /\ Line(x) \in kept'[c]
          BY <2>3, <3>2, <4>2 DEF ReadFile
        <5>2. \A d \in Conns : stage'[d] = "truncate" => Line(x) \in kept'[d]
          BY <2>3, <5>1, OthersStay
        <5>3. QED
          BY <5>1, <5>2 DEF Stays, Line
      <4>3. QED
        BY <4>1, <4>2
    <3>3. CASE TruncateFile(c) /\ stage'[c] = "write"
      <4>1. Line(x) \in kept'[c]
        BY <2>3, <3>3 DEF TruncateFile
      <4>2. QED
        BY <3>3, <4>1 DEF Stays, Line
    <3>4. CASE TruncateFile(c) /\ stage'[c] = "failed" /\ knownHosts' = knownHosts
      <4>1. \A d \in Conns : stage'[d] = "truncate" => Line(x) \in kept'[d]
        BY <2>3, <3>4, OthersStay
      <4>2. QED
        BY <2>3, <3>4, <4>1 DEF Stays, Line
    <3>5. CASE WriteFile(c)
      <4>1. Line(x)[1] \in harmed
        BY <2>3, <3>5 DEF WriteFile, KeptInv
      <4>2. QED
        BY <1>2, <4>1, LineIsOne
    <3>6. QED
      BY <3>1, <3>2, <3>3, <3>4, <3>5, FileSteps
  <2>4. ASSUME NEW d \in Conns, stage[d] = "write", Line(x) \in kept[d]
        PROVE  Stays(x)'
    <3>1. CASE d = c
      <4>1. WriteFile(c) /\ knownHosts' = kept[c] /\ stage'[c] = "store"
        BY <1>2, <2>4, <3>1, FileSteps DEF Rewriting, ReadFile, TruncateFile, AppendLine
      <4>2. \A y \in Conns : stage'[y] # "truncate"
        <5>1. ASSUME NEW y \in Conns \ {c}, stage[y] = "truncate" PROVE FALSE
          BY <1>2, <2>4, <3>1, <5>1 DEF AloneInv, Rewriting
        <5>2. QED
          BY <4>1, <5>1, OthersStay
      <4>3. QED
        BY <2>4, <3>1, <4>1, <4>2 DEF Stays, Line
    <3>2. CASE d # c
      <4>1. stage'[d] = "write" /\ Line(x) \in kept'[d]
        BY <2>4, <3>2, OthersStay
      <4>2. QED
        BY <4>1 DEF Stays, Line
    <3>3. QED
      BY <3>1, <3>2
  <2>5. QED
    BY <2>1, <2>2, <2>3, <2>4 DEF Stays
<1>6. QED
  BY <1>4, <1>5

(* What the window does leaves the file and its rewrites alone.            *)
LEMMA WindowKeeps ==
  ASSUME FileInv, UNCHANGED <<fileVars, stage, kind, decision, kept>>
  PROVE  FileInv'
<1> USE DEF FileInv, fileVars
<1>1. DecisionInv' /\ AloneInv' /\ KeptInv'
  BY DEF DecisionInv, AloneInv, KeptInv, Rewriting
<1>2. AskInv'
  BY DEF AskInv, InFile, Knows, Rewriting, Line
<1>3. OneKeyPerEndpoint' /\ StoredInv'
  BY DEF OneKeyPerEndpoint, StoredInv, Stays, ReplacedByOther, Matches, Line
<1>4. QED
  BY <1>1, <1>2, <1>3

LEMMA FileStep ==
  HostKeyTypeOK /\ LockInv /\ FileInv /\ [HostKeyNext]_hostKeyVars => FileInv'
<1> SUFFICES ASSUME HostKeyTypeOK, LockInv, FileInv, [HostKeyNext]_hostKeyVars
             PROVE  FileInv'
  OBVIOUS
<1>1. HostKeyTypeOK'
  BY HostKeyTypeStep
<1>2. ASSUME NEW c \in Conns, Verify(c) PROVE FileInv'
  <2>1. AloneInv' /\ DecisionInv'
    BY <1>1, <1>2, AloneStep, DecisionInvStep DEF FileInv
  <2>2. KeptInv' /\ AskInv' /\ OneKeyPerEndpoint' /\ StoredInv'
    BY <1>1, <1>2, <2>1, KeptStep, AskStep, OneKeyStep, StoredStep DEF FileInv
  <2>3. QED
    BY <2>1, <2>2 DEF FileInv
<1>3. ASSUME Window \/ UNCHANGED hostKeyVars PROVE FileInv'
  <2>1. UNCHANGED <<fileVars, stage, kind, decision, kept>>
    BY <1>3 DEF Window, Answer, Resolve, RequestStop, hostKeyVars
  <2>2. QED
    BY <2>1, WindowKeeps
<1>4. QED
  BY <1>2, <1>3 DEF HostKeyNext

LEMMA FileInvHolds == HostKeySpec => [](HostKeyTypeOK /\ LockInv /\ FileInv)
<1>1. HostKeyInit => HostKeyTypeOK /\ LockInv /\ FileInv
  BY InitLock, InitFile
<1>2. /\ HostKeyTypeOK /\ LockInv /\ FileInv
      /\ [HostKeyNext]_hostKeyVars
      => (HostKeyTypeOK /\ LockInv /\ FileInv)'
  BY HostKeyTypeStep, LockStep, FileStep
<1>3. QED
  BY <1>1, <1>2, PTL DEF HostKeySpec

(* Questions are put one at a time for an endpoint and only about keys not *)
(* yet decided: who waited for the lock looks at the file again.  For any  *)
(* connections, endpoints and keys; of the keys in the file this is said   *)
(* while no rewrite for another endpoint or failure has harmed the one     *)
(* asked about.                                                            *)
THEOREM OnlyDueQuestions == HostKeySpec => []QuestionsAreDue
<1>1. HostKeyTypeOK /\ LockInv /\ FileInv => QuestionsAreDue
  <2> SUFFICES ASSUME HostKeyTypeOK, LockInv, FileInv PROVE QuestionsAreDue
    OBVIOUS
  <2>1. OnePromptPerEndpoint /\ NoLeakedRequest
    BY DEF LockInv, Holding, Asking, OnePromptPerEndpoint
  <2>2. AskedOnlyWhenNeeded
    <3>1. ASSUME NEW c \in Conns, stage[c] \in Asking, EndpointOf[c] \notin harmed,
                 Line(c) \in knownHosts
          PROVE  FALSE
      BY <3>1, LineIsOne DEF FileInv, AskInv, InFile, Knows
    <3>2. QED
      BY <3>1 DEF AskedOnlyWhenNeeded, FileInv, AskInv
  <2>3. QED
    BY <2>1, <2>2 DEF QuestionsAreDue
<1>2. QED
  BY <1>1, FileInvHolds, PTL

(* The file gets one key of an endpoint and keeps every stored key until   *)
(* another replaces it, whatever the rewrites for other endpoints, their   *)
(* overlaps and their failures do: what they can cost is confined to the   *)
(* endpoints they met, which harmed records.  For any connections,         *)
(* endpoints, keys and initial file.                                       *)
THEOREM StoredKeysAreKept == HostKeySpec => []KnownHostsHold
<1>1. FileInv => KnownHostsHold
  BY DEF FileInv, StoredInv, Stays, AllQuiet, KnownHostsHold
<1>2. QED
  BY <1>1, FileInvHolds, PTL

=============================================================================
