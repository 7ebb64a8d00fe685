--------------------------- MODULE TerminalScreen ---------------------------
(***************************************************************************)
(* The terminal of the active tab on the screen                            *)
(* (src/components/workspace/TerminalSurface.tsx, Workspace.tsx).          *)
(*                                                                         *)
(* The store keeps the output of every tab as a list of chunks; only the   *)
(* active tab has a terminal.  Leaving a tab disposes of its terminal,     *)
(* coming back writes the list into a new one, and a command of the menu   *)
(* stays the window's last request.  A change of the store or of the       *)
(* request is rendered at once, and each rendering runs the effects of     *)
(* TerminalSurface in their order.                                         *)
(***************************************************************************)
EXTENDS Naturals, Sequences, FiniteSets, SequencesExt

CONSTANTS
  Tabs,       \* the terminal tabs
  MaxChunks,  \* bounds the chunks of a tab
  MaxActs     \* bounds the steps of the user and of the sessions

Home      == "home"    \* a tab that is no terminal
Notice    == 0         \* STOP_NOTICE on a screen; chunks are numbered from 1
Commands  == {"search", "clear", "reset"}
NoRequest == [action |-> "none", nonce |-> 0, tab |-> Home, obeyed |-> FALSE]

ASSUME ScreenAssumption ==
  /\ IsFiniteSet(Tabs) /\ Home \notin Tabs /\ MaxChunks \in Nat \ {0} /\ MaxActs \in Nat

VARIABLES
  row,        \* tabs: the open ones in order
  shown,      \* activeTabId
  feed,       \* terminalFeeds
  stopped,    \* terminalStoppedByTabId
  looks,      \* font and colours of the session of each tab
  request,    \* terminalCommandRequest
  term,       \* the terminal mounted, its refs and what it shows
  pastes,     \* reads of the clipboard under way
  restarts,   \* tabs whose restart waits for the stop of the old run
  acts,       \* counter
  cleared,    \* history: the chunks each tab had when a request cleared it
  pasted      \* history: the pastes delivered

store      == <<row, shown, feed, stopped, looks>>
screenVars == <<store, request, term, pastes, restarts, acts, cleared, pasted>>

Open == ToSet(row)

Acts == acts < MaxActs /\ acts' = acts + 1

Last0(s) == IF s = <<>> THEN 0 ELSE Last(s)

(* SelectSeq with a set of elements to keep, as a recursive function.      *)
Only(seq, S) ==
  LET sub[i \in 0 .. Len(seq)] ==
        IF i = 0 THEN <<>>
        ELSE IF seq[i] \in S THEN Append(sub[i - 1], seq[i]) ELSE sub[i - 1]
  IN sub[Len(seq)]

---------------------------------------------------------------------------
(* The effects.  A terminal that has just been created shows nothing.      *)

Blank(t, ls, done) ==
  [tab |-> t, look |-> ls, seen |-> <<>>, screen |-> <<>>, written |-> 0,
   ends |-> FALSE, noticed |-> FALSE, done |-> done, find |-> FALSE,
   kept |-> FALSE, again |-> FALSE]

NoTerm == Blank(Home, 0, 0)

(* A new tab mounts a new terminal with new refs; a new font or colour     *)
(* replaces the terminal and keeps what the component remembers.           *)
CreateTerminal(v, t, ls) ==
  IF v.tab # t THEN Blank(t, ls, 0)
  ELSE IF v.look = ls THEN v
  ELSE [Blank(t, ls, v.done) EXCEPT !.find = v.find, !.seen = v.seen]

(* What has not been written yet is written; a list shorter than what was  *)
(* written starts the terminal again.  `kept` remembers that a list was    *)
(* replaced by one that was not shorter.                                   *)
WriteChunks(v, chunks, stop) ==
  IF v.seen = <<chunks, stop>> THEN v ELSE
  LET shorter == Len(chunks) < v.written
      old     == IF shorter THEN <<>> ELSE v.screen
      before  == IF shorter THEN 0 ELSE v.written
      noticed == ~shorter /\ v.noticed
      text    == old \o SubSeq(chunks, before + 1, Len(chunks))
  IN [v EXCEPT
        !.screen  = IF stop /\ ~noticed THEN Append(text, Notice) ELSE text,
        !.written = Len(chunks), !.ends = stop, !.noticed = stop,
        !.kept    = IF shorter THEN FALSE
                    ELSE v.kept \/ (before > 0 /\ ~IsPrefix(v.seen[1], chunks)),
        !.seen    = <<chunks, stop>>]

(* Mutant of Meant: a terminal obeys the request of any tab.               *)
MeantForAny(v, r) == r.nonce # v.done

(* Workspace passes a request to the tab it names, and a terminal obeys it *)
(* once.                                                                   *)
Meant(v, r) == r.tab = v.tab /\ r.nonce # v.done

(* Search opens the bar; clear and reset empty the terminal, take all that *)
(* there is for written and write the notice of a stopped tab again.       *)
Obey(v, r) ==
  IF ~Meant(v, r) THEN v
  ELSE IF r.action = "search" THEN [v EXCEPT !.done = r.nonce, !.find = TRUE]
  ELSE [v EXCEPT
          !.done    = r.nonce,
          !.screen  = IF v.ends THEN <<Notice>> ELSE <<>>,
          !.noticed = v.ends,
          !.kept    = FALSE,
          !.again   = r.obeyed /\ r.tab = v.tab]

(* Each step that changes the store or the request ends with a rendering.  *)
(* `obeyed` tells a first obedience from those of later terminals.         *)
Rendered(t, chunks, stop, ls, r) ==
  IF t \notin Tabs THEN NoTerm
  ELSE Obey(WriteChunks(CreateTerminal(term, t, ls), chunks, stop), r)

Told(r) == IF r.action = "none" THEN r ELSE [r EXCEPT !.obeyed = TRUE]

Render ==
  LET t == shown'
      v == Rendered(t, IF t \in Tabs THEN feed'[t] ELSE <<>>,
                    t \in Tabs /\ stopped'[t], IF t \in Tabs THEN looks'[t] ELSE 0, request)
  IN /\ term' = v
     /\ request' = IF request.tab = t THEN Told(request) ELSE request
     /\ pastes' = IF term.tab = t THEN pastes
                  ELSE {IF p.left THEN p ELSE [p EXCEPT !.left = TRUE, !.ends = term.ends] : p \in pastes}

---------------------------------------------------------------------------
(* The sessions.                                                           *)

Fed(t, stop) ==
  /\ Last0(feed[t]) < MaxChunks
  /\ feed' = [feed EXCEPT ![t] = Append(@, Last0(@) + 1)]
  /\ stopped' = [stopped EXCEPT ![t] = stop]

(* Output and exit arrive for any tab, shown or not; a line of the window  *)
(* itself, an error or a macro, leaves the tab as it is.                   *)
Output(t, stop) ==
  /\ t \in Open /\ Acts /\ Fed(t, stop)
  /\ UNCHANGED <<row, shown, looks, restarts, cleared, pasted>>
  /\ Render

(* Saving a session replaces the output of its tabs by one chunk and may   *)
(* change the font.                                                        *)
EditSession(t, ls) ==
  /\ t \in Open /\ Acts /\ Last0(feed[t]) < MaxChunks
  /\ feed' = [feed EXCEPT ![t] = <<Last0(@) + 1>>]
  /\ looks' = [looks EXCEPT ![t] = ls]
  /\ cleared' = [cleared EXCEPT ![t] = 0]
  /\ UNCHANGED <<row, shown, stopped, restarts, pasted>>
  /\ Render

(* The restarted run is seeded once the old one has been stopped; its tab  *)
(* becomes the active one.                                                 *)
RestartSeeds(t) ==
  /\ t \in restarts /\ restarts' = restarts \ {t}
  /\ UNCHANGED <<row, looks, acts, cleared, pasted>>
  /\ IF t \in Open THEN Fed(t, FALSE) /\ shown' = t /\ Render
     ELSE UNCHANGED <<feed, stopped, shown, request, term, pastes>>

---------------------------------------------------------------------------
(* The user.                                                               *)

SelectTab(t) ==
  /\ t \in Open \cup {Home} /\ t # shown /\ Acts
  /\ shown' = t
  /\ UNCHANGED <<row, feed, stopped, looks, restarts, cleared, pasted>>
  /\ Render

(* The last of the remaining tabs, or the welcome tab, is shown next.      *)
CloseTab(t) ==
  /\ t \in Open
  /\ row' = Only(row, Tabs \ {t})
  /\ shown' = IF shown # t THEN shown ELSE IF row' = <<>> THEN Home ELSE Last(row')
  /\ feed' = [feed EXCEPT ![t] = <<>>] /\ stopped' = [stopped EXCEPT ![t] = FALSE]
  /\ UNCHANGED <<looks, cleared, pasted>>
  /\ Render

(* The keys of a stopped terminal: Return closes the tab, R starts the     *)
(* session again.  Other keys go to the session (WorkspaceTabs.SendInput). *)
EnterKey ==
  /\ term.tab # Home /\ term.ends /\ Acts
  /\ CloseTab(term.tab) /\ UNCHANGED restarts

RestartKey ==
  /\ term.tab # Home /\ term.ends /\ Acts
  /\ restarts' = restarts \cup {term.tab}
  /\ UNCHANGED <<store, request, term, pastes, cleared, pasted>>

(* A paste reads the clipboard unless the terminal has stopped.            *)
PasteKey ==
  /\ term.tab # Home /\ ~term.ends /\ pastes = {} /\ Acts
  /\ pastes' = {[tab |-> term.tab, left |-> FALSE, ends |-> FALSE]}
  /\ UNCHANGED <<store, request, term, restarts, cleared, pasted>>

(* The handler of the terminal the paste was made in.                      *)
PasteTarget(p) == p.tab

(* The text arrives: the terminal it was asked in looks again whether it   *)
(* has stopped, which it no longer learns once it is gone.                 *)
PasteArrives ==
  \E p \in pastes :
    /\ pastes' = pastes \ {p}
    /\ LET ends == IF p.left THEN p.ends ELSE term.ends
           to   == PasteTarget(p)
       IN pasted' = IF ends \/ to \notin Open THEN pasted
                    ELSE pasted \cup {[from |-> p.tab, to |-> to, left |-> p.left,
                                       dead |-> stopped[to]]}
    /\ UNCHANGED <<store, request, term, restarts, acts, cleared>>

(* handleMenuAction: the three commands that need a terminal.              *)
TerminalCommand(c) ==
  /\ shown \in Tabs /\ Acts
  /\ LET r == [action |-> c, nonce |-> request.nonce + 1, tab |-> shown, obeyed |-> FALSE]
     IN /\ request' = Told(r)
        /\ term' = Obey(term, r)
  /\ cleared' = IF c = "search" THEN cleared
                ELSE [cleared EXCEPT ![shown] = Last0(feed[shown])]
  /\ UNCHANGED <<store, pastes, restarts, pasted>>

ScreenInit ==
  /\ row = SetToSeq(Tabs) /\ shown \in Tabs
  /\ feed = [t \in Tabs |-> <<1>>] /\ stopped = [t \in Tabs |-> FALSE]
  /\ looks = [t \in Tabs |-> 1]
  /\ request = NoRequest
  /\ term = WriteChunks(Blank(shown, 1, 0), <<1>>, FALSE)
  /\ pastes = {} /\ restarts = {} /\ acts = 0
  /\ cleared = [t \in Tabs |-> 0] /\ pasted = {}

ScreenNext ==
  \/ \E t \in Tabs : \E stop \in {TRUE, FALSE} : Output(t, stop)
  \/ \E t \in Tabs, ls \in {1, 2} : EditSession(t, ls)
  \/ \E t \in Tabs : RestartSeeds(t)
  \/ \E t \in Tabs \cup {Home} : SelectTab(t)
  \/ EnterKey \/ RestartKey \/ PasteKey \/ PasteArrives
  \/ \E t \in Tabs : CloseTab(t) /\ Acts /\ UNCHANGED restarts
  \/ \E c \in Commands : TerminalCommand(c)
---------------------------------------------------------------------------
Chunks(screen) == Only(screen, Nat \ {Notice})

After(text, n) == Only(text, {c \in Nat : c > n})

(* The terminal shows what its tab has printed: each chunk once, in order, *)
(* all of it or all that came since it was cleared, whatever happened to   *)
(* the list while the tab was away.  Two cases are left out: a terminal    *)
(* that came back and obeyed an old request again, and one whose list was  *)
(* replaced by a list as long.                                             *)
ScreenComplete ==
  term.tab # Home /\ ~term.again /\ ~term.kept =>
    LET text == feed[term.tab] IN
    \/ Chunks(term.screen) = text
    \/ Chunks(term.screen) = After(text, cleared[term.tab])

(* Return and R are commands exactly while the tab shown has stopped, and  *)
(* then the notice that says so is on the screen.                          *)
StopIsShown ==
  term.tab # Home =>
    /\ term.ends = stopped[term.tab]
    /\ term.ends => Contains(term.screen, Notice)

(* A text pasted in a terminal goes to the session of that terminal, and   *)
(* to a stopped one only if the user had left its tab.                     *)
PasteStaysHome ==
  \A p \in pasted : p.to = p.from /\ (p.dead => p.left)

(* The terminal on the screen is that of its tab: what it shows, whether   *)
(* it has ended, and where a paste goes.                                   *)
TerminalIsOfTab == ScreenComplete /\ StopIsShown /\ PasteStaysHome
=============================================================================
