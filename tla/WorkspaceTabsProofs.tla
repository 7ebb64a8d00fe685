------------------------- MODULE WorkspaceTabsProofs -------------------------
(***************************************************************************)
(* Proofs about the tabs of the window and the local, Telnet and serial    *)
(* runs behind them, for any number of tabs, sessions, actions under way   *)
(* and runs: the type invariant, that no session runs on without a tab,    *)
(* that every run has the life TerminalLifecycle promises, and that an     *)
(* ended Telnet session is shown as stopped.                               *)
(***************************************************************************)
EXTENDS WorkspaceTabs, FiniteSetTheorems, SequenceTheorems, WellFoundedInduction, TLAPS

TabsOrNone == Tabs \cup {"none"}
AnyKind    == Kinds \cup {"none"}
AnyLive    == Live \cup {"none"}
OpSet ==
  [what : {"start", "remove", "folder", "edit", "input"},
   at : {"stop", "paint", "start", "delete", "save", "send"},
   answer : {"none", "ok", "error"}, tab : TabsOrNone, session : Sessions \cup {"none"},
   kind : AnyKind, todo : Seq(Tabs)]
CmdSet ==
  [cmd : {"start", "stop", "disk", "input"}, tab : TabsOrNone, kind : AnyKind, op : Slots \cup {0}]
RunSet ==
  [tab : TabsOrNone, kind : Live \cup {"none"}, flag : BOOLEAN, end : {"none", "owed", "told"},
   threads : SUBSET {"connector", "reader", "watcher", "finalizer"}, said : BOOLEAN]

TypeInv ==
  /\ sessions \in [Sessions -> Kinds \cup {Gone}]
  /\ row \in Seq(Tabs) /\ IsInjective(row)
  /\ info \in [Tabs -> [session : Sessions, kind : Kinds] \cup {NoTab}]
  /\ \A t \in Open : info[t] # NoTab
  /\ ops \in [Slots -> {Idle} \cup OpSet]
  /\ commands \in Seq(CmdSet)
  /\ main \in {0} \cup Runs /\ registry \in [Tabs -> {0} \cup Runs] /\ runs \in [Runs -> RunSet]

(* A run that is not told to stop has a thread; a run that is over raised  *)
(* its flag; the registry and the start under way are of launched runs.    *)
RunsInv ==
  /\ \A r \in Runs : runs[r].kind = "none" => runs[r] = NoRun
  /\ \A r \in Launched : /\ runs[r].tab \in Tabs
                         /\ runs[r].end # "none" \/ "finalizer" \in runs[r].threads => runs[r].flag
                         /\ ~ runs[r].flag => runs[r].threads # {}
  /\ \A t \in Tabs : registry[t] # 0 => registry[t] \in Launched /\ runs[registry[t]].tab = t
  /\ main # 0 => /\ main \in Launched /\ commands # <<>>
                 /\ commands[1].cmd = "start" /\ commands[1].tab = runs[main].tab
                 /\ registry[runs[main].tab] = 0

(* What waits for the answer of each command.                              *)
WaitsFor(c, op) ==
  CASE c.cmd = "start" -> op.what = "start" /\ op.at = "start" /\ op.tab = c.tab
    [] c.cmd = "stop"  -> op.at = "stop" /\ op.what \in {"start", "remove"}
    [] c.cmd = "disk"  -> <<op.what, op.at>> \in {<<"remove", "delete">>, <<"folder", "delete">>, <<"edit", "save">>}
    [] c.cmd = "input" -> op.what = "input" /\ op.at = "send"

CommandsInv ==
  /\ \A i \in 1 .. Len(commands) :
       /\ commands[i].cmd = "start" => commands[i].kind \in AnyLive
       /\ commands[i].cmd # "disk" => commands[i].tab \in Tabs
       /\ commands[i].op = 0 => commands[i].cmd = "stop"
       /\ commands[i].op # 0 => /\ ops[commands[i].op] # Idle
                                /\ ops[commands[i].op].answer = "none"
                                /\ WaitsFor(commands[i], ops[commands[i].op])
  /\ \A i, j \in 1 .. Len(commands) : commands[i].op = commands[j].op /\ commands[i].op # 0 => i = j

Terminal(t) == t \in Open /\ IsTerminal(t)
Starting(t) == \E o \in Slots : ops[o] # Idle /\ ops[o].what = "start" /\ ops[o].tab = t
RunsIn(t)   == \E r \in Launched : ~ runs[r].flag /\ runs[r].tab = t
StopDue(t)  == \E i \in 1 .. Len(commands) : commands[i].cmd = "stop" /\ commands[i].tab = t

OpsInv ==
  \A o \in Slots : ops[o] # Idle =>
    /\ ops[o].what = "start"  => ops[o].tab \in Tabs /\ ops[o].kind \in Live
    /\ ops[o].what \in {"remove", "folder"} => ops[o].session \in Sessions
    /\ ops[o].what = "edit"   => ops[o].session \in Sessions /\ ops[o].kind \in EditKinds
    /\ ops[o].what = "input"  => ops[o].tab \in Tabs

(* At most one run of a tab is still busy, and what is not stopped is      *)
(* registered.                                                             *)
SoloInv ==
  \A q, r \in Launched :
    /\ runs[q].tab = runs[r].tab /\ runs[q].threads # {} /\ runs[r].threads # {} =>
         q = r \/ runs[r].tab \in hasty
    /\ ~ runs[r].flag => runs[r].tab \in hasty \/ registry[runs[r].tab] = r \/ main = r

(* What starts or runs belongs to a terminal, or its stop is on the way.   *)
TabInv ==
  \A t \in Tabs \ hasty :
    /\ Starting(t) => Terminal(t)
    /\ RunsIn(t) => Terminal(t) \/ (t \notin Open /\ StopDue(t))

(* An id that was not used yet has no past.                                *)
NewInv == \A t \in Tabs : info[t] = NoTab => ~ Starting(t) /\ ~ RunsIn(t)

(* A removal reaches all that runs in the tabs it will take away.          *)
RemovalInv ==
  \A o \in Slots : ops[o] # Idle /\ ops[o].what = "remove" =>
    \A t \in Open \ hasty : info[t].session = ops[o].session =>
      /\ ~ Starting(t)
      /\ RunsIn(t) => /\ ops[o].at = "stop"
                      /\ \/ t \in ToSet(ops[o].todo)
                         \/ \E i \in 1 .. Len(commands) : commands[i] = StopOf(t, o)

(* Starts that have not launched their run, and have not been refused.     *)
Coming ==
  {o \in Slots : /\ ops[o] # Idle /\ ops[o].what = "start"
                 /\ ops[o].at = "start" =>
                      ops[o].answer = "none" /\ ~ (main # 0 /\ commands[1].op = o)}

CountInv == Cardinality(Launched) + Cardinality(Coming) <= MaxRuns

IInv ==
  /\ TypeInv /\ RunsInv /\ CommandsInv /\ OpsInv /\ SoloInv /\ TabInv /\ NewInv /\ RemovalInv
  /\ ActiveIsOpen /\ CountInv

-----------------------------------------------------------------------------
(* Sequences.                                                              *)

(* A set of numbers has a least one: what induction rests on below.        *)
LEMMA Least ==
  ASSUME NEW B, B \subseteq Nat, B # {}
  PROVE  \E m \in B : \A k \in B : ~ (k < m)
  <1>1. IsWellFoundedOn(OpToRel(<, Nat), Nat)
    BY NatLessThanWellFounded
  <1>2. PICK m \in B : \A k \in B : ~ (<<k, m>> \in OpToRel(<, Nat))
    BY <1>1, WFMin
  <1>3. \A k \in B : k < m => <<k, m>> \in OpToRel(<, Nat)
    BY DEF OpToRel
  <1> QED BY <1>2, <1>3

(* An element that is new is added at the end.                             *)
LEMMA AppendNew ==
  ASSUME NEW T, NEW p \in Seq(T), IsInjective(p), NEW e \in T, e \notin ToSet(p),
         NEW q, q = Append(p, e)
  PROVE  q \in Seq(T) /\ IsInjective(q) /\ \A x : x \in ToSet(q) <=> x \in ToSet(p) \/ x = e
  <1>1. /\ q \in Seq(T) /\ Len(q) = Len(p) + 1 /\ Len(p) \in Nat
        /\ \A i \in 1 .. Len(p) : q[i] = p[i]
        /\ q[Len(p) + 1] = e
    BY AppendProperties, LenProperties
  <1>2. DOMAIN p = 1 .. Len(p) /\ DOMAIN q = 1 .. Len(p) + 1
    BY <1>1, LenProperties
  <1>3. \A i \in 1 .. Len(p) + 1 : (i \in 1 .. Len(p) /\ q[i] = p[i]) \/ (i = Len(p) + 1 /\ q[i] = e)
    BY <1>1
  <1>4. \A i \in 1 .. Len(p) : p[i] # e
    BY <1>2 DEF ToSet
  <1>5. \A i, j \in 1 .. Len(p) : p[i] = p[j] => i = j
    BY <1>2 DEF IsInjective
  <1>6. \A i, j \in 1 .. Len(p) + 1 : q[i] = q[j] => i = j
    BY <1>3, <1>4, <1>5
  <1>7. IsInjective(q)
    BY <1>2, <1>6 DEF IsInjective
  <1>8. 1 .. Len(p) \subseteq 1 .. Len(p) + 1 /\ Len(p) + 1 \in 1 .. Len(p) + 1
    BY <1>1
  <1>9. \A x : x \in ToSet(q) <=> x \in ToSet(p) \/ x = e
    BY <1>1, <1>2, <1>3, <1>8 DEF ToSet
  <1> QED BY <1>1, <1>7, <1>9

(* Only keeps the elements of the set, and no element twice.               *)
LEMMA OnlyFacts ==
  ASSUME NEW T, NEW seq \in Seq(T), NEW S, IsInjective(seq)
  PROVE  /\ Only(seq, S) \in Seq(T) /\ IsInjective(Only(seq, S))
         /\ \A x : x \in ToSet(Only(seq, S)) <=> x \in ToSet(seq) /\ x \in S
  <1> DEFINE KeptStep(f, i) == IF i = 0 THEN <<>>
                               ELSE IF seq[i] \in S THEN Append(f[i - 1], seq[i]) ELSE f[i - 1]
             IsKept(f, n) == f = [i \in 0 .. n |-> KeptStep(f, i)]
  <1>1. Len(seq) \in Nat /\ DOMAIN seq = 1 .. Len(seq) /\ \A i \in 1 .. Len(seq) : seq[i] \in T
    BY LenProperties
  <1>2. \A n \in Nat : \E f : IsKept(f, n)
    <2> DEFINE B == {n \in Nat : ~ \E f : IsKept(f, n)}
    <2> SUFFICES ASSUME B # {} PROVE FALSE
      OBVIOUS
    <2>1. PICK n \in B : \A k \in B : ~ (k < n)
      BY Least
    <2>2. CASE n = 0
      <3>1. PICK f : f = [i \in 0 .. 0 |-> <<>>]
        OBVIOUS
      <3>2. f = [i \in 0 .. 0 |-> KeptStep(f, i)]
        BY <3>1
      <3> QED BY <2>1, <2>2, <3>2
    <2>3. CASE n # 0
      <3>1. n - 1 \in Nat /\ n - 1 < n /\ n \in Nat
        BY <2>1, <2>3
      <3>2. PICK f : IsKept(f, n - 1)
        BY <2>1, <3>1
      <3>3. PICK g : g = [i \in 0 .. n |-> IF i = n THEN KeptStep(f, n) ELSE f[i]]
        OBVIOUS
      <3>4. \A i \in 0 .. n - 1 : f[i] = KeptStep(f, i)
        BY <3>2
      <3>5. \A i \in 0 .. n - 1 : g[i] = f[i]
        BY <3>1, <3>3
      <3>6. ASSUME NEW i \in 0 .. n PROVE g[i] = KeptStep(g, i)
        <4>1. CASE i = n
          <5>1. g[n] = KeptStep(f, n)
            BY <3>1, <3>3
          <5>2. g[n - 1] = f[n - 1]
            BY <3>1, <3>5
          <5> QED BY <4>1, <5>1, <5>2
        <4>2. CASE i # n /\ i # 0
          <5>1. i \in 0 .. n - 1 /\ i - 1 \in 0 .. n - 1
            BY <3>1, <4>2
          <5>2. g[i] = KeptStep(f, i) /\ g[i - 1] = f[i - 1]
            BY <3>4, <3>5, <5>1
          <5> QED BY <5>2
        <4>3. CASE i # n /\ i = 0
          <5>1. i \in 0 .. n - 1
            BY <3>1, <4>3
          <5>2. g[i] = KeptStep(f, i)
            BY <3>4, <3>5, <5>1
          <5> QED BY <4>3, <5>2
        <4> QED BY <4>1, <4>2, <4>3
      <3>7. DOMAIN g = 0 .. n /\ g = [i \in 0 .. n |-> g[i]]
        BY <3>3
      <3>8. g = [i \in 0 .. n |-> KeptStep(g, i)]
        BY <3>6, <3>7
      <3> QED BY <2>1, <3>8
    <2> QED BY <2>2, <2>3
  <1>3. PICK f : /\ f = [i \in 0 .. Len(seq) |-> KeptStep(f, i)]
                 /\ Only(seq, S) = f[Len(seq)]
    <2>1. \E f : IsKept(f, Len(seq))
      BY <1>1, <1>2
    <2> DEFINE c == CHOOSE f : IsKept(f, Len(seq))
    <2>2. IsKept(c, Len(seq))
      BY <2>1
    <2>3. Only(seq, S) = c[Len(seq)]
      BY DEF Only
    <2> QED BY <2>2, <2>3
  <1> HIDE DEF KeptStep
  <1> DEFINE Good(n) == /\ f[n] \in Seq(T) /\ IsInjective(f[n])
                        /\ \A x : x \in ToSet(f[n]) <=> x \in S /\ \E i \in 1 .. n : seq[i] = x
  <1>4. \A n \in 0 .. Len(seq) : Good(n)
    <2> DEFINE B == {n \in 0 .. Len(seq) : ~ Good(n)}
    <2> SUFFICES ASSUME B # {} PROVE FALSE
      OBVIOUS
    <2>7. B \subseteq Nat
      BY <1>1
    <2>8. \E n \in B : \A k \in B : ~ (k < n)
      <3> HIDE DEF B
      <3> QED BY <2>7, Least
    <2>1. PICK n \in B : \A k \in B : ~ (k < n)
      BY <2>8
    <2>3. n \in 0 .. Len(seq) /\ n \in Nat
      BY <1>1, <2>1
    <2>2. n # 0 => Good(n - 1)
      <3> SUFFICES ASSUME n # 0 PROVE Good(n - 1)
        OBVIOUS
      <3>1. n - 1 \in 0 .. Len(seq) /\ n - 1 < n
        BY <1>1, <2>3
      <3>2. n - 1 \notin B
        BY <2>1, <3>1
      <3> HIDE DEF Good
      <3> QED BY <3>1, <3>2
    <2>4. f[n] = KeptStep(f, n)
      BY <1>3, <2>3
    <2> SUFFICES Good(n)
      BY <2>1
    <2>5. CASE n = 0
      <3>1. f[0] = <<>>
        BY <2>4, <2>5 DEF KeptStep
      <3>2. <<>> \in Seq(T) /\ IsInjective(<<>>) /\ ToSet(<<>>) = {}
        BY DEF IsInjective, ToSet
      <3> QED BY <2>5, <3>1, <3>2
    <2>6. CASE n # 0
      <3>1. n - 1 \in Nat /\ n \in 1 .. Len(seq) /\ seq[n] \in T
        BY <1>1, <2>3, <2>6
      <3>2. PICK p : p = f[n - 1]
        OBVIOUS
      <3>3. /\ p \in Seq(T) /\ IsInjective(p)
            /\ \A x : x \in ToSet(p) <=> x \in S /\ \E i \in 1 .. n - 1 : seq[i] = x
        BY <2>2, <2>6, <3>2
      <3>4. \A x : (\E i \in 1 .. n : seq[i] = x) <=> (\E i \in 1 .. n - 1 : seq[i] = x) \/ x = seq[n]
        <4>1. \A i \in 1 .. n : i \in 1 .. n - 1 \/ i = n
          BY <2>3
        <4>2. n \in 1 .. n /\ 1 .. n - 1 \subseteq 1 .. n
          BY <2>3, <2>6
        <4> QED BY <4>1, <4>2
      <3>5. CASE seq[n] \notin S
        <4>1. f[n] = p
          BY <2>4, <2>6, <3>2, <3>5 DEF KeptStep
        <4> QED BY <3>3, <3>4, <3>5, <4>1
      <3>6. CASE seq[n] \in S
        <4>1. f[n] = Append(p, seq[n])
          BY <2>4, <2>6, <3>2, <3>6 DEF KeptStep
        <4>2. \A i \in 1 .. n - 1 : seq[i] # seq[n]
          BY <1>1, <2>3, <3>1 DEF IsInjective
        <4>3. seq[n] \notin ToSet(p)
          BY <3>3, <4>2
        <4>4. PICK e, q : e = seq[n] /\ q = Append(p, e)
          OBVIOUS
        <4>5. q \in Seq(T) /\ IsInjective(q) /\ \A x : x \in ToSet(q) <=> x \in ToSet(p) \/ x = e
          <5>1. /\ p \in Seq(T) /\ IsInjective(p) /\ e \in T /\ e \notin ToSet(p)
                /\ q = Append(p, e)
            BY <3>1, <3>3, <4>3, <4>4
          <5> HIDE DEF Good, B
          <5> QED BY <5>1, AppendNew
        <4> QED BY <3>3, <3>4, <3>6, <4>1, <4>4, <4>5
      <3> QED BY <3>5, <3>6
    <2> QED BY <2>5, <2>6
  <1>5. Good(Len(seq))
    <2>1. Len(seq) \in 0 .. Len(seq)
      BY <1>1
    <2> HIDE DEF Good
    <2> QED BY <1>4, <2>1
  <1>6. \A x : (\E i \in 1 .. Len(seq) : seq[i] = x) <=> x \in ToSet(seq)
    BY <1>1 DEF ToSet
  <1> QED BY <1>3, <1>5, <1>6

-----------------------------------------------------------------------------
(* Commands.                                                               *)

LEMMA OpIsNotIdle == \A op \in OpSet : op # Idle /\ op.what # "idle"
  BY DEF OpSet, Idle

LEMMA SentFacts ==
  ASSUME NEW q \in Seq(CmdSet), NEW c \in CmdSet
  PROVE  /\ Append(q, c) \in Seq(CmdSet) /\ Append(q, c) # <<>> /\ Len(q) \in Nat
         /\ \A i \in 1 .. Len(q) : i \in 1 .. Len(Append(q, c)) /\ Append(q, c)[i] = q[i]
         /\ Len(q) + 1 \in 1 .. Len(Append(q, c)) /\ Append(q, c)[Len(q) + 1] = c
         /\ \A i \in 1 .. Len(Append(q, c)) : i \in 1 .. Len(q) \/ i = Len(q) + 1
         /\ q # <<>> => Append(q, c)[1] = q[1]
  <1>1. PICK p : p = Append(q, c)
    OBVIOUS
  <1>2. /\ p \in Seq(CmdSet) /\ Len(p) = Len(q) + 1 /\ Len(q) \in Nat
        /\ \A i \in 1 .. Len(q) : p[i] = q[i]
        /\ p[Len(q) + 1] = c
    BY <1>1, AppendProperties, LenProperties
  <1>3. \A i \in 1 .. Len(q) + 1 : i \in 1 .. Len(q) \/ i = Len(q) + 1
    BY <1>2
  <1>4. p # <<>>
    BY <1>2, EmptySeq
  <1>5. q # <<>> => 1 \in 1 .. Len(q)
    BY <1>2, EmptySeq
  <1> QED BY <1>1, <1>2, <1>3, <1>4, <1>5

LEMMA ServedFacts ==
  ASSUME NEW q \in Seq(CmdSet), q # <<>>
  PROVE  /\ 1 \in 1 .. Len(q) /\ Head(q) = q[1] /\ q[1] \in CmdSet
         /\ Tail(q) \in Seq(CmdSet) /\ Len(q) \in Nat
         /\ \A i \in 1 .. Len(Tail(q)) : i + 1 \in 1 .. Len(q) /\ i + 1 # 1 /\ Tail(q)[i] = q[i + 1]
         /\ \A i \in 1 .. Len(q) : i # 1 => \E j \in 1 .. Len(Tail(q)) : Tail(q)[j] = q[i]
  <1>1. Len(q) \in Nat /\ Len(q) # 0
    BY EmptySeq, LenProperties
  <1>2. PICK p : p = Tail(q)
    OBVIOUS
  <1>3. p \in Seq(CmdSet) /\ Len(p) = Len(q) - 1 /\ \A i \in 1 .. Len(p) : p[i] = q[i + 1]
    BY <1>2, HeadTailProperties
  <1>4. Head(q) = q[1] /\ q[1] \in CmdSet
    BY <1>1, ElementOfSeq, HeadTailProperties
  <1>5. \A i \in 1 .. Len(p) : i + 1 \in 1 .. Len(q) /\ i + 1 # 1
    BY <1>1, <1>3
  <1>6. ASSUME NEW i \in 1 .. Len(q), i # 1 PROVE \E j \in 1 .. Len(p) : p[j] = q[i]
    <2>1. i - 1 \in 1 .. Len(p) /\ (i - 1) + 1 = i
      BY <1>1, <1>3, <1>6
    <2> QED BY <1>3, <2>1
  <1> QED BY <1>1, <1>2, <1>3, <1>4, <1>5, <1>6

LEMMA CommandFacts ==
  ASSUME TypeInv
  PROVE  \A i \in 1 .. Len(commands) :
           /\ commands[i] \in CmdSet /\ commands[i].op \in Slots \cup {0}
           /\ commands[i].cmd \in {"start", "stop", "disk", "input"}
  <1>1. \A i \in 1 .. Len(commands) : commands[i] \in CmdSet
    BY ElementOfSeq DEF TypeInv
  <1> QED BY <1>1 DEF CmdSet

Unsent(o) == \A i \in 1 .. Len(commands) : commands[i].op # o

(* An action that was answered, has not begun, or waits for a paint has    *)
(* no command under way.                                                   *)
LEMMA NoCommand ==
  ASSUME TypeInv, CommandsInv, NEW o \in Slots,
         ops[o] = Idle \/ ops[o].answer # "none" \/ ops[o].at = "paint"
  PROVE  Unsent(o)
  <1> SUFFICES ASSUME NEW i \in 1 .. Len(commands), commands[i].op = o
               PROVE  FALSE
    BY DEF Unsent
  <1>1. o # 0 /\ commands[i].cmd \in {"start", "stop", "disk", "input"}
    BY TabsAssumption, CommandFacts
  <1>2. ops[o] # Idle /\ ops[o].answer = "none" /\ WaitsFor(commands[i], ops[o])
    BY <1>1 DEF CommandsInv
  <1>3. ops[o].at = "paint"
    BY <1>2
  <1> QED BY <1>1, <1>2, <1>3 DEF WaitsFor

(* An action sends its command.                                            *)
LEMMA SendCommand ==
  ASSUME TypeInv, CommandsInv, NEW o \in Slots, Unsent(o),
         NEW op \in OpSet, op.answer = "none", ops' = [ops EXCEPT ![o] = op],
         NEW c \in CmdSet, c.op = o, WaitsFor(c, op), commands' = Append(commands, c),
         c.cmd = "start" => c.kind \in AnyLive, c.cmd # "disk" => c.tab \in Tabs
  PROVE  /\ ops' \in [Slots -> {Idle} \cup OpSet] /\ commands' \in Seq(CmdSet)
         /\ CommandsInv'
  <1>1. PICK q : q = commands'
    OBVIOUS
  <1>2. /\ q \in Seq(CmdSet) /\ Len(commands) \in Nat
        /\ \A i \in 1 .. Len(commands) : q[i] = commands[i]
        /\ q[Len(commands) + 1] = c
        /\ \A i \in 1 .. Len(q) : i \in 1 .. Len(commands) \/ i = Len(commands) + 1
    BY <1>1, SentFacts DEF TypeInv
  <1>3. ops' \in [Slots -> {Idle} \cup OpSet] /\ ops'[o] = op /\ \A p \in Slots \ {o} : ops'[p] = ops[p]
    BY DEF TypeInv
  <1>4. o # 0 /\ op # Idle
    BY TabsAssumption, OpIsNotIdle
  <1>5. \A i \in 1 .. Len(commands) : commands[i].op \in (Slots \cup {0}) \ {o}
    BY CommandFacts DEF Unsent
  <1>6. ASSUME NEW i \in 1 .. Len(q)
        PROVE  /\ q[i].cmd = "start" => q[i].kind \in AnyLive
               /\ q[i].cmd # "disk" => q[i].tab \in Tabs
               /\ q[i].op = 0 => q[i].cmd = "stop"
               /\ q[i].op # 0 => /\ ops'[q[i].op] # Idle
                                 /\ ops'[q[i].op].answer = "none"
                                 /\ WaitsFor(q[i], ops'[q[i].op])
    <2>1. CASE i \in 1 .. Len(commands)
      <3>1. q[i] = commands[i] /\ (commands[i].op = 0 \/ ops'[commands[i].op] = ops[commands[i].op])
        BY <1>2, <1>3, <1>5, <2>1
      <3> QED BY <2>1, <3>1 DEF CommandsInv
    <2>2. CASE i = Len(commands) + 1
      BY <1>2, <1>3, <1>4, <2>2
    <2> QED BY <1>2, <2>1, <2>2
  <1>7. ASSUME NEW i \in 1 .. Len(q), NEW j \in 1 .. Len(q), q[i].op = q[j].op, q[i].op # 0
        PROVE  i = j
    BY <1>2, <1>5, <1>7 DEF CommandsInv
  <1>8. CommandsInv'
    <2>1. \A i \in 1 .. Len(q) :
            /\ q[i].cmd = "start" => q[i].kind \in AnyLive
            /\ q[i].cmd # "disk" => q[i].tab \in Tabs
            /\ q[i].op = 0 => q[i].cmd = "stop"
            /\ q[i].op # 0 => /\ ops'[q[i].op] # Idle
                              /\ ops'[q[i].op].answer = "none"
                              /\ WaitsFor(q[i], ops'[q[i].op])
      BY <1>6
    <2>2. \A i, j \in 1 .. Len(q) : q[i].op = q[j].op /\ q[i].op # 0 => i = j
      BY <1>7
    <2> QED BY <1>1, <2>1, <2>2 DEF CommandsInv
  <1> QED BY <1>1, <1>2, <1>3, <1>8

(* An action without a command goes on, or ends.                           *)
LEMMA StepOn ==
  ASSUME TypeInv, CommandsInv, NEW o \in Slots, Unsent(o),
         NEW op \in {Idle} \cup OpSet, ops' = [ops EXCEPT ![o] = op], commands' = commands
  PROVE  ops' \in [Slots -> {Idle} \cup OpSet] /\ CommandsInv'
  <1>1. ops' \in [Slots -> {Idle} \cup OpSet] /\ \A p \in Slots \ {o} : ops'[p] = ops[p]
    BY DEF TypeInv
  <1>2. \A i \in 1 .. Len(commands) : commands[i].op \in (Slots \cup {0}) \ {o}
    BY CommandFacts DEF Unsent
  <1>3. \A i \in 1 .. Len(commands) : commands[i].op # 0 => ops'[commands[i].op] = ops[commands[i].op]
    BY <1>1, <1>2
  <1> QED BY <1>1, <1>3 DEF CommandsInv

(* The backend answers the command it has served.                          *)
LEMMA AnswerCommand ==
  ASSUME TypeInv, CommandsInv, commands # <<>>, NEW a \in {"ok", "error"}, Done(Head(commands).op, a)
  PROVE  /\ ops' \in [Slots -> {Idle} \cup OpSet] /\ commands' \in Seq(CmdSet)
         /\ CommandsInv'
         /\ \A p \in Slots : /\ ops'[p] = Idle <=> ops[p] = Idle
                             /\ ops[p] # Idle =>
                                  /\ ops'[p].what = ops[p].what /\ ops'[p].at = ops[p].at
                                  /\ ops'[p].tab = ops[p].tab /\ ops'[p].session = ops[p].session
                                  /\ ops'[p].kind = ops[p].kind /\ ops'[p].todo = ops[p].todo
                                  /\ ops'[p].answer = IF p = commands[1].op THEN a ELSE ops[p].answer
  <1>1. PICK q, c : q = commands' /\ c = commands[1]
    OBVIOUS
  <1>2. /\ 1 \in 1 .. Len(commands) /\ Head(commands) = c /\ c \in CmdSet
        /\ q \in Seq(CmdSet) /\ Len(commands) \in Nat
        /\ \A i \in 1 .. Len(q) : i + 1 \in 1 .. Len(commands) /\ i + 1 # 1 /\ q[i] = commands[i + 1]
    BY <1>1, ServedFacts DEF TypeInv, Done
  <1>3. ops' = IF c.op = 0 THEN ops ELSE [ops EXCEPT ![c.op].answer = a]
    BY <1>2 DEF Done, Answer
  <1>4. c.op # 0 => c.op \in Slots /\ ops[c.op] # Idle
    BY <1>1, <1>2 DEF CommandsInv, CmdSet
  <1>5. /\ ops' \in [Slots -> {Idle} \cup OpSet]
        /\ \A p \in Slots : /\ ops'[p] = Idle <=> ops[p] = Idle
                            /\ ops[p] # Idle =>
                                 /\ ops'[p].what = ops[p].what /\ ops'[p].at = ops[p].at
                                 /\ ops'[p].tab = ops[p].tab /\ ops'[p].session = ops[p].session
                                 /\ ops'[p].kind = ops[p].kind /\ ops'[p].todo = ops[p].todo
                                 /\ ops'[p].answer = IF p = c.op THEN a ELSE ops[p].answer
    <2>1. CASE c.op = 0
      BY <1>3, <2>1, TabsAssumption DEF TypeInv
    <2>2. CASE c.op # 0
      <3>1. PICK op : op = [ops[c.op] EXCEPT !.answer = a]
        OBVIOUS
      <3>2. ops[c.op] \in OpSet
        BY <1>4, <2>2 DEF TypeInv
      <3>3. /\ op \in OpSet /\ op.what = ops[c.op].what /\ op.at = ops[c.op].at
            /\ op.tab = ops[c.op].tab /\ op.session = ops[c.op].session
            /\ op.kind = ops[c.op].kind /\ op.todo = ops[c.op].todo /\ op.answer = a
        BY <3>1, <3>2 DEF OpSet
      <3>4. ops' = [ops EXCEPT ![c.op] = op]
        BY <1>3, <2>2, <3>1
      <3>5. op # Idle
        BY <3>3, OpIsNotIdle
      <3> QED BY <1>4, <2>2, <3>3, <3>4, <3>5 DEF TypeInv
    <2> QED BY <2>1, <2>2
  <1>6. ASSUME NEW i \in 1 .. Len(q)
        PROVE  /\ q[i].cmd = "start" => q[i].kind \in AnyLive
               /\ q[i].cmd # "disk" => q[i].tab \in Tabs
               /\ q[i].op = 0 => q[i].cmd = "stop"
               /\ q[i].op # 0 => /\ ops'[q[i].op] # Idle
                                 /\ ops'[q[i].op].answer = "none"
                                 /\ WaitsFor(q[i], ops'[q[i].op])
    <2>1. PICK j \in 1 .. Len(commands) : j # 1 /\ q[i] = commands[j]
      BY <1>2
    <2>2. q[i] \in CmdSet
      BY <2>1, ElementOfSeq DEF TypeInv
    <2>3. ASSUME q[i].op # 0
          PROVE  /\ ops'[q[i].op] # Idle
                 /\ ops'[q[i].op].answer = "none"
                 /\ WaitsFor(q[i], ops'[q[i].op])
      <3>1. q[i].op # c.op
        <4>1. commands[j].op # commands[1].op \/ commands[1].op = 0
          BY <1>2, <2>1 DEF CommandsInv
        <4> QED BY <1>1, <2>1, <2>3, <4>1
      <3>2. q[i].op \in Slots /\ ops[q[i].op] # Idle /\ ops[q[i].op].answer = "none" /\ WaitsFor(q[i], ops[q[i].op])
        BY <2>1, <2>2, <2>3 DEF CommandsInv, CmdSet
      <3> QED BY <1>5, <3>1, <3>2 DEF WaitsFor
    <2> QED BY <2>1, <2>3 DEF CommandsInv
  <1>7. ASSUME NEW i \in 1 .. Len(q), NEW j \in 1 .. Len(q), q[i].op = q[j].op, q[i].op # 0
        PROVE  i = j
    <2>1. i + 1 = j + 1
      BY <1>2, <1>7 DEF CommandsInv
    <2> QED BY <2>1
  <1>8. CommandsInv'
    <2>1. \A i \in 1 .. Len(q) :
            /\ q[i].cmd = "start" => q[i].kind \in AnyLive
            /\ q[i].cmd # "disk" => q[i].tab \in Tabs
            /\ q[i].op = 0 => q[i].cmd = "stop"
            /\ q[i].op # 0 => /\ ops'[q[i].op] # Idle
                              /\ ops'[q[i].op].answer = "none"
                              /\ WaitsFor(q[i], ops'[q[i].op])
      BY <1>6
    <2>2. \A i, j \in 1 .. Len(q) : q[i].op = q[j].op /\ q[i].op # 0 => i = j
      BY <1>7
    <2> QED BY <1>1, <2>1, <2>2 DEF CommandsInv
  <1> QED BY <1>1, <1>2, <1>5, <1>8

-----------------------------------------------------------------------------
(* Counting runs.                                                          *)

LEMMA CountFacts ==
  /\ \A A, B : A \subseteq B /\ B \subseteq Runs => Cardinality(A) \in Nat /\ Cardinality(A) <= Cardinality(B)
  /\ \A A, B : A \subseteq B /\ B \subseteq Slots => Cardinality(A) \in Nat /\ Cardinality(A) <= Cardinality(B)
  /\ \A A \in SUBSET Runs : \A x \in Runs \ A : Cardinality(A \cup {x}) = Cardinality(A) + 1
  /\ \A A \in SUBSET Slots : \A x \in Slots \ A : Cardinality(A \cup {x}) = Cardinality(A) + 1
  /\ Cardinality(Runs) = MaxRuns
  <1>1. IsFiniteSet(Runs) /\ Cardinality(Runs) = MaxRuns
    BY TabsAssumption, FS_Interval DEF Runs
  <1>2. IsFiniteSet(Slots)
    BY TabsAssumption
  <1>3. ASSUME NEW F, IsFiniteSet(F)
        PROVE  /\ \A A, B : A \subseteq B /\ B \subseteq F => Cardinality(A) \in Nat /\ Cardinality(A) <= Cardinality(B)
               /\ \A A \in SUBSET F : \A x \in F \ A : Cardinality(A \cup {x}) = Cardinality(A) + 1
    <2>1. \A A \in SUBSET F : IsFiniteSet(A)
      BY <1>3, FS_Subset
    <2>2. \A A \in SUBSET F : Cardinality(A) \in Nat
      BY <2>1, FS_CardinalityType
    <2>3. ASSUME NEW A, NEW B, A \subseteq B, B \subseteq F
          PROVE  Cardinality(A) <= Cardinality(B)
      BY <2>1, <2>3, FS_Subset
    <2>4. \A A \in SUBSET F : \A x \in F \ A : Cardinality(A \cup {x}) = Cardinality(A) + 1
      BY <2>1, FS_AddElement
    <2> QED BY <2>2, <2>3, <2>4
  <1> QED BY <1>1, <1>2, <1>3

LEMMA CountKept ==
  ASSUME CountInv, Launched' = Launched, Coming' \subseteq Coming
  PROVE  CountInv'
  <1>1. PICK a, b, d : a = Cardinality(Launched) /\ b = Cardinality(Coming) /\ d = Cardinality(Coming')
    OBVIOUS
  <1>2. Launched \subseteq Runs /\ Coming \subseteq Slots
    BY DEF Launched, Coming
  <1>3. a \in Nat /\ b \in Nat /\ d \in Nat /\ d <= b /\ a + b <= MaxRuns
    BY <1>1, <1>2, CountFacts DEF CountInv
  <1>4. a + d <= MaxRuns
    BY <1>3, TabsAssumption
  <1>5. Cardinality(Launched') = a
    BY <1>1
  <1> QED BY <1>1, <1>4, <1>5 DEF CountInv

LEMMA CountStart ==
  ASSUME RunsLeft, NEW o \in Slots, Launched' = Launched, Coming' \subseteq Coming \cup {o}
  PROVE  CountInv'
  <1>1. PICK S : S = {p \in Busy : ops[p].what = "start"}
    OBVIOUS
  <1>2. Coming \subseteq S /\ S \subseteq Slots /\ Launched \subseteq Runs
    BY <1>1 DEF Coming, Launched, Busy
  <1>3. PICK a, b, d : a = Cardinality(Launched) /\ b = Cardinality(S) /\ d = Cardinality(Coming')
    OBVIOUS
  <1>4. Cardinality(S \cup {o}) \in Nat /\ Cardinality(S \cup {o}) <= b + 1 /\ b \in Nat
    <2>1. b \in Nat
      BY <1>2, <1>3, CountFacts
    <2>2. CASE o \in S
      <3>1. Cardinality(S \cup {o}) = b
        <4>1. S \cup {o} = S
          BY <2>2
        <4> QED BY <1>3, <4>1
      <3> QED BY <2>1, <3>1
    <2>3. CASE o \notin S
      BY <1>2, <1>3, <2>1, <2>3, CountFacts
    <2> QED BY <2>1, <2>2, <2>3
  <1>5. d \in Nat /\ d <= Cardinality(S \cup {o})
    BY <1>2, <1>3, CountFacts
  <1>6. a \in Nat /\ a + b < MaxRuns
    BY <1>1, <1>2, <1>3, CountFacts DEF RunsLeft
  <1>7. a + d <= MaxRuns
    BY <1>4, <1>5, <1>6, TabsAssumption
  <1>8. Cardinality(Launched') = a
    BY <1>3
  <1> QED BY <1>3, <1>7, <1>8 DEF CountInv

LEMMA CountLaunch ==
  ASSUME CountInv, NEW o \in Coming, NEW n \in Runs \ Launched,
         Launched' = Launched \cup {n}, Coming' \subseteq Coming \ {o}
  PROVE  CountInv'
  <1>1. Launched \subseteq Runs /\ Coming \subseteq Slots /\ Launched \in SUBSET Runs
    BY DEF Launched, Coming
  <1>2. PICK a, b, d, e, L, R : /\ a = Cardinality(Launched) /\ b = Cardinality(Coming)
                                /\ d = Cardinality(Coming') /\ R = Coming \ {o} /\ e = Cardinality(R)
                                /\ L = Launched \cup {n}
    OBVIOUS
  <1>3. Cardinality(L) = a + 1 /\ a \in Nat
    BY <1>1, <1>2, CountFacts
  <1>4. b = e + 1 /\ e \in Nat
    <2>1. R \in SUBSET Slots /\ o \in Slots \ R /\ Coming = R \cup {o}
      BY <1>1, <1>2
    <2>2. Cardinality(R \cup {o}) = e + 1 /\ e \in Nat
      BY <1>2, <2>1, CountFacts
    <2> QED BY <1>2, <2>1, <2>2
  <1>5. d \in Nat /\ d <= e
    BY <1>1, <1>2, CountFacts
  <1>6. a + b <= MaxRuns
    BY <1>2 DEF CountInv
  <1>7. (a + 1) + d <= MaxRuns
    BY <1>3, <1>4, <1>5, <1>6, TabsAssumption
  <1>8. Cardinality(Launched') = a + 1
    BY <1>2, <1>3
  <1> QED BY <1>2, <1>7, <1>8 DEF CountInv

(* A start that is to come finds a run that was not used.                  *)
LEMMA NextRunFacts ==
  ASSUME CountInv, Coming # {}
  PROVE  /\ NextRun \in Runs /\ runs[NextRun].kind = "none"
         /\ \A q \in 1 .. NextRun - 1 : runs[q].kind # "none"
  <1>1. Launched \subseteq Runs /\ Coming \subseteq Slots
    BY DEF Launched, Coming
  <1>2. PICK o : o \in Coming
    OBVIOUS
  <1>3. Cardinality({o}) = 1 /\ Cardinality({o}) <= Cardinality(Coming) /\ Cardinality(Coming) \in Nat
    BY <1>1, <1>2, CountFacts, FS_Singleton
  <1>4. Launched # Runs
    BY <1>1, <1>3, CountFacts, TabsAssumption DEF CountInv
  <1> DEFINE free == {r \in Runs : runs[r].kind = "none"}
  <1>5. free \subseteq Nat /\ free # {}
    BY <1>1, <1>4, TabsAssumption DEF Launched, Runs
  <1>6. \E r \in free : \A q \in free : ~ (q < r)
    <2> HIDE DEF free
    <2> QED BY <1>5, Least
  <1>7. PICK r \in free : \A q \in free : ~ (q < r)
    BY <1>6
  <1>8. r \in Runs /\ runs[r].kind = "none" /\ \A q \in 1 .. r - 1 : runs[q].kind # "none"
    <2>1. \A q \in 1 .. r - 1 : q \in Runs /\ q < r
      BY <1>7, TabsAssumption DEF Runs
    <2> QED BY <1>7, <2>1
  <1> QED BY <1>8 DEF NextRun

-----------------------------------------------------------------------------
(* The threads of a run: its flag stays up, and it begins nothing.         *)

LEMMA ThreadStep ==
  ASSUME IInv, NEW r \in Launched, NEW new \in RunSet,
         runs' = [runs EXCEPT ![r] = new],
         new.tab = runs[r].tab, new.kind = runs[r].kind,
         runs[r].flag => new.flag,
         new.end # "none" \/ "finalizer" \in new.threads => new.flag,
         ~ new.flag => new.threads # {},
         new.threads # {} => runs[r].threads # {},
         \/ registry' = registry
         \/ /\ registry' = [registry EXCEPT ![runs[r].tab] = 0]
            /\ \/ "finalizer" \in runs[r].threads
               \/ registry[runs[r].tab] = r /\ new.flag /\ main = 0,
         UNCHANGED <<sessions, row, info, active, ops, commands, main, hasty>>
  PROVE  IInv'
  <1> USE DEF IInv
  <1>1. /\ r \in Runs /\ runs[r].kind # "none" /\ runs' \in [Runs -> RunSet]
        /\ runs'[r] = new /\ \A q \in Runs \ {r} : runs'[q] = runs[q]
    BY DEF Launched, TypeInv
  <1>2. \A q \in Runs : runs'[q].tab = runs[q].tab /\ runs'[q].kind = runs[q].kind
    BY <1>1
  <1>3. Launched' = Launched
    BY <1>2 DEF Launched
  <1>4. /\ registry' \in [Tabs -> {0} \cup Runs]
        /\ \A t \in Tabs : registry'[t] = registry[t] \/ (registry'[t] = 0 /\ t = runs[r].tab)
    <2>1. registry \in [Tabs -> {0} \cup Runs]
      BY DEF TypeInv
    <2> QED BY <2>1
  <1>5. TypeInv'
    BY <1>1, <1>4 DEF TypeInv, Open
  <1>6. RunsInv'
    <2>1. \A q \in Runs : runs'[q].kind = "none" => runs'[q] = NoRun
      BY <1>1 DEF RunsInv
    <2>2. \A q \in Launched : /\ runs'[q].tab \in Tabs
                              /\ runs'[q].end # "none" \/ "finalizer" \in runs'[q].threads => runs'[q].flag
                              /\ ~ runs'[q].flag => runs'[q].threads # {}
      BY <1>1 DEF RunsInv, Launched
    <2>3. \A t \in Tabs : registry'[t] # 0 => registry'[t] \in Launched /\ runs'[registry'[t]].tab = t
      BY <1>2, <1>4 DEF RunsInv, Launched
    <2>4. main # 0 => /\ main \in Launched /\ commands # <<>>
                      /\ commands[1].cmd = "start" /\ commands[1].tab = runs'[main].tab
                      /\ registry'[runs'[main].tab] = 0
      BY <1>2, <1>4 DEF RunsInv, Launched
    <2> QED BY <1>3, <2>1, <2>2, <2>3, <2>4 DEF RunsInv
  <1>7. CommandsInv' /\ OpsInv'
    <2>1. CommandsInv'
      BY DEF CommandsInv
    <2>2. OpsInv'
      BY DEF OpsInv
    <2> QED BY <2>1, <2>2
  <1>8. SoloInv'
    <2>1. ASSUME NEW p \in Launched, NEW q \in Launched,
                 runs'[p].tab = runs'[q].tab, runs'[p].threads # {}, runs'[q].threads # {}
          PROVE  p = q \/ runs'[q].tab \in hasty
      BY <1>1, <1>2, <2>1 DEF SoloInv, Launched
    <2>2. ASSUME NEW q \in Launched, ~ runs'[q].flag
          PROVE  runs'[q].tab \in hasty \/ registry'[runs'[q].tab] = q \/ main = q
      <3>1. ~ runs[q].flag /\ q \in Runs
        BY <1>1, <2>2 DEF Launched
      <3>2. runs[q].tab \in hasty \/ registry[runs[q].tab] = q \/ main = q
        BY <3>1 DEF SoloInv
      <3>3. runs[q].tab \in Tabs
        BY DEF RunsInv
      <3>4. CASE registry'[runs[q].tab] = registry[runs[q].tab]
        BY <1>2, <3>1, <3>2, <3>4
      <3>5. CASE registry'[runs[q].tab] # registry[runs[q].tab]
        <4>1. /\ runs[q].tab = runs[r].tab
              /\ \/ "finalizer" \in runs[r].threads
                 \/ registry[runs[r].tab] = r /\ new.flag /\ main = 0
          BY <1>4, <3>3, <3>5
        <4>2. CASE "finalizer" \in runs[r].threads
          <5>1. runs[r].flag /\ runs[r].threads # {} /\ runs[q].threads # {} /\ q # r
            BY <3>1, <4>2 DEF RunsInv
          <5> QED BY <1>2, <3>1, <4>1, <5>1 DEF SoloInv
        <4>3. CASE registry[runs[r].tab] = r /\ new.flag /\ main = 0
          <5>1. q # r
            BY <1>1, <2>2, <4>3
          <5>2. main # q
            BY <4>3, <3>1, TabsAssumption DEF Runs
          <5> QED BY <1>2, <3>1, <3>2, <4>1, <4>3, <5>1, <5>2
        <4> QED BY <4>1, <4>2, <4>3
      <3> QED BY <3>4, <3>5
    <2> QED BY <1>3, <2>1, <2>2 DEF SoloInv
  <1>9. \A t : RunsIn(t)' => RunsIn(t)
    <2> SUFFICES ASSUME NEW t, RunsIn(t)' PROVE RunsIn(t)
      OBVIOUS
    <2>1. PICK q \in Launched' : ~ runs'[q].flag /\ runs'[q].tab = t
      BY DEF RunsIn
    <2>2. q \in Launched /\ ~ runs[q].flag /\ runs[q].tab = t
      BY <1>1, <1>2, <1>3, <2>1 DEF Launched
    <2> QED BY <2>2 DEF RunsIn
  <1>10. TabInv' /\ NewInv'
    <2>1. TabInv'
      BY <1>9 DEF TabInv, Starting, Terminal, Open, IsTerminal, StopDue
    <2>2. NewInv'
      BY <1>9 DEF NewInv, Starting
    <2> QED BY <2>1, <2>2
  <1>11. RemovalInv'
    BY <1>9 DEF RemovalInv, Starting, Open, StopOf, Command
  <1>12. ActiveIsOpen'
    BY DEF ActiveIsOpen, Open
  <1>13. CountInv'
    <2>1. Coming' = Coming
      BY DEF Coming
    <2> QED BY <1>3, <2>1, CountKept
  <1> QED BY <1>5, <1>6, <1>7, <1>8, <1>10, <1>11, <1>12, <1>13

(* What the thread lemmas need of a run with a thread.                     *)
LEMMA BusyRun ==
  ASSUME IInv, NEW r \in Runs, runs[r].threads # {}
  PROVE  r \in Launched /\ runs[r] \in RunSet /\ runs[r].tab \in Tabs
  <1>1. runs[r].kind # "none"
    BY DEF IInv, RunsInv, NoRun
  <1> QED BY <1>1 DEF IInv, RunsInv, Launched, TypeInv

LEMMA EndingIInv ==
  ASSUME IInv, NEW r \in Runs, NEW thread \in runs[r].threads,
         thread # "finalizer", runs' = Ending(r, thread),
         UNCHANGED <<sessions, row, info, active, ops, commands, main, hasty, registry>>
  PROVE  IInv'
  <1>1. r \in Launched /\ runs[r] \in RunSet
    BY BusyRun
  <1>2. PICK new : new = [runs[r] EXCEPT !.flag = TRUE, !.end = IF runs[r].flag THEN runs[r].end ELSE "owed",
                                         !.threads = (runs[r].threads \ {thread}) \cup {"finalizer"}]
    OBVIOUS
  <1>3. /\ new \in RunSet /\ new.tab = runs[r].tab /\ new.kind = runs[r].kind /\ new.flag
        /\ new.threads # {}
    BY <1>1, <1>2 DEF RunSet
  <1>4. runs' = [runs EXCEPT ![r] = new]
    BY <1>1, <1>2 DEF Ending, IInv, TypeInv
  <1> QED BY <1>1, <1>3, <1>4, ThreadStep

LEMMA QuitIInv ==
  ASSUME IInv, NEW r \in Runs, NEW thread \in runs[r].threads,
         runs[r].flag, Quit(r, thread),
         UNCHANGED <<sessions, row, info, active, ops, commands, main, hasty, registry>>
  PROVE  IInv'
  <1>1. r \in Launched /\ runs[r] \in RunSet
    BY BusyRun
  <1>2. PICK new : new = [runs[r] EXCEPT !.threads = runs[r].threads \ {thread}]
    OBVIOUS
  <1>3. /\ new \in RunSet /\ new.tab = runs[r].tab /\ new.kind = runs[r].kind /\ new.flag
    BY <1>1, <1>2 DEF RunSet
  <1>4. runs' = [runs EXCEPT ![r] = new]
    BY <1>1, <1>2 DEF Quit, IInv, TypeInv
  <1> QED BY <1>1, <1>3, <1>4, ThreadStep

LEMMA ConnectIInv ==
  ASSUME IInv, NEW r \in Runs, Connect(r)
  PROVE  IInv'
  <1>1. /\ "connector" \in runs[r].threads
        /\ UNCHANGED <<sessions, row, info, active, ops, commands, main, hasty, registry>>
    BY DEF Connect, Thread, window
  <1>2. CASE runs' = Ending(r, "connector")
    BY <1>1, <1>2, EndingIInv
  <1>3. CASE runs' = [runs EXCEPT ![r].threads = IF runs[r].flag THEN {} ELSE {"reader"}]
    <2>1. r \in Launched /\ runs[r] \in RunSet
      BY <1>1, BusyRun
    <2>2. PICK new : new = [runs[r] EXCEPT !.threads = IF runs[r].flag THEN {} ELSE {"reader"}]
      OBVIOUS
    <2>3. /\ new \in RunSet /\ new.tab = runs[r].tab /\ new.kind = runs[r].kind
          /\ new.flag = runs[r].flag /\ new.end = runs[r].end
          /\ "finalizer" \notin new.threads /\ (~ new.flag => new.threads # {})
      BY <2>1, <2>2 DEF RunSet
    <2>4. runs' = [runs EXCEPT ![r] = new]
      BY <1>3, <2>1, <2>2 DEF IInv, TypeInv
    <2>5. new.end # "none" => new.flag
      BY <2>1, <2>3 DEF IInv, RunsInv
    <2> QED BY <1>1, <2>1, <2>3, <2>4, <2>5, ThreadStep
  <1> QED BY <1>2, <1>3 DEF Connect

LEMMA LeaveIInv ==
  ASSUME IInv, NEW r \in Runs, ReaderLeaves(r) \/ ReaderEnds(r) \/ Watch(r)
  PROVE  IInv'
  <1>1. UNCHANGED <<sessions, row, info, active, ops, commands, main, hasty, registry>>
    BY DEF ReaderLeaves, ReaderEnds, Watch, Thread, window
  <1>2. CASE ReaderLeaves(r)
    BY <1>1, <1>2, QuitIInv DEF ReaderLeaves
  <1>3. CASE ReaderEnds(r)
    BY <1>1, <1>3, EndingIInv DEF ReaderEnds
  <1>4. CASE Watch(r)
    BY <1>1, <1>4, QuitIInv, EndingIInv DEF Watch
  <1> QED BY <1>2, <1>3, <1>4

LEMMA SpeakIInv ==
  ASSUME IInv, NEW r \in Runs, Read(r) \/ Poll(r)
  PROVE  IInv'
  <1>1. /\ CanSpeak(r) /\ runs' = [runs EXCEPT ![r].said = TRUE]
        /\ UNCHANGED <<sessions, row, info, active, ops, commands, main, hasty, registry>>
    BY DEF Read, Poll, Thread, window
  <1>2. runs[r].kind # "none"
    <2>1. CASE runs[r].kind = "local"
      BY <2>1
    <2>2. CASE "reader" \in runs[r].threads
      BY <2>2, BusyRun DEF Launched
    <2> QED BY <1>1, <2>1, <2>2 DEF CanSpeak
  <1>3. r \in Launched /\ runs[r] \in RunSet
    BY <1>2 DEF Launched, IInv, TypeInv
  <1>4. PICK new : new = [runs[r] EXCEPT !.said = TRUE]
    OBVIOUS
  <1>5. /\ new \in RunSet /\ new.tab = runs[r].tab /\ new.kind = runs[r].kind
        /\ new.flag = runs[r].flag /\ new.end = runs[r].end /\ new.threads = runs[r].threads
    BY <1>3, <1>4 DEF RunSet
  <1>6. runs' = [runs EXCEPT ![r] = new]
    BY <1>1, <1>3, <1>4 DEF IInv, TypeInv
  <1>7. /\ new.end # "none" \/ "finalizer" \in new.threads => new.flag
        /\ ~ new.flag => new.threads # {}
    BY <1>3, <1>5 DEF IInv, RunsInv
  <1>8. UNCHANGED <<sessions, row, info, active, ops, commands, main, hasty, registry>>
    BY <1>1
  <1>9. runs[r].flag => new.flag
    BY <1>5
  <1>10. new.threads # {} => runs[r].threads # {}
    BY <1>5
  <1>11. registry' = registry /\ UNCHANGED <<sessions, row, info, active, ops, commands, main, hasty>>
    BY <1>8
  <1> QED BY <1>3, <1>5, <1>6, <1>7, <1>9, <1>10, <1>11, ThreadStep

LEMMA FinalizeIInv ==
  ASSUME IInv, NEW r \in Runs, Finalize(r)
  PROVE  IInv'
  <1>1. /\ "finalizer" \in runs[r].threads
        /\ registry' = [registry EXCEPT ![runs[r].tab] = 0]
        /\ runs' = [runs EXCEPT ![r].threads = runs[r].threads \ {"finalizer"},
                                ![r].end = IF runs[r].end = "owed" THEN "told" ELSE runs[r].end]
        /\ UNCHANGED <<sessions, row, info, active, ops, commands, main, hasty>>
    BY DEF Finalize, Thread, window
  <1>2. r \in Launched /\ runs[r] \in RunSet
    BY <1>1, BusyRun
  <1>3. PICK new : new = [runs[r] EXCEPT !.threads = runs[r].threads \ {"finalizer"},
                                         !.end = IF runs[r].end = "owed" THEN "told" ELSE runs[r].end]
    OBVIOUS
  <1>4. /\ new \in RunSet /\ new.tab = runs[r].tab /\ new.kind = runs[r].kind
        /\ new.flag = runs[r].flag
    BY <1>2, <1>3 DEF RunSet
  <1>5. runs' = [runs EXCEPT ![r] = new]
    BY <1>1, <1>2, <1>3 DEF IInv, TypeInv
  <1>6. new.flag
    BY <1>1, <1>2, <1>4 DEF IInv, RunsInv
  <1> QED BY <1>1, <1>2, <1>4, <1>5, <1>6, ThreadStep

-----------------------------------------------------------------------------
(* The window.  Its actions leave the runs alone; a command they send is   *)
(* the last one.                                                           *)

Sends(c) == c \in CmdSet /\ commands' = Append(commands, c)

LEMMA WindowStep ==
  ASSUME IInv, UNCHANGED backend, hasty \subseteq hasty',
         commands' = commands \/ \E c : Sends(c)
  PROVE  /\ RunsInv' /\ SoloInv' /\ Launched' = Launched
         /\ \A t : RunsIn(t)' => RunsIn(t)
         /\ \A i \in 1 .. Len(commands) : i \in 1 .. Len(commands') /\ commands'[i] = commands[i]
         /\ \A t : StopDue(t) => StopDue(t)'
         /\ main # 0 => commands'[1] = commands[1]
  <1>1. UNCHANGED <<main, registry, runs>>
    BY DEF backend
  <1>2. Launched' = Launched
    BY <1>1 DEF Launched
  <1>3. /\ \A i \in 1 .. Len(commands) : i \in 1 .. Len(commands') /\ commands'[i] = commands[i]
        /\ commands # <<>> => commands' # <<>> /\ commands'[1] = commands[1]
    <2>1. CASE commands' = commands
      BY <2>1
    <2>2. CASE \E c : Sends(c)
      <3>1. PICK c : Sends(c)
        BY <2>2
      <3> QED BY <3>1, SentFacts DEF Sends, IInv, TypeInv
    <2> QED BY <2>1, <2>2
  <1>4. main # 0 => commands # <<>>
    BY DEF IInv, RunsInv
  <1>5. RunsInv'
    BY <1>1, <1>2, <1>3, <1>4 DEF IInv, RunsInv
  <1>6. SoloInv'
    <2>1. \A q, r \in Launched :
            runs[q].tab = runs[r].tab /\ runs[q].threads # {} /\ runs[r].threads # {} =>
              q = r \/ runs[r].tab \in hasty'
      BY DEF IInv, SoloInv
    <2>2. \A r \in Launched : ~ runs[r].flag => runs[r].tab \in hasty' \/ registry[runs[r].tab] = r \/ main = r
      BY DEF IInv, SoloInv
    <2> QED BY <1>1, <1>2, <2>1, <2>2 DEF SoloInv
  <1>7. \A t : RunsIn(t)' => RunsIn(t)
    BY <1>1, <1>2 DEF RunsIn
  <1>8. ASSUME NEW t, StopDue(t) PROVE StopDue(t)'
    BY <1>3, <1>8 DEF StopDue
  <1> QED BY <1>2, <1>3, <1>4, <1>5, <1>6, <1>7, <1>8

(* A step that starts nothing, and neither moves a tab nor removes one.    *)
LEMMA QuietStep ==
  ASSUME IInv, UNCHANGED <<row, info, backend, hasty>>, TypeInv', CommandsInv', OpsInv', ActiveIsOpen',
         commands' = commands \/ \E c : Sends(c),
         \A p \in Slots : ops'[p] # Idle /\ ops'[p].what = "start" =>
            /\ ops[p] # Idle /\ ops[p].what = "start" /\ ops'[p].tab = ops[p].tab
            /\ ops'[p] = ops[p] \/ ops[p].at # "start",
         \A p \in Slots : ops'[p] # Idle /\ ops'[p].what = "remove" => ops'[p] = ops[p]
  PROVE  IInv'
  <1>1. /\ RunsInv' /\ SoloInv' /\ Launched' = Launched /\ main' = main
        /\ \A t : RunsIn(t)' => RunsIn(t)
        /\ \A i \in 1 .. Len(commands) : i \in 1 .. Len(commands') /\ commands'[i] = commands[i]
        /\ \A t : StopDue(t) => StopDue(t)'
        /\ main # 0 => commands'[1] = commands[1]
    BY WindowStep DEF backend
  <1>2. \A t : Starting(t)' => Starting(t)
    BY DEF Starting
  <1>3. TabInv' /\ NewInv'
    <2>1. TabInv'
      BY <1>1, <1>2 DEF IInv, TabInv, Terminal, Open, IsTerminal
    <2>2. NewInv'
      BY <1>1, <1>2 DEF IInv, NewInv
    <2> QED BY <2>1, <2>2
  <1>4. RemovalInv'
    <2> SUFFICES ASSUME NEW o \in Slots, ops'[o] # Idle, ops'[o].what = "remove",
                        NEW t \in Open' \ hasty', info'[t].session = ops'[o].session
                 PROVE  /\ ~ Starting(t)'
                        /\ RunsIn(t)' => /\ ops'[o].at = "stop"
                                         /\ \/ t \in ToSet(ops'[o].todo)
                                            \/ \E i \in 1 .. Len(commands') : commands'[i] = StopOf(t, o)
      BY DEF RemovalInv, StopOf, Command
    <2>1. ops'[o] = ops[o]
      OBVIOUS
    <2>2. t \in Open \ hasty /\ info[t].session = ops[o].session
      BY <2>1 DEF Open
    <2>3. /\ ~ Starting(t)
          /\ RunsIn(t) => /\ ops[o].at = "stop"
                          /\ \/ t \in ToSet(ops[o].todo)
                             \/ \E i \in 1 .. Len(commands) : commands[i] = StopOf(t, o)
      BY <2>1, <2>2 DEF IInv, RemovalInv
    <2> QED BY <1>1, <1>2, <2>1, <2>3
  <1>5. Coming' \subseteq Coming
    BY <1>1 DEF Coming
  <1>6. CountInv'
    BY <1>1, <1>5, CountKept DEF IInv
  <1> QED BY <1>1, <1>3, <1>4, <1>6 DEF IInv

(* The fields of an action under way.                                      *)
LEMMA OpKeeps ==
  ASSUME TypeInv, NEW o \in Slots, ops[o] # Idle
  PROVE  /\ ops[o] \in OpSet
         /\ \A at \in {"stop", "paint", "start", "delete", "save", "send"} :
              LET op == [ops[o] EXCEPT !.at = at, !.answer = "none"] IN
              /\ op \in OpSet /\ op # Idle /\ op.what = ops[o].what /\ op.at = at /\ op.answer = "none"
              /\ op.tab = ops[o].tab /\ op.session = ops[o].session /\ op.kind = ops[o].kind
              /\ op.todo = ops[o].todo
              /\ Step(o, at) => ops' = [ops EXCEPT ![o] = op]
  <1>1. ops[o] \in OpSet
    BY DEF TypeInv
  <1>2. ASSUME NEW at \in {"stop", "paint", "start", "delete", "save", "send"},
               NEW op, op = [ops[o] EXCEPT !.at = at, !.answer = "none"]
        PROVE  /\ op \in OpSet /\ op # Idle /\ op.what = ops[o].what /\ op.at = at /\ op.answer = "none"
               /\ op.tab = ops[o].tab /\ op.session = ops[o].session /\ op.kind = ops[o].kind
               /\ op.todo = ops[o].todo
               /\ Step(o, at) => ops' = [ops EXCEPT ![o] = op]
    <2>1. /\ op \in OpSet /\ op.what = ops[o].what /\ op.at = at /\ op.answer = "none"
          /\ op.tab = ops[o].tab /\ op.session = ops[o].session /\ op.kind = ops[o].kind
          /\ op.todo = ops[o].todo
      BY <1>1, <1>2 DEF OpSet
    <2>2. op # Idle
      BY <2>1, OpIsNotIdle
    <2>3. Step(o, at) => ops' = [ops EXCEPT ![o] = op]
      BY <1>2 DEF Step, TypeInv
    <2> QED BY <2>1, <2>2, <2>3
  <1> QED BY <1>1, <1>2

LEMMA RestartSeedsIInv ==
  ASSUME IInv, NEW o \in Slots, RestartSeeds(o)
  PROVE  IInv'
  <1> USE DEF IInv
  <1>1. /\ ops[o] # Idle /\ ops[o].what = "start" /\ ops[o].at = "stop" /\ ops[o].answer # "none"
        /\ Step(o, "paint") /\ active' = ops[o].tab
        /\ UNCHANGED <<sessions, row, info, commands, backend, hasty>>
    BY DEF RestartSeeds, Answered, Waits
  <1>2. PICK op : op = [ops[o] EXCEPT !.at = "paint", !.answer = "none"]
    OBVIOUS
  <1>3. /\ op \in OpSet /\ op # Idle /\ op.what = "start" /\ op.tab = ops[o].tab /\ op.kind = ops[o].kind
        /\ ops' = [ops EXCEPT ![o] = op]
    BY <1>1, <1>2, OpKeeps
  <1>4. ops'[o] = op /\ \A p \in Slots \ {o} : ops'[p] = ops[p]
    BY <1>3 DEF TypeInv
  <1>5. ops' \in [Slots -> {Idle} \cup OpSet] /\ CommandsInv'
    <2>1. Unsent(o)
      BY <1>1, NoCommand
    <2> QED BY <1>1, <1>3, <2>1, StepOn
  <1>6. TypeInv'
    BY <1>1, <1>5 DEF TypeInv, Open, backend
  <1>7. OpsInv'
    BY <1>1, <1>3, <1>4 DEF OpsInv
  <1>8. ActiveIsOpen'
    <2>1. ops[o].tab \in Open \cup hasty
      BY <1>1 DEF TabInv, Starting, Terminal, OpsInv
    <2> QED BY <1>1, <2>1 DEF ActiveIsOpen, Open
  <1> QED BY <1>1, <1>3, <1>4, <1>5, <1>6, <1>7, <1>8, QuietStep

LEMMA PaintedIInv ==
  ASSUME IInv, NEW o \in Slots, Painted(o)
  PROVE  IInv'
  <1> USE DEF IInv
  <1>1. /\ ops[o] # Idle /\ ops[o].what = "start" /\ ops[o].at = "paint"
        /\ Step(o, "start")
        /\ \E kind \in {ops[o].kind, "none"} :
             commands' = Append(commands, Command("start", ops[o].tab, kind, o))
        /\ UNCHANGED <<sessions, row, info, active, backend, hasty>>
    BY DEF Painted, Waits, window
  <1>2. PICK op : op = [ops[o] EXCEPT !.at = "start", !.answer = "none"]
    OBVIOUS
  <1>3. /\ op \in OpSet /\ op # Idle /\ op.what = "start" /\ op.tab = ops[o].tab /\ op.kind = ops[o].kind
        /\ op.answer = "none" /\ op.at = "start"
        /\ ops' = [ops EXCEPT ![o] = op]
    BY <1>1, <1>2, OpKeeps
  <1>4. ops'[o] = op /\ \A p \in Slots \ {o} : ops'[p] = ops[p]
    BY <1>3 DEF TypeInv
  <1>5. PICK kind, c : /\ kind \in {ops[o].kind, "none"} /\ c = Command("start", ops[o].tab, kind, o)
                       /\ commands' = Append(commands, c)
    BY <1>1
  <1>6. ops[o].tab \in Tabs /\ ops[o].kind \in Live
    BY <1>1 DEF OpsInv
  <1>7. /\ c \in CmdSet /\ c.op = o /\ WaitsFor(c, op) /\ c.kind \in AnyLive /\ c.tab \in Tabs
    BY <1>3, <1>5, <1>6 DEF Command, CmdSet, TabsOrNone, AnyKind, AnyLive, Kinds, WaitsFor
  <1>8. ops' \in [Slots -> {Idle} \cup OpSet] /\ commands' \in Seq(CmdSet) /\ CommandsInv'
    <2>1. Unsent(o)
      BY <1>1, NoCommand
    <2> QED BY <1>1, <1>3, <1>5, <1>7, <2>1, SendCommand
  <1>9. TypeInv'
    BY <1>1, <1>8 DEF TypeInv, Open, backend
  <1>10. OpsInv'
    BY <1>1, <1>3, <1>4 DEF OpsInv
  <1>11. ActiveIsOpen'
    BY <1>1 DEF ActiveIsOpen, Open
  <1>12. Sends(c)
    BY <1>1, <1>5, <1>7 DEF Sends
  <1> QED BY <1>1, <1>3, <1>4, <1>8, <1>9, <1>10, <1>11, <1>12, QuietStep

LEMMA FinishedIInv ==
  ASSUME IInv, NEW o \in Slots,
         StartAnswered(o) \/ InputAnswered(o) \/ GivenUp(o) \/ FolderRemoved(o)
  PROVE  IInv'
  <1> USE DEF IInv
  <1>1. /\ ops[o] # Idle /\ ops[o].answer # "none"
        /\ ops' = [ops EXCEPT ![o] = Idle]
        /\ sessions' = sessions \/ sessions' = [sessions EXCEPT ![ops[o].session] = Gone]
        /\ UNCHANGED <<row, info, active, commands, backend, hasty>>
    BY DEF StartAnswered, InputAnswered, GivenUp, FolderRemoved, Answered, Granted, Waits, Finish, window
  <1>2. ops'[o] = Idle /\ \A p \in Slots \ {o} : ops'[p] = ops[p]
    BY <1>1 DEF TypeInv
  <1>3. ops' \in [Slots -> {Idle} \cup OpSet] /\ CommandsInv'
    <2>1. Unsent(o)
      BY <1>1, NoCommand
    <2> QED BY <1>1, <2>1, StepOn
  <1>4. TypeInv'
    <2>1. sessions' \in [Sessions -> Kinds \cup {Gone}]
      BY <1>1 DEF TypeInv
    <2> QED BY <1>1, <1>3, <2>1 DEF TypeInv, Open, backend
  <1>5. OpsInv'
    BY <1>1, <1>2 DEF OpsInv
  <1>6. ActiveIsOpen'
    BY <1>1 DEF ActiveIsOpen, Open
  <1> QED BY <1>1, <1>2, <1>3, <1>4, <1>5, <1>6, QuietStep

LEMMA StillIInv ==
  ASSUME IInv, Listen \/ UNCHANGED vars
  PROVE  IInv'
  <1> USE DEF IInv
  <1>1. UNCHANGED <<row, info, active, ops, commands, backend, hasty>>
    BY DEF Listen, vars, window
  <1>2. sessions' \in [Sessions -> Kinds \cup {Gone}]
    BY DEF Listen, vars, window, TypeInv
  <1>3. TypeInv'
    BY <1>1, <1>2 DEF TypeInv, Open, backend
  <1>4. CommandsInv' /\ OpsInv' /\ ActiveIsOpen'
    BY <1>1 DEF CommandsInv, OpsInv, ActiveIsOpen, Open
  <1> QED BY <1>1, <1>3, <1>4, QuietStep

LEMMA BeginFacts ==
  ASSUME IInv, NEW o \in Slots, ops[o] = Idle, NEW op \in OpSet, op.answer = "none",
         ops' = [ops EXCEPT ![o] = op],
         NEW c \in CmdSet, c.op = o, WaitsFor(c, op), commands' = Append(commands, c),
         c.cmd # "start", c.cmd # "disk" => c.tab \in Tabs
  PROVE  /\ ops' \in [Slots -> {Idle} \cup OpSet] /\ commands' \in Seq(CmdSet)
         /\ CommandsInv' /\ ops'[o] = op /\ op # Idle /\ \A p \in Slots \ {o} : ops'[p] = ops[p]
         /\ Sends(c)
  <1>1. Unsent(o)
    BY NoCommand DEF IInv
  <1>2. ops' \in [Slots -> {Idle} \cup OpSet] /\ commands' \in Seq(CmdSet) /\ CommandsInv'
    BY <1>1, SendCommand DEF IInv
  <1>3. ops'[o] = op /\ op # Idle /\ \A p \in Slots \ {o} : ops'[p] = ops[p]
    BY OpIsNotIdle DEF IInv, TypeInv
  <1> QED BY <1>2, <1>3 DEF Sends

LEMMA SendInputIInv ==
  ASSUME IInv, NEW t \in Tabs, SendInput(t)
  PROVE  IInv'
  <1> USE DEF IInv
  <1>1. PICK o \in Slots : /\ ops[o] = Idle
                           /\ ops' = [ops EXCEPT ![o] = Op("input", "send", t, "none", "none", <<>>)]
                           /\ commands' = Append(commands, Command("input", t, "none", o))
                           /\ UNCHANGED <<sessions, row, info, active, backend, hasty>>
    BY DEF SendInput, Begin, window
  <1>2. PICK op, c : op = Op("input", "send", t, "none", "none", <<>>) /\ c = Command("input", t, "none", o)
    OBVIOUS
  <1>3. <<>> \in Seq(Tabs)
    OBVIOUS
  <1>4. op \in OpSet /\ op.what = "input" /\ op.tab = t /\ op.answer = "none" /\ op.at = "send"
    BY <1>2, <1>3 DEF Op, OpSet, TabsOrNone, AnyKind
  <1>5. c \in CmdSet /\ c.op = o /\ c.cmd = "input" /\ c.tab = t
    BY <1>2 DEF Command, CmdSet, TabsOrNone, AnyKind
  <1>6. WaitsFor(c, op) /\ ops' = [ops EXCEPT ![o] = op] /\ commands' = Append(commands, c)
    BY <1>1, <1>2, <1>4, <1>5 DEF WaitsFor
  <1>7. /\ ops' \in [Slots -> {Idle} \cup OpSet] /\ commands' \in Seq(CmdSet)
        /\ CommandsInv' /\ ops'[o] = op /\ op # Idle /\ \A p \in Slots \ {o} : ops'[p] = ops[p]
        /\ Sends(c)
    <2>1. c.cmd # "start" /\ (c.cmd # "disk" => c.tab \in Tabs) /\ ops[o] = Idle
      BY <1>1, <1>5
    <2> HIDE DEF IInv
    <2> QED BY <1>4, <1>5, <1>6, <2>1, BeginFacts
  <1>8. TypeInv'
    BY <1>1, <1>7 DEF TypeInv, Open, backend
  <1>9. OpsInv'
    BY <1>4, <1>7 DEF OpsInv
  <1>10. ActiveIsOpen'
    BY <1>1 DEF ActiveIsOpen, Open
  <1> QED BY <1>1, <1>4, <1>7, <1>8, <1>9, <1>10, QuietStep

LEMMA DiskIInv ==
  ASSUME IInv, NEW s \in Sessions,
         \/ \E kind \in EditKinds : EditSession(s, kind)
         \/ RemoveFolder(s)
  PROVE  IInv'
  <1> USE DEF IInv
  <1>1. PICK o, what, at, kind :
          /\ o \in Slots
          /\ \/ what = "edit" /\ at = "save" /\ kind \in EditKinds
             \/ what = "folder" /\ at = "delete" /\ kind = "none"
          /\ ops[o] = Idle
          /\ ops' = [ops EXCEPT ![o] = Op(what, at, "none", s, kind, <<>>)]
          /\ commands' = Append(commands, Command("disk", "none", "none", o))
          /\ UNCHANGED <<sessions, row, info, active, backend, hasty>>
    BY DEF EditSession, RemoveFolder, Begin, window
  <1>2. PICK op, c : op = Op(what, at, "none", s, kind, <<>>) /\ c = Command("disk", "none", "none", o)
    OBVIOUS
  <1>3. <<>> \in Seq(Tabs)
    OBVIOUS
  <1>4. /\ op \in OpSet /\ op.what = what /\ op.session = s /\ op.kind = kind
        /\ op.answer = "none" /\ op.at = at
    BY <1>1, <1>2, <1>3, TabsAssumption DEF Op, OpSet, TabsOrNone, AnyKind
  <1>5. c \in CmdSet /\ c.op = o /\ c.cmd = "disk"
    BY <1>1, <1>2 DEF Command, CmdSet, TabsOrNone, AnyKind
  <1>6. WaitsFor(c, op)
    BY <1>1, <1>4, <1>5 DEF WaitsFor
  <1>7. /\ ops' \in [Slots -> {Idle} \cup OpSet] /\ commands' \in Seq(CmdSet)
        /\ CommandsInv' /\ ops'[o] = op /\ op # Idle /\ \A p \in Slots \ {o} : ops'[p] = ops[p]
        /\ Sends(c)
    BY <1>1, <1>2, <1>4, <1>5, <1>6, BeginFacts
  <1>8. TypeInv'
    BY <1>1, <1>7 DEF TypeInv, Open, backend
  <1>9. OpsInv'
    BY <1>1, <1>4, <1>7 DEF OpsInv
  <1>10. ActiveIsOpen'
    BY <1>1 DEF ActiveIsOpen, Open
  <1> QED BY <1>1, <1>4, <1>7, <1>8, <1>9, <1>10, QuietStep

LEMMA StopOfFacts ==
  ASSUME NEW t \in Tabs, NEW o \in Slots \cup {0}, NEW c, c = StopOf(t, o)
  PROVE  c \in CmdSet /\ c.cmd = "stop" /\ c.tab = t /\ c.op = o
  BY DEF StopOf, Command, CmdSet, TabsOrNone, AnyKind

LEMMA OpenTab ==
  ASSUME IInv, NEW t \in Open
  PROVE  t \in Tabs /\ info[t] # NoTab /\ info[t] \in [session : Sessions, kind : Kinds]
         /\ info[t].session \in Sessions /\ info[t].kind \in Kinds
  <1>1. t \in Tabs
    BY LenProperties, ElementOfSeq DEF IInv, TypeInv, Open, ToSet
  <1>2. info[t] \in [session : Sessions, kind : Kinds]
    BY <1>1 DEF IInv, TypeInv
  <1> QED BY <1>1, <1>2 DEF IInv, TypeInv

LEMMA RestartTabIInv ==
  ASSUME IInv, NEW t \in Tabs, RestartTab(t)
  PROVE  IInv'
  <1>0. PICK s : s = info[t].session
    OBVIOUS
  <1>1. PICK o \in Slots :
          /\ s = info[t].session /\ t \in Open /\ IsTerminal(t) /\ sessions[s] \in Live /\ RunsLeft
          /\ ops[o] = Idle
          /\ ops' = [ops EXCEPT ![o] = Op("start", "stop", t, s, sessions[s], <<>>)]
          /\ commands' = Append(commands, StopOf(t, o))
          /\ hasty' = IF Removing(s) THEN hasty \cup {t} ELSE hasty
          /\ UNCHANGED <<sessions, row, info, active, backend>>
    BY <1>0 DEF RestartTab, Begin, window
  <1>2. PICK op, c : op = Op("start", "stop", t, s, sessions[s], <<>>) /\ c = StopOf(t, o)
    OBVIOUS
  <1>3. <<>> \in Seq(Tabs)
    OBVIOUS
  <1>4. s \in Sessions
    BY <1>1, OpenTab
  <1>5. /\ op \in OpSet /\ op.what = "start" /\ op.tab = t /\ op.kind \in Live
        /\ op.answer = "none" /\ op.at = "stop"
    BY <1>1, <1>2, <1>3, <1>4 DEF Op, OpSet, TabsOrNone, AnyKind, Kinds
  <1>6. c \in CmdSet /\ c.op = o /\ c.cmd = "stop" /\ c.tab = t
    BY <1>2, StopOfFacts
  <1>7. WaitsFor(c, op) /\ ops' = [ops EXCEPT ![o] = op] /\ commands' = Append(commands, c)
    BY <1>1, <1>2, <1>5, <1>6 DEF WaitsFor
  <1>8. /\ ops' \in [Slots -> {Idle} \cup OpSet] /\ commands' \in Seq(CmdSet)
        /\ CommandsInv' /\ ops'[o] = op /\ op # Idle /\ \A p \in Slots \ {o} : ops'[p] = ops[p]
        /\ Sends(c)
    <2>1. c.cmd # "start" /\ (c.cmd # "disk" => c.tab \in Tabs) /\ ops[o] = Idle
      BY <1>1, <1>6
    <2> QED BY <1>5, <1>6, <1>7, <2>1, BeginFacts
  <1>9. hasty \subseteq hasty'
    BY <1>1
  <1>10. /\ RunsInv' /\ SoloInv' /\ Launched' = Launched /\ main' = main
         /\ \A u : RunsIn(u)' => RunsIn(u)
         /\ \A i \in 1 .. Len(commands) : i \in 1 .. Len(commands') /\ commands'[i] = commands[i]
         /\ \A u : StopDue(u) => StopDue(u)'
         /\ main # 0 => commands'[1] = commands[1]
    BY <1>1, <1>8, <1>9, WindowStep DEF backend
  <1> USE DEF IInv
  <1>11. TypeInv' /\ ActiveIsOpen'
    <2>1. TypeInv'
      BY <1>1, <1>8 DEF TypeInv, Open, backend
    <2>2. ActiveIsOpen'
      BY <1>1, <1>9 DEF ActiveIsOpen, Open
    <2> QED BY <2>1, <2>2
  <1>12. OpsInv'
    BY <1>5, <1>8 DEF OpsInv
  <1>13. ASSUME NEW u, Starting(u)' PROVE Starting(u) \/ u = t
    <2>1. PICK p \in Slots : ops'[p] # Idle /\ ops'[p].what = "start" /\ ops'[p].tab = u
      BY <1>13 DEF Starting
    <2> QED BY <1>5, <1>8, <2>1 DEF Starting
  <1>14. TabInv' /\ NewInv'
    <2>1. Open' = Open /\ info' = info
      BY <1>1 DEF Open
    <2>2. TabInv'
      <3>1. \A u \in Tabs \ hasty' : /\ Starting(u)' => Terminal(u)
                                     /\ RunsIn(u)' => Terminal(u) \/ (u \notin Open /\ StopDue(u)')
        BY <1>1, <1>9, <1>10, <1>13 DEF TabInv, Terminal
      <3> QED BY <2>1, <3>1 DEF TabInv, Terminal, IsTerminal
    <2>3. NewInv'
      <3>1. info[t] # NoTab
        BY <1>1, OpenTab
      <3> QED BY <2>1, <3>1, <1>10, <1>13 DEF NewInv
    <2> QED BY <2>2, <2>3
  <1>15. RemovalInv'
    <2> SUFFICES ASSUME NEW p \in Slots, ops'[p] # Idle, ops'[p].what = "remove",
                        NEW u \in Open' \ hasty', info'[u].session = ops'[p].session
                 PROVE  /\ ~ Starting(u)'
                        /\ RunsIn(u)' => /\ ops'[p].at = "stop"
                                         /\ \/ u \in ToSet(ops'[p].todo)
                                            \/ \E i \in 1 .. Len(commands') : commands'[i] = StopOf(u, p)
      BY DEF RemovalInv, StopOf, Command
    <2>1. p # o /\ ops'[p] = ops[p]
      BY <1>5, <1>8
    <2>2. u \in Open \ hasty /\ info[u].session = ops[p].session
      BY <1>1, <1>9, <2>1 DEF Open
    <2>3. /\ ~ Starting(u)
          /\ RunsIn(u) => /\ ops[p].at = "stop"
                          /\ \/ u \in ToSet(ops[p].todo)
                             \/ \E i \in 1 .. Len(commands) : commands[i] = StopOf(u, p)
      BY <2>1, <2>2 DEF RemovalInv
    <2>4. u # t
      <3>1. SUFFICES ASSUME u = t PROVE FALSE
        OBVIOUS
      <3>2. Removing(s)
        BY <1>1, <2>1, <2>2, <3>1 DEF Removing, Busy
      <3> QED BY <1>1, <3>1, <3>2
    <2> QED BY <1>10, <1>13, <2>1, <2>3, <2>4
  <1>16. CountInv'
    <2>1. Coming' \subseteq Coming \cup {o}
      BY <1>8, <1>10 DEF Coming
    <2> QED BY <1>1, <1>10, <2>1, CountStart
  <1> QED BY <1>10, <1>8, <1>11, <1>12, <1>14, <1>15, <1>16

LEMMA OpenSessionIInv ==
  ASSUME IInv, NEW s \in Sessions, OpenSession(s)
  PROVE  IInv'
  <1>1. PICK t \in Tabs :
          /\ sessions[s] # Gone /\ info[t] = NoTab
          /\ row' = Append(row, t) /\ info' = [info EXCEPT ![t] = [session |-> s, kind |-> sessions[s]]]
          /\ active' = t
          /\ IF sessions[s] \notin Live THEN UNCHANGED ops
             ELSE RunsLeft /\ \E o \in Slots : Begin(o, Op("start", "paint", t, s, sessions[s], <<>>))
          /\ hasty' = IF Removing(s) THEN hasty \cup {t} ELSE hasty
          /\ UNCHANGED <<sessions, commands, backend>>
    BY DEF OpenSession
  <1>2. t \notin Open /\ sessions[s] \in Kinds
    BY <1>1 DEF IInv, TypeInv
  <1>3. /\ row' \in Seq(Tabs) /\ IsInjective(row') /\ \A u : u \in Open' <=> u \in Open \/ u = t
    <2>1. PICK p, q : p = row /\ q = Append(p, t)
      OBVIOUS
    <2>2. p \in Seq(Tabs) /\ IsInjective(p) /\ t \notin ToSet(p)
      BY <1>2, <2>1 DEF IInv, TypeInv, Open
    <2>3. q \in Seq(Tabs) /\ IsInjective(q) /\ \A x : x \in ToSet(q) <=> x \in ToSet(p) \/ x = t
      <3>1. t \in Tabs /\ q = Append(p, t) /\ p \in Seq(Tabs) /\ IsInjective(p) /\ t \notin ToSet(p)
        BY <2>1, <2>2
      <3> QED BY <3>1, AppendNew
    <2> QED BY <1>1, <2>1, <2>3 DEF Open
  <1>4. /\ info' \in [Tabs -> [session : Sessions, kind : Kinds] \cup {NoTab}]
        /\ info'[t].session = s /\ info'[t].kind = sessions[s] /\ info'[t] # NoTab
        /\ \A u \in Tabs \ {t} : info'[u] = info[u]
    <2>1. PICK n : n = [session |-> s, kind |-> sessions[s]]
      OBVIOUS
    <2>2. n \in [session : Sessions, kind : Kinds] /\ n.session = s /\ n.kind = sessions[s]
      BY <1>2, <2>1
    <2>3. n # NoTab
      BY <2>2, <1>2 DEF NoTab, Kinds, Live
    <2> QED BY <1>1, <2>1, <2>2, <2>3 DEF IInv, TypeInv
  <1>5. hasty \subseteq hasty' /\ UNCHANGED <<main, registry, runs>>
    BY <1>1 DEF backend
  <1>6. /\ RunsInv' /\ SoloInv' /\ Launched' = Launched
        /\ \A u : RunsIn(u)' => RunsIn(u)
        /\ \A u : StopDue(u) => StopDue(u)'
    BY <1>1, <1>5, WindowStep
  <1>7. /\ ops' \in [Slots -> {Idle} \cup OpSet] /\ CommandsInv' /\ OpsInv' /\ CountInv'
        /\ \A p \in Slots : ops'[p] = ops[p] \/ (/\ ops'[p].what = "start" /\ ops'[p].tab = t
                                                 /\ sessions[s] \in Live)
    <2>1. CASE sessions[s] \notin Live
      <3>1. ops' = ops /\ commands' = commands /\ main' = main
        BY <1>1, <1>5, <2>1
      <3>2. ops' \in [Slots -> {Idle} \cup OpSet] /\ CommandsInv' /\ OpsInv'
        BY <3>1 DEF IInv, TypeInv, CommandsInv, OpsInv
      <3>3. Coming' = Coming
        BY <3>1 DEF Coming
      <3> QED BY <1>6, <3>1, <3>2, <3>3, CountKept DEF IInv
    <2>2. CASE sessions[s] \in Live
      <3>0. PICK op : op = Op("start", "paint", t, s, sessions[s], <<>>)
        OBVIOUS
      <3>1. PICK o \in Slots : /\ RunsLeft /\ ops[o] = Idle /\ ops' = [ops EXCEPT ![o] = op]
                               /\ op = Op("start", "paint", t, s, sessions[s], <<>>)
        BY <1>1, <2>2, <3>0 DEF Begin
      <3>2. <<>> \in Seq(Tabs)
        OBVIOUS
      <3>3. op \in OpSet /\ op.what = "start" /\ op.tab = t /\ op.kind \in Live
        BY <2>2, <3>1, <3>2 DEF Op, OpSet, TabsOrNone, AnyKind, Kinds
      <3>4. ops'[o] = op /\ \A p \in Slots \ {o} : ops'[p] = ops[p]
        BY <3>1 DEF IInv, TypeInv
      <3>5. ops' \in [Slots -> {Idle} \cup OpSet] /\ CommandsInv'
        <4>1. Unsent(o)
          BY <3>1, NoCommand DEF IInv
        <4> QED BY <1>1, <3>1, <3>3, <4>1, StepOn DEF IInv
      <3>6. OpsInv'
        BY <3>3, <3>4 DEF IInv, OpsInv
      <3>7. Coming' \subseteq Coming \cup {o}
        BY <1>1, <1>5, <3>4 DEF Coming
      <3>8. CountInv'
        BY <1>6, <3>1, <3>7, CountStart
      <3> QED BY <2>2, <3>3, <3>4, <3>5, <3>6, <3>8
    <2> QED BY <2>1, <2>2
  <1>8. TypeInv'
    <2>1. \A u \in Open' : info'[u] # NoTab
      <3>1. \A u \in Open : u \in Tabs /\ info[u] # NoTab
        BY OpenTab
      <3> QED BY <1>3, <1>4, <3>1
    <2> QED BY <1>1, <1>3, <1>4, <1>5, <1>7, <2>1 DEF IInv, TypeInv
  <1>9. ActiveIsOpen'
    BY <1>1, <1>3 DEF ActiveIsOpen
  <1>10. ASSUME NEW u, Starting(u)' PROVE Starting(u) \/ (u = t /\ sessions[s] \in Live)
    BY <1>7, <1>10 DEF Starting
  <1>11. \A u \in Tabs \ {t} : Terminal(u) <=> Terminal(u)'
    BY <1>3, <1>4 DEF Terminal, IsTerminal
  <1>12. sessions[s] \in Live => Terminal(t)'
    BY <1>3, <1>4 DEF Terminal, IsTerminal
  <1>13. ~ Starting(t) /\ ~ RunsIn(t)
    BY <1>1 DEF IInv, NewInv
  <1>14. TabInv'
    <2> SUFFICES ASSUME NEW u \in Tabs \ hasty'
                 PROVE  /\ Starting(u)' => Terminal(u)'
                        /\ RunsIn(u)' => Terminal(u)' \/ (u \notin Open' /\ StopDue(u)')
      BY DEF TabInv
    <2>1. CASE u = t
      BY <1>6, <1>10, <1>12, <1>13, <2>1
    <2>2. CASE u # t
      <3>1. /\ Starting(u) => Terminal(u)
            /\ RunsIn(u) => Terminal(u) \/ (u \notin Open /\ StopDue(u))
        BY <1>5 DEF IInv, TabInv
      <3> QED BY <1>3, <1>6, <1>10, <1>11, <2>2, <3>1
    <2> QED BY <2>1, <2>2
  <1>15. NewInv'
    BY <1>4, <1>6, <1>10 DEF IInv, NewInv
  <1>16. RemovalInv'
    <2> SUFFICES ASSUME NEW p \in Slots, ops'[p] # Idle, ops'[p].what = "remove",
                        NEW u \in Open' \ hasty', info'[u].session = ops'[p].session
                 PROVE  /\ ~ Starting(u)'
                        /\ RunsIn(u)' => /\ ops'[p].at = "stop"
                                         /\ \/ u \in ToSet(ops'[p].todo)
                                            \/ \E i \in 1 .. Len(commands') : commands'[i] = StopOf(u, p)
      BY DEF RemovalInv, StopOf, Command
    <2>1. ops'[p] = ops[p]
      BY <1>7
    <2>2. u # t
      <3>1. SUFFICES ASSUME u = t PROVE FALSE
        OBVIOUS
      <3>2. Removing(s)
        BY <1>4, <2>1, <3>1 DEF Removing, Busy
      <3> QED BY <1>1, <3>1, <3>2
    <2>3. u \in Open \ hasty /\ info[u].session = ops[p].session
      <3>1. u \in Open
        BY <1>3, <2>2
      <3>2. u \in Tabs
        BY <3>1, OpenTab
      <3> QED BY <1>4, <1>5, <2>1, <2>2, <3>1, <3>2
    <2>4. /\ ~ Starting(u)
          /\ RunsIn(u) => /\ ops[p].at = "stop"
                          /\ \/ u \in ToSet(ops[p].todo)
                             \/ \E i \in 1 .. Len(commands) : commands[i] = StopOf(u, p)
      BY <2>1, <2>3 DEF IInv, RemovalInv
    <2> QED BY <1>1, <1>6, <1>10, <2>1, <2>2, <2>4
  <1> QED BY <1>6, <1>7, <1>8, <1>9, <1>14, <1>15, <1>16 DEF IInv

LEMMA TakenAway ==
  ASSUME IInv, NEW gone, row' = Only(row, Open \ gone)
  PROVE  /\ row' \in Seq(Tabs) /\ IsInjective(row')
         /\ \A u : u \in Open' <=> u \in Open /\ u \notin gone
         /\ row' # <<>> => Last(row') \in Open' /\ Head(row') \in Open'
  <1>1. PICK p, q, S : p = row /\ S = Open \ gone /\ q = Only(p, S)
    OBVIOUS
  <1>2. p \in Seq(Tabs) /\ IsInjective(p)
    BY <1>1 DEF IInv, TypeInv
  <1>3. q \in Seq(Tabs) /\ IsInjective(q) /\ \A x : x \in ToSet(q) <=> x \in ToSet(p) /\ x \in S
    BY <1>2, <1>1, OnlyFacts
  <1>4. ASSUME q # <<>> PROVE Last(q) \in ToSet(q) /\ Head(q) \in ToSet(q)
    <2>1. Len(q) \in Nat /\ Len(q) # 0 /\ DOMAIN q = 1 .. Len(q)
      BY <1>3, <1>4, EmptySeq, LenProperties
    <2>2. Head(q) = q[1] /\ Last(q) = q[Len(q)] /\ 1 \in DOMAIN q /\ Len(q) \in DOMAIN q
      BY <1>3, <1>4, <2>1, HeadTailProperties DEF Last
    <2> QED BY <2>2 DEF ToSet
  <1> QED BY <1>1, <1>3, <1>4 DEF Open

LEMMA CloseTabIInv ==
  ASSUME IInv, NEW t \in Tabs, CloseTab(t)
  PROVE  IInv'
  <1>1. /\ t \in Open /\ row' = Only(row, Open \ {t})
        /\ active' = IF active # t THEN active ELSE IF row' = <<>> THEN Welcome ELSE Last(row')
        /\ commands' = IF IsTerminal(t) THEN Append(commands, StopOf(t, 0)) ELSE commands
        /\ hasty' = IF Owed(t) = {} THEN hasty ELSE hasty \cup {t}
        /\ UNCHANGED <<sessions, info, ops, backend>>
    BY DEF CloseTab
  <1>2. /\ row' \in Seq(Tabs) /\ IsInjective(row')
        /\ \A u : u \in Open' <=> u \in Open /\ u # t
        /\ row' # <<>> => Last(row') \in Open'
    BY <1>1, TakenAway
  <1>3. PICK c : c = StopOf(t, 0)
    OBVIOUS
  <1>4. c \in CmdSet /\ c.cmd = "stop" /\ c.tab = t /\ c.op = 0
    BY <1>3, StopOfFacts
  <1>5. commands' = commands \/ Sends(c)
    BY <1>1, <1>3, <1>4 DEF Sends
  <1>6. hasty \subseteq hasty'
    BY <1>1
  <1>7. /\ RunsInv' /\ SoloInv' /\ Launched' = Launched /\ main' = main
        /\ \A u : RunsIn(u)' => RunsIn(u)
        /\ \A i \in 1 .. Len(commands) : i \in 1 .. Len(commands') /\ commands'[i] = commands[i]
        /\ \A u : StopDue(u) => StopDue(u)'
        /\ main # 0 => commands'[1] = commands[1]
    BY <1>1, <1>5, <1>6, WindowStep DEF backend
  <1>8. /\ commands' \in Seq(CmdSet) /\ CommandsInv'
        /\ IsTerminal(t) => StopDue(t)'
    <2>1. CASE ~ IsTerminal(t)
      BY <1>1, <2>1 DEF IInv, TypeInv, CommandsInv
    <2>2. CASE IsTerminal(t)
      <3>1. PICK q : q = commands'
        OBVIOUS
      <3>2. /\ q \in Seq(CmdSet) /\ Len(commands) \in Nat
            /\ \A i \in 1 .. Len(commands) : q[i] = commands[i]
            /\ Len(commands) + 1 \in 1 .. Len(q) /\ q[Len(commands) + 1] = c
            /\ \A i \in 1 .. Len(q) : i \in 1 .. Len(commands) \/ i = Len(commands) + 1
        BY <1>1, <1>3, <1>4, <2>2, <3>1, SentFacts DEF IInv, TypeInv
      <3>3. ASSUME NEW i \in 1 .. Len(q)
            PROVE  /\ q[i].cmd = "start" => q[i].kind \in AnyLive
                   /\ q[i].cmd # "disk" => q[i].tab \in Tabs
                   /\ q[i].op = 0 => q[i].cmd = "stop"
                   /\ q[i].op # 0 => /\ ops[q[i].op] # Idle
                                     /\ ops[q[i].op].answer = "none"
                                     /\ WaitsFor(q[i], ops[q[i].op])
        <4>1. CASE i \in 1 .. Len(commands)
          BY <3>2, <4>1 DEF IInv, CommandsInv
        <4>2. CASE i = Len(commands) + 1
          BY <1>4, <3>2, <4>2
        <4> QED BY <3>2, <4>1, <4>2
      <3>4. \A i, j \in 1 .. Len(q) : q[i].op = q[j].op /\ q[i].op # 0 => i = j
        BY <1>4, <3>2 DEF IInv, CommandsInv
      <3>5. CommandsInv'
        BY <1>1, <3>1, <3>3, <3>4 DEF CommandsInv
      <3>6. StopDue(t)'
        BY <1>4, <3>1, <3>2 DEF StopDue
      <3> QED BY <3>1, <3>2, <3>5, <3>6
    <2> QED BY <2>1, <2>2
  <1>9. TypeInv'
    BY <1>1, <1>2, <1>8 DEF IInv, TypeInv, backend
  <1>10. OpsInv'
    BY <1>1 DEF IInv, OpsInv
  <1>11. ActiveIsOpen'
    BY <1>1, <1>2, <1>6 DEF IInv, ActiveIsOpen
  <1>12. \A u : Starting(u)' <=> Starting(u)
    BY <1>1 DEF Starting
  <1>13. TabInv'
    <2> SUFFICES ASSUME NEW u \in Tabs \ hasty'
                 PROVE  /\ Starting(u)' => Terminal(u)'
                        /\ RunsIn(u)' => Terminal(u)' \/ (u \notin Open' /\ StopDue(u)')
      BY DEF TabInv
    <2>1. /\ Starting(u) => Terminal(u)
          /\ RunsIn(u) => Terminal(u) \/ (u \notin Open /\ StopDue(u))
      BY <1>6 DEF IInv, TabInv
    <2>2. CASE u = t
      <3>1. ~ Starting(t)
        BY <1>1, <2>2 DEF Owed, Busy, Starting
      <3>2. RunsIn(t)' => StopDue(t)' /\ t \notin Open'
        BY <1>1, <1>2, <1>7, <1>8, <2>1, <2>2 DEF Terminal
      <3> QED BY <1>12, <2>2, <3>1, <3>2
    <2>3. CASE u # t
      <3>1. Terminal(u)' <=> Terminal(u)
        BY <1>1, <1>2, <2>3 DEF Terminal, IsTerminal
      <3> QED BY <1>2, <1>7, <1>12, <2>1, <2>3, <3>1
    <2> QED BY <2>2, <2>3
  <1>14. NewInv'
    BY <1>1, <1>7, <1>12 DEF IInv, NewInv
  <1>15. RemovalInv'
    <2> SUFFICES ASSUME NEW p \in Slots, ops'[p] # Idle, ops'[p].what = "remove",
                        NEW u \in Open' \ hasty', info'[u].session = ops'[p].session
                 PROVE  /\ ~ Starting(u)'
                        /\ RunsIn(u)' => /\ ops'[p].at = "stop"
                                         /\ \/ u \in ToSet(ops'[p].todo)
                                            \/ \E i \in 1 .. Len(commands') : commands'[i] = StopOf(u, p)
      BY DEF RemovalInv, StopOf, Command
    <2>1. u \in Open \ hasty /\ info[u].session = ops[p].session /\ ops'[p] = ops[p]
      BY <1>1, <1>2, <1>6
    <2>2. /\ ~ Starting(u)
          /\ RunsIn(u) => /\ ops[p].at = "stop"
                          /\ \/ u \in ToSet(ops[p].todo)
                             \/ \E i \in 1 .. Len(commands) : commands[i] = StopOf(u, p)
      BY <2>1 DEF IInv, RemovalInv
    <2> QED BY <1>7, <1>12, <2>1, <2>2
  <1>16. CountInv'
    <2>1. Coming' \subseteq Coming
      BY <1>1, <1>7 DEF Coming
    <2> QED BY <1>7, <2>1, CountKept DEF IInv
  <1> QED BY <1>7, <1>8, <1>9, <1>10, <1>11, <1>13, <1>14, <1>15, <1>16 DEF IInv

(* The next terminal of a removal is stopped, or its session is deleted.   *)
LEMMA NextStopIInv ==
  ASSUME IInv, NEW o \in Slots, Unsent(o), ops[o] = Idle \/ ops[o].what = "remove",
         NEW s \in Sessions, NEW todo \in Seq(Tabs), NextStop(o, s, todo),
         UNCHANGED <<window, backend>>, hasty \subseteq hasty',
         \A t \in Open \ hasty' : info[t].session = s =>
            ~ Starting(t) /\ (RunsIn(t) => t \in ToSet(todo))
  PROVE  IInv'
  <1>1. UNCHANGED <<sessions, row, info, active, main, registry, runs>>
    BY DEF window, backend
  <1>2. PICK op, c :
          /\ ops' = [ops EXCEPT ![o] = op] /\ op \in OpSet /\ op.what = "remove" /\ op.session = s
          /\ op.answer = "none" /\ c \in CmdSet /\ c.op = o /\ c.cmd # "start"
          /\ commands' = Append(commands, c) /\ WaitsFor(c, op) /\ (c.cmd # "disk" => c.tab \in Tabs)
          /\ \A t \in ToSet(todo) : op.at = "stop" /\ (t \in ToSet(op.todo) \/ c = StopOf(t, o))
    <2>1. CASE todo = <<>>
      <3>1. PICK op, c : op = Op("remove", "delete", "none", s, "none", <<>>) /\ c = Command("disk", "none", "none", o)
        OBVIOUS
      <3>2. <<>> \in Seq(Tabs) /\ ToSet(todo) = {}
        BY <2>1 DEF ToSet
      <3>3. /\ op \in OpSet /\ op.what = "remove" /\ op.session = s /\ op.answer = "none" /\ op.at = "delete"
        BY <3>1, <3>2 DEF Op, OpSet, TabsOrNone, AnyKind
      <3>4. c \in CmdSet /\ c.op = o /\ c.cmd = "disk"
        BY <3>1 DEF Command, CmdSet, TabsOrNone, AnyKind
      <3>5. WaitsFor(c, op)
        BY <3>3, <3>4 DEF WaitsFor
      <3>6. ops' = [ops EXCEPT ![o] = op] /\ commands' = Append(commands, c)
        BY <2>1, <3>1 DEF NextStop
      <3> QED BY <3>2, <3>3, <3>4, <3>5, <3>6
    <2>2. CASE todo # <<>>
      <3>1. PICK op, c, h, r : /\ h = Head(todo) /\ r = Tail(todo)
                               /\ op = Op("remove", "stop", "none", s, "none", r) /\ c = StopOf(h, o)
        OBVIOUS
      <3>2. /\ r \in Seq(Tabs) /\ h \in Tabs
            /\ \A t \in ToSet(todo) : t = h \/ t \in ToSet(r)
        <4>1. /\ Len(todo) \in Nat /\ Len(todo) # 0 /\ DOMAIN todo = 1 .. Len(todo)
              /\ h = todo[1] /\ h \in Tabs
              /\ r \in Seq(Tabs) /\ Len(r) = Len(todo) - 1 /\ \A i \in 1 .. Len(r) : r[i] = todo[i + 1]
          BY <2>2, <3>1, EmptySeq, LenProperties, HeadTailProperties
        <4>2. DOMAIN r = 1 .. Len(r)
          BY <4>1, LenProperties
        <4>3. ASSUME NEW i \in 1 .. Len(todo), i # 1 PROVE todo[i] \in ToSet(r)
          <5>1. i - 1 \in 1 .. Len(r) /\ (i - 1) + 1 = i
            BY <4>1, <4>3
          <5>2. r[i - 1] = todo[i]
            BY <4>1, <5>1
          <5> QED BY <4>2, <5>1, <5>2 DEF ToSet
        <4> QED BY <4>1, <4>3 DEF ToSet
      <3>3. /\ op \in OpSet /\ op.what = "remove" /\ op.session = s /\ op.answer = "none" /\ op.at = "stop"
            /\ op.todo = r
        BY <3>1, <3>2 DEF Op, OpSet, TabsOrNone, AnyKind
      <3>4. c \in CmdSet /\ c.op = o /\ c.cmd = "stop" /\ c.tab = h
        BY <3>1, <3>2, StopOfFacts
      <3>5. WaitsFor(c, op)
        BY <3>3, <3>4 DEF WaitsFor
      <3>6. ops' = [ops EXCEPT ![o] = op] /\ commands' = Append(commands, c)
        BY <2>2, <3>1 DEF NextStop
      <3> QED BY <3>1, <3>2, <3>3, <3>4, <3>5, <3>6
    <2> QED BY <2>1, <2>2
  <1>3. ops' \in [Slots -> {Idle} \cup OpSet] /\ commands' \in Seq(CmdSet) /\ CommandsInv'
    BY <1>2, SendCommand DEF IInv
  <1>4. ops'[o] = op /\ op # Idle /\ \A p \in Slots \ {o} : ops'[p] = ops[p]
    BY <1>2, OpIsNotIdle DEF IInv, TypeInv
  <1>5. Sends(c)
    BY <1>2 DEF Sends
  <1>6. /\ RunsInv' /\ SoloInv' /\ Launched' = Launched
        /\ \A u : RunsIn(u)' => RunsIn(u)
        /\ \A i \in 1 .. Len(commands) : i \in 1 .. Len(commands') /\ commands'[i] = commands[i]
        /\ \A u : StopDue(u) => StopDue(u)'
        /\ main # 0 => commands'[1] = commands[1]
    BY <1>1, <1>5, WindowStep
  <1>7. TypeInv' /\ OpsInv' /\ ActiveIsOpen'
    <2>1. TypeInv'
      BY <1>1, <1>3 DEF IInv, TypeInv, Open
    <2>2. OpsInv'
      BY <1>2, <1>4 DEF IInv, OpsInv
    <2>3. ActiveIsOpen'
      BY <1>1 DEF IInv, ActiveIsOpen, Open
    <2> QED BY <2>1, <2>2, <2>3
  <1>8. \A u : Starting(u)' => Starting(u)
    BY <1>2, <1>4 DEF Starting
  <1>9. TabInv' /\ NewInv'
    <2>1. \A u \in Tabs \ hasty' : /\ Starting(u) => Terminal(u)
                                   /\ RunsIn(u) => Terminal(u) \/ (u \notin Open /\ StopDue(u))
      BY DEF IInv, TabInv
    <2>2. TabInv'
      BY <1>1, <1>6, <1>8, <2>1 DEF TabInv, Terminal, Open, IsTerminal
    <2>3. NewInv'
      BY <1>1, <1>6, <1>8 DEF IInv, NewInv
    <2> QED BY <2>2, <2>3
  <1>10. RemovalInv'
    <2> SUFFICES ASSUME NEW p \in Slots, ops'[p] # Idle, ops'[p].what = "remove",
                        NEW u \in Open' \ hasty', info'[u].session = ops'[p].session
                 PROVE  /\ ~ Starting(u)'
                        /\ RunsIn(u)' => /\ ops'[p].at = "stop"
                                         /\ \/ u \in ToSet(ops'[p].todo)
                                            \/ \E i \in 1 .. Len(commands') : commands'[i] = StopOf(u, p)
      BY DEF RemovalInv, StopOf, Command
    <2>1. u \in Open \ hasty /\ info[u].session = ops'[p].session
      BY <1>1 DEF Open
    <2>2. CASE p # o
      <3>1. ops'[p] = ops[p]
        BY <1>4, <2>2
      <3>2. /\ ~ Starting(u)
            /\ RunsIn(u) => /\ ops[p].at = "stop"
                            /\ \/ u \in ToSet(ops[p].todo)
                               \/ \E i \in 1 .. Len(commands) : commands[i] = StopOf(u, p)
        BY <2>1, <3>1 DEF IInv, RemovalInv
      <3> QED BY <1>6, <1>8, <3>1, <3>2
    <2>3. CASE p = o
      <3>1. ~ Starting(u) /\ (RunsIn(u) => u \in ToSet(todo))
        BY <1>2, <1>4, <2>1, <2>3
      <3>2. \E i \in 1 .. Len(commands') : commands'[i] = c
        <4>1. commands \in Seq(CmdSet)
          BY DEF IInv, TypeInv
        <4> QED BY <1>2, <4>1, SentFacts
      <3> QED BY <1>2, <1>4, <1>6, <1>8, <2>3, <3>1, <3>2
    <2> QED BY <2>2, <2>3
  <1>11. CountInv'
    <2>1. Coming' \subseteq Coming
      BY <1>1, <1>2, <1>4, <1>6 DEF Coming
    <2> QED BY <1>6, <2>1, CountKept DEF IInv
  <1> QED BY <1>3, <1>6, <1>7, <1>9, <1>10, <1>11 DEF IInv

LEMMA RemoveSessionIInv ==
  ASSUME IInv, NEW s \in Sessions, RemoveSession(s)
  PROVE  IInv'
  <1>0. PICK todo : todo = Only(row, {t \in TabsOf(s) : IsTerminal(t)})
    OBVIOUS
  <1>1. PICK o \in Slots :
          /\ todo = Only(row, {t \in TabsOf(s) : IsTerminal(t)})
          /\ ops[o] = Idle /\ NextStop(o, s, todo)
          /\ hasty' = hasty \cup {t \in TabsOf(s) : Owed(t) # {}}
          /\ UNCHANGED <<window, backend>>
    BY <1>0 DEF RemoveSession
  <1>2. Unsent(o)
    BY <1>1, NoCommand DEF IInv
  <1>3. PICK S : S = {t \in TabsOf(s) : IsTerminal(t)}
    OBVIOUS
  <1>4. todo \in Seq(Tabs) /\ \A x : x \in ToSet(todo) <=> x \in Open /\ x \in S
    <2>1. PICK p : p = row
      OBVIOUS
    <2>2. p \in Seq(Tabs) /\ IsInjective(p) /\ todo = Only(p, S)
      BY <1>1, <1>3, <2>1 DEF IInv, TypeInv
    <2> QED BY <2>1, <2>2, OnlyFacts DEF Open
  <1>5. ASSUME NEW t \in Open \ hasty', info[t].session = s
        PROVE  ~ Starting(t) /\ (RunsIn(t) => t \in ToSet(todo))
    <2>1. t \in TabsOf(s) /\ t \in Tabs \ hasty
      BY <1>1, <1>5, OpenTab DEF TabsOf
    <2>2. ~ Starting(t)
      BY <1>1, <1>5, <2>1 DEF Owed, Busy, Starting
    <2>3. RunsIn(t) => IsTerminal(t)
      BY <1>5, <2>1 DEF IInv, TabInv, Terminal
    <2> QED BY <1>3, <1>4, <1>5, <2>1, <2>2, <2>3
  <1> QED BY <1>1, <1>2, <1>4, <1>5, NextStopIInv

LEMMA RemoveContinuesIInv ==
  ASSUME IInv, NEW o \in Slots, RemoveContinues(o)
  PROVE  IInv'
  <1>1. /\ ops[o] # Idle /\ ops[o].what = "remove" /\ ops[o].at = "stop" /\ ops[o].answer # "none"
        /\ NextStop(o, ops[o].session, ops[o].todo)
        /\ UNCHANGED <<window, backend, hasty>>
    BY DEF RemoveContinues, Answered, Waits
  <1>2. Unsent(o)
    BY <1>1, NoCommand DEF IInv
  <1>3. PICK s, todo : s = ops[o].session /\ todo = ops[o].todo
    OBVIOUS
  <1>4. s \in Sessions /\ todo \in Seq(Tabs)
    <2>1. ops[o] \in OpSet
      BY <1>1 DEF IInv, TypeInv
    <2> QED BY <1>1, <1>3, <2>1 DEF IInv, OpsInv, OpSet
  <1>5. ASSUME NEW t \in Open \ hasty, info[t].session = s
        PROVE  ~ Starting(t) /\ (RunsIn(t) => t \in ToSet(todo))
    <2>1. /\ ~ Starting(t)
          /\ RunsIn(t) => /\ ops[o].at = "stop"
                          /\ \/ t \in ToSet(todo)
                             \/ \E i \in 1 .. Len(commands) : commands[i] = StopOf(t, o)
      BY <1>1, <1>3, <1>5 DEF IInv, RemovalInv
    <2>2. \A i \in 1 .. Len(commands) : commands[i] # StopOf(t, o)
      BY <1>2 DEF Unsent, StopOf, Command
    <2> QED BY <2>1, <2>2
  <1> QED BY <1>1, <1>2, <1>3, <1>4, <1>5, NextStopIInv

LEMMA SessionRemovedIInv ==
  ASSUME IInv, NEW o \in Slots, SessionRemoved(o)
  PROVE  IInv'
  <1>1. PICK s, gone :
          /\ s = ops[o].session /\ gone = TabsOf(s)
          /\ ops[o] # Idle /\ ops[o].what = "remove" /\ ops[o].at = "delete" /\ ops[o].answer # "none"
          /\ sessions' = [sessions EXCEPT ![s] = Gone]
          /\ row' = Only(row, Open \ gone)
          /\ active' = IF active \notin gone THEN active ELSE IF row' = <<>> THEN Welcome ELSE Head(row')
          /\ ops' = [ops EXCEPT ![o] = Idle]
          /\ UNCHANGED <<info, commands, backend, hasty>>
    BY DEF SessionRemoved, Granted, Waits, Finish
  <1>2. /\ row' \in Seq(Tabs) /\ IsInjective(row')
        /\ \A u : u \in Open' <=> u \in Open /\ u \notin gone
        /\ row' # <<>> => Head(row') \in Open'
    BY <1>1, TakenAway
  <1>3. ops'[o] = Idle /\ \A p \in Slots \ {o} : ops'[p] = ops[p]
    BY <1>1 DEF IInv, TypeInv
  <1>4. ops' \in [Slots -> {Idle} \cup OpSet] /\ CommandsInv'
    <2>1. Unsent(o)
      BY <1>1, NoCommand DEF IInv
    <2> QED BY <1>1, <2>1, StepOn DEF IInv
  <1>5. /\ RunsInv' /\ SoloInv' /\ Launched' = Launched
        /\ \A u : RunsIn(u)' => RunsIn(u)
        /\ \A u : StopDue(u) => StopDue(u)'
    BY <1>1, WindowStep
  <1>6. TypeInv'
    <2>1. sessions' \in [Sessions -> Kinds \cup {Gone}]
      BY <1>1 DEF IInv, TypeInv
    <2> QED BY <1>1, <1>2, <1>4, <2>1 DEF IInv, TypeInv, backend
  <1>7. OpsInv'
    BY <1>3 DEF IInv, OpsInv
  <1>8. ActiveIsOpen'
    BY <1>1, <1>2 DEF IInv, ActiveIsOpen
  <1>9. \A u : Starting(u)' => Starting(u)
    BY <1>3 DEF Starting
  <1>10. \A u \in gone \ hasty : ~ Starting(u) /\ ~ RunsIn(u)
    BY <1>1 DEF IInv, RemovalInv, TabsOf
  <1>11. TabInv'
    <2> SUFFICES ASSUME NEW u \in Tabs \ hasty
                 PROVE  /\ Starting(u)' => Terminal(u)'
                        /\ RunsIn(u)' => Terminal(u)' \/ (u \notin Open' /\ StopDue(u)')
      BY <1>1 DEF TabInv
    <2>1. /\ Starting(u) => Terminal(u)
          /\ RunsIn(u) => Terminal(u) \/ (u \notin Open /\ StopDue(u))
      BY DEF IInv, TabInv
    <2>2. CASE u \in gone
      BY <1>5, <1>9, <1>10, <2>2
    <2>3. CASE u \notin gone
      <3>1. Terminal(u)' <=> Terminal(u)
        BY <1>1, <1>2, <2>3 DEF Terminal, IsTerminal
      <3> QED BY <1>2, <1>5, <1>9, <2>1, <2>3, <3>1
    <2> QED BY <2>2, <2>3
  <1>12. NewInv'
    BY <1>1, <1>5, <1>9 DEF IInv, NewInv
  <1>13. RemovalInv'
    <2> SUFFICES ASSUME NEW p \in Slots, ops'[p] # Idle, ops'[p].what = "remove",
                        NEW u \in Open' \ hasty', info'[u].session = ops'[p].session
                 PROVE  /\ ~ Starting(u)'
                        /\ RunsIn(u)' => /\ ops'[p].at = "stop"
                                         /\ \/ u \in ToSet(ops'[p].todo)
                                            \/ \E i \in 1 .. Len(commands') : commands'[i] = StopOf(u, p)
      BY DEF RemovalInv, StopOf, Command
    <2>1. u \in Open \ hasty /\ ops'[p] = ops[p] /\ info[u].session = ops[p].session
      BY <1>1, <1>2, <1>3
    <2>2. /\ ~ Starting(u)
          /\ RunsIn(u) => /\ ops[p].at = "stop"
                          /\ \/ u \in ToSet(ops[p].todo)
                             \/ \E i \in 1 .. Len(commands) : commands[i] = StopOf(u, p)
      BY <2>1 DEF IInv, RemovalInv
    <2> QED BY <1>1, <1>5, <1>9, <2>1, <2>2
  <1>14. CountInv'
    <2>1. Coming' \subseteq Coming
      BY <1>1, <1>3 DEF Coming, backend
    <2> QED BY <1>5, <2>1, CountKept DEF IInv
  <1> QED BY <1>4, <1>5, <1>6, <1>7, <1>8, <1>11, <1>12, <1>13, <1>14 DEF IInv

LEMMA SessionEditedIInv ==
  ASSUME IInv, NEW o \in Slots, SessionEdited(o)
  PROVE  IInv'
  <1>0. PICK s, kind, its : s = ops[o].session /\ kind = ops[o].kind /\ its = TabsOf(s)
    OBVIOUS
  <1>1.   /\ s = ops[o].session /\ kind = ops[o].kind /\ its = TabsOf(s)
          /\ ops[o] # Idle /\ ops[o].what = "edit" /\ ops[o].answer # "none"
          /\ sessions' = [sessions EXCEPT ![s] = kind]
          /\ info' = [t \in Tabs |-> IF t \in its THEN [info[t] EXCEPT !.kind = kind] ELSE info[t]]
          /\ hasty' = IF kind \in Live THEN hasty ELSE hasty \cup {t \in its : IsTerminal(t)}
          /\ ops' = [ops EXCEPT ![o] = Idle]
          /\ UNCHANGED <<row, active, commands, backend>>
    BY <1>0 DEF SessionEdited, Granted, Waits, Finish
  <1>2. kind \in Kinds
    BY <1>1, TabsAssumption DEF IInv, OpsInv
  <1>3. /\ info' \in [Tabs -> [session : Sessions, kind : Kinds] \cup {NoTab}]
        /\ \A u \in Tabs : /\ info'[u] = NoTab <=> info[u] = NoTab
                           /\ info'[u].session = info[u].session
                           /\ u \notin its => info'[u] = info[u]
                           /\ u \in its => info'[u].kind = kind
    <2>1. ASSUME NEW u \in its
          PROVE  u \in Tabs /\ info[u] # NoTab /\ info[u] \in [session : Sessions, kind : Kinds]
      BY <1>1, <2>1, OpenTab DEF TabsOf
    <2>2. ASSUME NEW u \in its, NEW n, n = [info[u] EXCEPT !.kind = kind]
          PROVE  /\ n \in [session : Sessions, kind : Kinds] /\ n # NoTab
                 /\ n.session = info[u].session /\ n.kind = kind
      <3>1. /\ n \in [session : Sessions, kind : Kinds]
            /\ n.session = info[u].session /\ n.kind = kind
        BY <1>2, <2>1, <2>2
      <3>2. n # NoTab
        BY <1>2, <3>1 DEF NoTab, Kinds, Live
      <3> QED BY <3>1, <3>2
    <2>3. info \in [Tabs -> [session : Sessions, kind : Kinds] \cup {NoTab}]
      BY DEF IInv, TypeInv
    <2>4. \A u \in Tabs : info'[u] = IF u \in its THEN [info[u] EXCEPT !.kind = kind] ELSE info[u]
      BY <1>1
    <2>5. \A u \in Tabs : info'[u] \in [session : Sessions, kind : Kinds] \cup {NoTab}
      BY <2>2, <2>3, <2>4
    <2>6. info' \in [Tabs -> [session : Sessions, kind : Kinds] \cup {NoTab}]
      BY <1>1, <2>2, <2>3
    <2>7. ASSUME NEW u \in Tabs
          PROVE  /\ info'[u] = NoTab <=> info[u] = NoTab
                 /\ info'[u].session = info[u].session
                 /\ u \notin its => info'[u] = info[u]
                 /\ u \in its => info'[u].kind = kind
      BY <2>1, <2>2, <2>4
    <2> QED BY <2>6, <2>7
  <1>4. ops'[o] = Idle /\ \A p \in Slots \ {o} : ops'[p] = ops[p]
    BY <1>1 DEF IInv, TypeInv
  <1>5. ops' \in [Slots -> {Idle} \cup OpSet] /\ CommandsInv'
    <2>1. Unsent(o)
      BY <1>1, NoCommand DEF IInv
    <2> QED BY <1>1, <2>1, StepOn DEF IInv
  <1>6. hasty \subseteq hasty'
    BY <1>1
  <1>7. /\ RunsInv' /\ SoloInv' /\ Launched' = Launched
        /\ \A u : RunsIn(u)' => RunsIn(u)
        /\ \A u : StopDue(u) => StopDue(u)'
    BY <1>1, <1>6, WindowStep
  <1>8. Open' = Open /\ \A u \in Open : u \in Tabs /\ info[u] # NoTab
    BY <1>1, OpenTab DEF Open
  <1>9. TypeInv'
    <2>1. sessions' \in [Sessions -> Kinds \cup {Gone}]
      BY <1>1, <1>2 DEF IInv, TypeInv
    <2> QED BY <1>1, <1>3, <1>5, <1>8, <2>1 DEF IInv, TypeInv, backend
  <1>10. OpsInv' /\ ActiveIsOpen'
    <2>1. OpsInv'
      BY <1>4 DEF IInv, OpsInv
    <2>2. ActiveIsOpen'
      BY <1>1, <1>6, <1>8 DEF IInv, ActiveIsOpen
    <2> QED BY <2>1, <2>2
  <1>11. \A u : Starting(u)' => Starting(u)
    BY <1>4 DEF Starting
  <1>12. TabInv'
    <2> SUFFICES ASSUME NEW u \in Tabs \ hasty'
                 PROVE  /\ Starting(u)' => Terminal(u)'
                        /\ RunsIn(u)' => Terminal(u)' \/ (u \notin Open' /\ StopDue(u)')
      BY DEF TabInv
    <2>1. /\ Starting(u) => Terminal(u)
          /\ RunsIn(u) => Terminal(u) \/ (u \notin Open /\ StopDue(u))
      BY <1>6 DEF IInv, TabInv
    <2>2. Terminal(u) => Terminal(u)'
      <3>1. CASE u \in its
        BY <1>1, <1>3, <1>8, <3>1 DEF Terminal, IsTerminal
      <3>2. CASE u \notin its
        BY <1>3, <1>8, <3>2 DEF Terminal, IsTerminal
      <3> QED BY <3>1, <3>2
    <2> QED BY <1>7, <1>8, <1>11, <2>1, <2>2
  <1>13. NewInv'
    BY <1>3, <1>7, <1>11 DEF IInv, NewInv
  <1>14. RemovalInv'
    <2> SUFFICES ASSUME NEW p \in Slots, ops'[p] # Idle, ops'[p].what = "remove",
                        NEW u \in Open' \ hasty', info'[u].session = ops'[p].session
                 PROVE  /\ ~ Starting(u)'
                        /\ RunsIn(u)' => /\ ops'[p].at = "stop"
                                         /\ \/ u \in ToSet(ops'[p].todo)
                                            \/ \E i \in 1 .. Len(commands') : commands'[i] = StopOf(u, p)
      BY DEF RemovalInv, StopOf, Command
    <2>1. u \in Open \ hasty /\ ops'[p] = ops[p] /\ info[u].session = ops[p].session
      BY <1>3, <1>4, <1>6, <1>8
    <2>2. /\ ~ Starting(u)
          /\ RunsIn(u) => /\ ops[p].at = "stop"
                          /\ \/ u \in ToSet(ops[p].todo)
                             \/ \E i \in 1 .. Len(commands) : commands[i] = StopOf(u, p)
      BY <2>1 DEF IInv, RemovalInv
    <2> QED BY <1>1, <1>7, <1>11, <2>1, <2>2
  <1>15. CountInv'
    <2>1. Coming' \subseteq Coming
      BY <1>1, <1>4 DEF Coming, backend
    <2> QED BY <1>7, <2>1, CountKept DEF IInv
  <1> QED BY <1>5, <1>7, <1>9, <1>10, <1>12, <1>13, <1>14, <1>15 DEF IInv

-----------------------------------------------------------------------------
(* The backend.                                                            *)

(* What the command to be served says of what waits for it.                *)
LEMMA ServedCommand ==
  ASSUME IInv, commands # <<>>, NEW c, c = commands[1]
  PROVE  /\ c = Head(commands) /\ c \in CmdSet /\ 1 \in 1 .. Len(commands)
         /\ c.cmd = "start" => c.kind \in AnyLive
         /\ c.cmd # "disk" => c.tab \in Tabs
         /\ c.op # 0 => c.op \in Slots /\ ops[c.op] # Idle /\ ops[c.op].answer = "none" /\ WaitsFor(c, ops[c.op])
         /\ c.cmd = "start" => /\ c.op \in Slots /\ ops[c.op] # Idle /\ ops[c.op].what = "start"
                               /\ ops[c.op].at = "start" /\ ops[c.op].tab = c.tab
                               /\ ops[c.op].answer = "none" /\ Starting(c.tab)
  <1>1. c = Head(commands) /\ c \in CmdSet /\ 1 \in 1 .. Len(commands)
    BY ServedFacts DEF IInv, TypeInv
  <1>2. /\ c.cmd = "start" => c.kind \in AnyLive
        /\ c.cmd # "disk" => c.tab \in Tabs
        /\ c.op = 0 => c.cmd = "stop"
        /\ c.op # 0 => ops[c.op] # Idle /\ ops[c.op].answer = "none" /\ WaitsFor(c, ops[c.op])
    BY <1>1 DEF IInv, CommandsInv
  <1>3. c.op # 0 => c.op \in Slots
    BY <1>1 DEF CmdSet
  <1>4. c.cmd = "start" => /\ c.op \in Slots /\ ops[c.op] # Idle /\ ops[c.op].what = "start"
                           /\ ops[c.op].at = "start" /\ ops[c.op].tab = c.tab
                           /\ ops[c.op].answer = "none"
    BY <1>2, <1>3 DEF WaitsFor
  <1>5. c.cmd = "start" => Starting(c.tab)
    BY <1>4 DEF Starting
  <1> QED BY <1>1, <1>2, <1>3, <1>4, <1>5

(* A command is answered; what it did to the runs is given.                *)
LEMMA ServeIInv ==
  ASSUME IInv, commands # <<>>, NEW a \in {"ok", "error"}, Done(Head(commands).op, a), main' = 0,
         UNCHANGED <<sessions, row, info, active>>, hasty \subseteq hasty',
         runs' \in [Runs -> RunSet], registry' \in [Tabs -> {0} \cup Runs], RunsInv', SoloInv',
         CountInv',
         \A t : RunsIn(t)' => RunsIn(t) \/ Starting(t),
         \A t : commands[1].cmd = "stop" /\ commands[1].tab = t => ~ RunsIn(t)' \/ t \in hasty'
  PROVE  IInv'
  <1>1. /\ ops' \in [Slots -> {Idle} \cup OpSet] /\ commands' \in Seq(CmdSet)
        /\ CommandsInv'
        /\ \A p \in Slots : /\ ops'[p] = Idle <=> ops[p] = Idle
                            /\ ops[p] # Idle =>
                                 /\ ops'[p].what = ops[p].what /\ ops'[p].at = ops[p].at
                                 /\ ops'[p].tab = ops[p].tab /\ ops'[p].session = ops[p].session
                                 /\ ops'[p].kind = ops[p].kind /\ ops'[p].todo = ops[p].todo
    BY AnswerCommand DEF IInv
  <1>2. \A i \in 1 .. Len(commands) : i = 1 \/ \E j \in 1 .. Len(commands') : commands'[j] = commands[i]
    <2>1. commands' = Tail(commands) /\ commands \in Seq(CmdSet)
      BY DEF Done, IInv, TypeInv
    <2> QED BY <2>1, ServedFacts
  <1>3. Open' = Open
    BY DEF Open
  <1>4. TypeInv'
    BY <1>1, <1>3 DEF IInv, TypeInv
  <1>5. OpsInv' /\ ActiveIsOpen'
    <2>1. OpsInv'
      BY <1>1 DEF IInv, OpsInv
    <2>2. ActiveIsOpen'
      BY <1>3 DEF IInv, ActiveIsOpen
    <2> QED BY <2>1, <2>2
  <1>6. \A t : Starting(t)' => Starting(t)
    BY <1>1 DEF Starting
  <1>7. ASSUME NEW t, t \notin hasty', RunsIn(t)', StopDue(t) PROVE StopDue(t)'
    <2>1. PICK i \in 1 .. Len(commands) : commands[i].cmd = "stop" /\ commands[i].tab = t
      BY <1>7 DEF StopDue
    <2>2. i # 1
      BY <1>7, <2>1
    <2> QED BY <1>2, <2>1, <2>2 DEF StopDue
  <1>8. TabInv'
    <2> SUFFICES ASSUME NEW u \in Tabs \ hasty'
                 PROVE  /\ Starting(u)' => Terminal(u)'
                        /\ RunsIn(u)' => Terminal(u)' \/ (u \notin Open' /\ StopDue(u)')
      BY DEF TabInv
    <2>1. /\ Starting(u) => Terminal(u)
          /\ RunsIn(u) => Terminal(u) \/ (u \notin Open /\ StopDue(u))
      BY DEF IInv, TabInv
    <2>2. Terminal(u)' <=> Terminal(u)
      BY <1>3 DEF Terminal, IsTerminal
    <2> QED BY <1>3, <1>6, <1>7, <2>1, <2>2
  <1>9. NewInv'
    BY <1>6 DEF IInv, NewInv
  <1>10. RemovalInv'
    <2> SUFFICES ASSUME NEW p \in Slots, ops'[p] # Idle, ops'[p].what = "remove",
                        NEW u \in Open' \ hasty', info'[u].session = ops'[p].session
                 PROVE  /\ ~ Starting(u)'
                        /\ RunsIn(u)' => /\ ops'[p].at = "stop"
                                         /\ \/ u \in ToSet(ops'[p].todo)
                                            \/ \E i \in 1 .. Len(commands') : commands'[i] = StopOf(u, p)
      BY DEF RemovalInv, StopOf, Command
    <2>1. /\ u \in Open \ hasty /\ info[u].session = ops[p].session /\ ops[p] # Idle
          /\ ops[p].what = "remove" /\ ops'[p].at = ops[p].at /\ ops'[p].todo = ops[p].todo
      BY <1>1, <1>3
    <2>2. /\ ~ Starting(u)
          /\ RunsIn(u) => /\ ops[p].at = "stop"
                          /\ \/ u \in ToSet(ops[p].todo)
                             \/ \E i \in 1 .. Len(commands) : commands[i] = StopOf(u, p)
      BY <2>1 DEF IInv, RemovalInv
    <2>3. ASSUME NEW i \in 1 .. Len(commands), commands[i] = StopOf(u, p), RunsIn(u)'
          PROVE  \E j \in 1 .. Len(commands') : commands'[j] = StopOf(u, p)
      <3>1. commands[i].cmd = "stop" /\ commands[i].tab = u
        BY <2>3 DEF StopOf, Command
      <3>2. i # 1
        BY <2>3, <3>1
      <3> QED BY <1>2, <2>3, <3>2
    <2> QED BY <1>6, <2>1, <2>2, <2>3
  <1> QED BY <1>1, <1>4, <1>5, <1>8, <1>9, <1>10 DEF IInv

(* Once it is answered, a start is no longer to come.                      *)
LEMMA ComingServed ==
  ASSUME IInv, commands # <<>>, NEW a \in {"ok", "error"}, Done(Head(commands).op, a), main' = 0
  PROVE  Coming' \subseteq Coming /\ (commands[1].cmd = "start" => commands[1].op \notin Coming')
  <1>1. PICK c : c = commands[1]
    OBVIOUS
  <1>2. \A p \in Slots : /\ ops'[p] = Idle <=> ops[p] = Idle
                         /\ ops[p] # Idle =>
                              /\ ops'[p].what = ops[p].what /\ ops'[p].at = ops[p].at
                              /\ ops'[p].answer = IF p = c.op THEN a ELSE ops[p].answer
    BY <1>1, AnswerCommand DEF IInv
  <1>3. c.cmd = "start" => c.op \in Slots /\ ops[c.op] # Idle /\ ops[c.op].what = "start" /\ ops[c.op].at = "start"
    BY <1>1, ServedCommand
  <1>4. Coming' = {p \in Slots : /\ ops'[p] # Idle /\ ops'[p].what = "start"
                                 /\ ops'[p].at = "start" => ops'[p].answer = "none"}
    BY DEF Coming
  <1>5. ASSUME NEW p \in Coming' PROVE p \in Coming
    <2>1. p \in Slots /\ ops[p] # Idle /\ ops[p].what = "start"
      BY <1>2, <1>4, <1>5
    <2>2. ops[p].at = "start" => ops[p].answer = "none" /\ p # c.op
      BY <1>2, <1>4, <1>5, <2>1
    <2> QED BY <1>1, <2>1, <2>2 DEF Coming
  <1>6. c.cmd = "start" => c.op \notin Coming'
    BY <1>2, <1>3, <1>4
  <1> QED BY <1>1, <1>5, <1>6

(* What is registered under a tab is stopped, and so all that runs in it.  *)
LEMMA StoppedFacts ==
  ASSUME IInv, main = 0, main' = 0, hasty' = hasty, NEW t \in Tabs,
         runs' = Stopped(t), registry' = [registry EXCEPT ![t] = 0]
  PROVE  /\ runs' \in [Runs -> RunSet] /\ registry' \in [Tabs -> {0} \cup Runs]
         /\ RunsInv' /\ SoloInv' /\ Launched' = Launched
         /\ \A u : RunsIn(u)' => RunsIn(u)
         /\ RunsIn(t)' => t \in hasty
  <1> USE DEF IInv
  <1>1. /\ registry \in [Tabs -> {0} \cup Runs] /\ runs \in [Runs -> RunSet]
        /\ \A u \in Tabs : registry[u] # 0 => registry[u] \in Launched /\ runs[registry[u]].tab = u
    BY DEF TypeInv, RunsInv
  <1>2. /\ registry' \in [Tabs -> {0} \cup Runs]
        /\ registry'[t] = 0 /\ \A u \in Tabs \ {t} : registry'[u] = registry[u]
    BY <1>1
  <1>3. /\ runs' \in [Runs -> RunSet]
        /\ \A r \in Runs : /\ runs'[r].tab = runs[r].tab /\ runs'[r].kind = runs[r].kind
                           /\ runs'[r].end = runs[r].end /\ runs'[r].threads = runs[r].threads
                           /\ runs'[r] = runs[r] \/ (r \in Launched /\ runs'[r].flag)
                           /\ r = registry[t] => runs'[r].flag
    <2>1. CASE registry[t] = 0
      <3>1. runs' = runs
        BY <2>1 DEF Stopped
      <3>2. \A r \in Runs : r # 0
        BY TabsAssumption DEF Runs
      <3> QED BY <1>1, <2>1, <3>1, <3>2
    <2>2. CASE registry[t] # 0
      <3>1. PICK n, new : n = registry[t] /\ new = [runs[n] EXCEPT !.flag = TRUE]
        OBVIOUS
      <3>2. n \in Launched /\ n \in Runs /\ runs[n] \in RunSet
        BY <1>1, <2>2, <3>1 DEF Launched
      <3>3. /\ new \in RunSet /\ new.tab = runs[n].tab /\ new.kind = runs[n].kind /\ new.flag
            /\ new.end = runs[n].end /\ new.threads = runs[n].threads
        BY <3>1, <3>2 DEF RunSet
      <3>4. runs' = [runs EXCEPT ![n] = new]
        BY <2>2, <3>1, <3>2, <1>1 DEF Stopped
      <3>5. runs'[n] = new /\ \A r \in Runs \ {n} : runs'[r] = runs[r]
        BY <1>1, <3>2, <3>4
      <3> QED BY <1>1, <3>1, <3>2, <3>3, <3>4, <3>5
    <2> QED BY <2>1, <2>2
  <1>4. Launched' = Launched
    BY <1>3 DEF Launched
  <1>5. RunsInv'
    <2>1. \A r \in Runs : runs'[r].kind = "none" => runs'[r] = NoRun
      BY <1>3 DEF RunsInv, Launched
    <2>2. \A r \in Launched : /\ runs'[r].tab \in Tabs
                              /\ runs'[r].end # "none" \/ "finalizer" \in runs'[r].threads => runs'[r].flag
                              /\ ~ runs'[r].flag => runs'[r].threads # {}
      BY <1>3 DEF RunsInv, Launched
    <2>3. \A u \in Tabs : registry'[u] # 0 => registry'[u] \in Launched /\ runs'[registry'[u]].tab = u
      BY <1>1, <1>2, <1>3 DEF Launched
    <2> QED BY <1>4, <2>1, <2>2, <2>3 DEF RunsInv
  <1>6. \A r \in Launched : ~ runs'[r].flag => ~ runs[r].flag /\ registry[t] # r
    BY <1>3 DEF Launched
  <1>7. SoloInv'
    <2>1. ASSUME NEW q \in Launched, NEW r \in Launched,
                 runs'[q].tab = runs'[r].tab, runs'[q].threads # {}, runs'[r].threads # {}
          PROVE  q = r \/ runs'[r].tab \in hasty
      BY <1>3, <2>1 DEF SoloInv, Launched
    <2>2. ASSUME NEW r \in Launched, ~ runs'[r].flag
          PROVE  runs'[r].tab \in hasty \/ registry'[runs'[r].tab] = r
      <3>1. /\ ~ runs[r].flag /\ registry[t] # r /\ runs'[r].tab = runs[r].tab /\ runs[r].tab \in Tabs
            /\ r # 0
        BY <1>3, <1>6, <2>2, TabsAssumption DEF Launched, RunsInv, Runs
      <3>2. runs[r].tab \in hasty \/ registry[runs[r].tab] = r
        BY <3>1 DEF SoloInv
      <3> QED BY <1>2, <3>1, <3>2
    <2> QED BY <1>4, <2>1, <2>2 DEF SoloInv
  <1>8. \A u : RunsIn(u)' => RunsIn(u)
    BY <1>3, <1>4, <1>6 DEF RunsIn, Launched
  <1>9. RunsIn(t)' => t \in hasty
    <2> SUFFICES ASSUME RunsIn(t)' PROVE t \in hasty
      OBVIOUS
    <2>1. PICK r \in Launched : ~ runs'[r].flag /\ runs'[r].tab = t
      BY <1>4 DEF RunsIn
    <2>2. r # 0 /\ runs'[r].tab = runs[r].tab
      BY <1>3, TabsAssumption DEF Launched, Runs
    <2>3. t \in hasty \/ registry[t] = r
      BY <1>6, <2>1, <2>2 DEF SoloInv
    <2> QED BY <1>6, <2>1, <2>3
  <1> QED BY <1>2, <1>3, <1>4, <1>5, <1>7, <1>8, <1>9

LEMMA StopTerminalIInv ==
  ASSUME IInv, StopTerminal
  PROVE  IInv'
  <1>1. PICK c : /\ c = Head(commands) /\ commands # <<>> /\ main = 0 /\ c.cmd = "stop"
                 /\ runs' = Stopped(c.tab) /\ registry' = [registry EXCEPT ![c.tab] = 0]
                 /\ Done(c.op, "ok")
                 /\ UNCHANGED <<sessions, row, info, active, main, hasty>>
    BY DEF StopTerminal, Serve, window
  <1>2. c.tab \in Tabs /\ c = commands[1]
    BY <1>1, ServedFacts, ServedCommand DEF IInv, TypeInv
  <1>3. PICK t : t = c.tab
    OBVIOUS
  <1>4. /\ runs' \in [Runs -> RunSet] /\ registry' \in [Tabs -> {0} \cup Runs]
        /\ RunsInv' /\ SoloInv' /\ Launched' = Launched
        /\ \A u : RunsIn(u)' => RunsIn(u)
        /\ RunsIn(t)' => t \in hasty
    BY <1>1, <1>2, <1>3, StoppedFacts
  <1>5. Coming' \subseteq Coming
    BY <1>1, ComingServed
  <1>6. CountInv'
    BY <1>4, <1>5, CountKept DEF IInv
  <1> QED BY <1>1, <1>2, <1>3, <1>4, <1>6, ServeIInv

(* A command that leaves the runs alone.                                   *)
LEMMA AnswerIInv ==
  ASSUME IInv, SaveOrDelete \/ WriteInput \/ RefuseStart \/ (Start /\ Done(Head(commands).op, "error")
                                              /\ UNCHANGED <<window, runs, main, hasty, registry>>)
  PROVE  IInv'
  <1>1. PICK a \in {"ok", "error"} :
          /\ commands # <<>> /\ main = 0 /\ Head(commands).cmd # "stop"
          /\ Done(Head(commands).op, a)
          /\ UNCHANGED <<sessions, row, info, active, main, registry, runs, hasty>>
    <2>1. CASE SaveOrDelete
      BY <2>1 DEF SaveOrDelete, Serve, window, backend
    <2>4. CASE RefuseStart
      BY <2>4 DEF RefuseStart, Serve, window, backend
    <2>2. CASE WriteInput
      <3>1. PICK a : a = IF registry[Head(commands).tab] = 0 THEN "error" ELSE "ok"
        OBVIOUS
      <3>2. a \in {"ok", "error"}
        BY <3>1
      <3> QED BY <2>2, <3>1, <3>2 DEF WriteInput, Serve, window, backend
    <2>3. CASE Start /\ Done(Head(commands).op, "error") /\ UNCHANGED <<window, runs, main, hasty, registry>>
      BY <2>3 DEF Start, Serve, window
    <2> QED BY <2>1, <2>2, <2>3, <2>4
  <1>2. Head(commands) = commands[1]
    BY <1>1, ServedFacts DEF IInv, TypeInv
  <1>3. Launched' = Launched /\ \A u : RunsIn(u)' => RunsIn(u)
    BY <1>1 DEF Launched, RunsIn
  <1>4. RunsInv' /\ SoloInv'
    <2>1. RunsInv'
      BY <1>1, <1>3 DEF IInv, RunsInv
    <2>2. SoloInv'
      BY <1>1, <1>3 DEF IInv, SoloInv
    <2> QED BY <2>1, <2>2
  <1>5. runs' \in [Runs -> RunSet] /\ registry' \in [Tabs -> {0} \cup Runs]
    BY <1>1 DEF IInv, TypeInv
  <1>6. Coming' \subseteq Coming
    BY <1>1, ComingServed
  <1>7. CountInv'
    BY <1>3, <1>6, CountKept DEF IInv
  <1> QED BY <1>1, <1>2, <1>3, <1>4, <1>5, <1>7, ServeIInv

LEMMA StopFirstIInv ==
  ASSUME IInv, StopFirst
  PROVE  IInv'
  <1>1. PICK t, r : /\ t = Head(commands).tab /\ r = registry[t] /\ r # 0
                    /\ commands # <<>> /\ main = 0 /\ Head(commands).cmd = "start"
                    /\ runs' = [runs EXCEPT ![r].flag = TRUE]
                    /\ registry' = [registry EXCEPT ![t] = 0]
                    /\ UNCHANGED <<sessions, row, info, active, ops, commands, main, hasty>>
    BY DEF StopFirst, Stopped, Serve, window
  <1>2. t \in Tabs
    BY <1>1, ServedFacts, ServedCommand DEF IInv, TypeInv
  <1>3. r \in Launched /\ runs[r].tab = t /\ runs[r] \in RunSet
    BY <1>1, <1>2 DEF IInv, RunsInv, TypeInv, Launched
  <1>4. PICK new : new = [runs[r] EXCEPT !.flag = TRUE]
    OBVIOUS
  <1>5. /\ new \in RunSet /\ new.tab = runs[r].tab /\ new.kind = runs[r].kind /\ new.flag
        /\ new.threads = runs[r].threads
    BY <1>3, <1>4 DEF RunSet
  <1>6. runs' = [runs EXCEPT ![r] = new]
    BY <1>1, <1>3, <1>4 DEF IInv, TypeInv, Launched
  <1>7. /\ registry' = [registry EXCEPT ![runs[r].tab] = 0]
        /\ registry[runs[r].tab] = r /\ new.flag /\ main = 0
    BY <1>1, <1>3, <1>5
  <1>8. UNCHANGED <<sessions, row, info, active, ops, commands, main, hasty>>
    BY <1>1
  <1> QED BY <1>3, <1>5, <1>6, <1>7, <1>8, ThreadStep

(* The start at the head of the commands launches a run of its tab.        *)
LEMMA LaunchFacts ==
  ASSUME IInv, commands # <<>>, main = 0, NEW c, c = commands[1], c.cmd = "start",
         c.kind # "none", registry[c.tab] = 0, NEW thread \in {"connector", "reader", "watcher"},
         Launch(c, thread)
  PROVE  /\ NextRun \in Runs \ Launched /\ runs[NextRun].kind = "none" /\ NextRun # 0
         /\ runs' \in [Runs -> RunSet] /\ runs'[NextRun].tab = c.tab /\ runs'[NextRun].kind = c.kind
         /\ ~ runs'[NextRun].flag /\ runs'[NextRun].end = "none"
         /\ \A r \in Runs : r # NextRun => runs'[r] = runs[r]
         /\ Launched' = Launched \cup {NextRun} /\ hasty \subseteq hasty'
         /\ \A t : RunsIn(t)' => RunsIn(t) \/ Starting(t)
         /\ \A r \in Runs : runs'[r].kind = "none" => runs'[r] = NoRun
         /\ \A r \in Launched' : /\ runs'[r].tab \in Tabs
                                 /\ runs'[r].end # "none" \/ "finalizer" \in runs'[r].threads => runs'[r].flag
                                 /\ ~ runs'[r].flag => runs'[r].threads # {}
         /\ \A q, r \in Launched' :
              runs'[q].tab = runs'[r].tab /\ runs'[q].threads # {} /\ runs'[r].threads # {} =>
                q = r \/ runs'[r].tab \in hasty'
         /\ \A r \in Launched : ~ runs[r].flag =>
              runs[r].tab \in hasty \/ (registry[runs[r].tab] = r /\ runs[r].tab # c.tab)
         /\ c.op \in Coming
  <1> USE DEF IInv
  <1>1. /\ c.tab \in Tabs /\ c.kind \in Live /\ c.op \in Slots /\ ops[c.op] # Idle /\ ops[c.op].what = "start"
        /\ ops[c.op].at = "start" /\ ops[c.op].tab = c.tab /\ ops[c.op].answer = "none" /\ Starting(c.tab)
    BY ServedCommand DEF AnyLive
  <1>2. c.op \in Coming
    BY <1>1 DEF Coming
  <1>3. PICK n, new : n = NextRun /\ new = NewRun(c.tab, c.kind, thread)
    OBVIOUS
  <1>4. n \in Runs /\ runs[n].kind = "none"
    BY <1>2, <1>3, NextRunFacts
  <1>5. n \notin Launched /\ n # 0 /\ Launched \subseteq Runs /\ \A r \in Launched : r \in Runs \ {n}
    BY <1>4, TabsAssumption DEF Launched, Runs
  <1>6. /\ new \in RunSet /\ new.tab = c.tab /\ new.kind = c.kind /\ ~ new.flag /\ new.end = "none"
        /\ new.threads = {thread}
    BY <1>1, <1>3 DEF NewRun, NoRun, RunSet, TabsOrNone
  <1>7. runs' = [runs EXCEPT ![n] = new] /\ hasty' = IF Overlap(c.tab) THEN hasty \cup {c.tab} ELSE hasty
    BY <1>3 DEF Launch
  <1>8. /\ runs' \in [Runs -> RunSet] /\ runs'[n] = new /\ \A r \in Runs \ {n} : runs'[r] = runs[r]
    BY <1>4, <1>6, <1>7 DEF TypeInv
  <1>9. Launched' = Launched \cup {n}
    BY <1>1, <1>4, <1>6, <1>8 DEF Launched, Live
  <1>10. hasty \subseteq hasty'
    BY <1>7
  <1>11. ASSUME NEW t, RunsIn(t)' PROVE RunsIn(t) \/ Starting(t)
    <2>1. PICK r \in Launched \cup {n} : ~ runs'[r].flag /\ runs'[r].tab = t
      BY <1>9, <1>11 DEF RunsIn
    <2>2. CASE r = n
      BY <1>1, <1>6, <1>8, <2>1, <2>2
    <2>3. CASE r # n
      BY <1>5, <1>8, <2>1, <2>3 DEF RunsIn
    <2> QED BY <2>2, <2>3
  <1>12. \A r \in Runs : runs'[r].kind = "none" => runs'[r] = NoRun
    BY <1>1, <1>6, <1>8 DEF RunsInv, Live
  <1>13. \A r \in Launched \cup {n} :
            /\ runs'[r].tab \in Tabs
            /\ runs'[r].end # "none" \/ "finalizer" \in runs'[r].threads => runs'[r].flag
            /\ ~ runs'[r].flag => runs'[r].threads # {}
    <2>1. \A r \in Launched :
            /\ runs'[r].tab \in Tabs
            /\ runs'[r].end # "none" \/ "finalizer" \in runs'[r].threads => runs'[r].flag
            /\ ~ runs'[r].flag => runs'[r].threads # {}
      BY <1>5, <1>8 DEF RunsInv
    <2>2. /\ runs'[n].tab \in Tabs
          /\ runs'[n].end # "none" \/ "finalizer" \in runs'[n].threads => runs'[n].flag
          /\ ~ runs'[n].flag => runs'[n].threads # {}
      <3>1. runs'[n].tab \in Tabs
        BY <1>1, <1>6, <1>8
      <3>2. runs'[n].end = "none" /\ runs'[n].threads = {thread} /\ thread # "finalizer"
        BY <1>6, <1>8
      <3>3. "finalizer" \notin runs'[n].threads /\ runs'[n].threads # {}
        BY <3>2
      <3> QED BY <3>1, <3>2, <3>3
    <2> QED BY <2>1, <2>2
  <1>14. ASSUME NEW q \in Launched \cup {n}, NEW r \in Launched \cup {n},
                runs'[q].tab = runs'[r].tab, runs'[q].threads # {}, runs'[r].threads # {}
         PROVE  q = r \/ runs'[r].tab \in hasty'
    <2>1. CASE q # n /\ r # n
      BY <1>5, <1>8, <1>10, <1>14, <2>1 DEF SoloInv
    <2>2. CASE q = n /\ r # n
      <3>1. Overlap(c.tab)
        BY <1>5, <1>6, <1>8, <1>14, <2>2 DEF Overlap
      <3> QED BY <1>6, <1>7, <1>8, <1>14, <2>2, <3>1
    <2>3. CASE q # n /\ r = n
      <3>1. Overlap(c.tab)
        BY <1>5, <1>6, <1>8, <1>14, <2>3 DEF Overlap
      <3> QED BY <1>6, <1>7, <1>8, <1>14, <2>3, <3>1
    <2> QED BY <2>1, <2>2, <2>3
  <1>15. ASSUME NEW r \in Launched, ~ runs[r].flag
         PROVE  runs[r].tab \in hasty \/ (registry[runs[r].tab] = r /\ runs[r].tab # c.tab)
    <2>1. r # 0
      BY <1>5, TabsAssumption DEF Runs
    <2> QED BY <1>15, <2>1 DEF SoloInv
  <1>16. \A q, r \in Launched' :
              runs'[q].tab = runs'[r].tab /\ runs'[q].threads # {} /\ runs'[r].threads # {} =>
                q = r \/ runs'[r].tab \in hasty'
    BY <1>9, <1>14
  <1> QED BY <1>2, <1>3, <1>4, <1>5, <1>6, <1>8, <1>9, <1>10, <1>11, <1>12, <1>13, <1>15, <1>16

LEMMA StartTelnetIInv ==
  ASSUME IInv, StartTelnet
  PROVE  IInv'
  <1>1. PICK c : /\ c = Head(commands) /\ commands # <<>> /\ main = 0 /\ c.cmd = "start"
                 /\ c.kind # "none" /\ registry[c.tab] = 0 /\ Launch(c, "connector")
                 /\ registry' = [registry EXCEPT ![c.tab] = NextRun]
                 /\ Done(c.op, "ok")
                 /\ UNCHANGED <<sessions, row, info, active, main>>
    BY DEF StartTelnet, Start, Serve, window
  <1>2. c = commands[1]
    BY <1>1, ServedFacts DEF IInv, TypeInv
  <1>3. c.tab \in Tabs
    BY <1>1, <1>2, ServedCommand DEF AnyLive
  <1>4. PICK n : n = NextRun
    OBVIOUS
  <1>5. /\ n \in Runs \ Launched /\ n # 0
        /\ runs' \in [Runs -> RunSet] /\ runs'[n].tab = c.tab
        /\ \A r \in Runs : r # n => runs'[r] = runs[r]
        /\ Launched' = Launched \cup {n} /\ hasty \subseteq hasty'
        /\ \A t : RunsIn(t)' => RunsIn(t) \/ Starting(t)
        /\ \A r \in Runs : runs'[r].kind = "none" => runs'[r] = NoRun
        /\ \A r \in Launched' : /\ runs'[r].tab \in Tabs
                                /\ runs'[r].end # "none" \/ "finalizer" \in runs'[r].threads => runs'[r].flag
                                /\ ~ runs'[r].flag => runs'[r].threads # {}
        /\ \A q, r \in Launched' :
             runs'[q].tab = runs'[r].tab /\ runs'[q].threads # {} /\ runs'[r].threads # {} =>
               q = r \/ runs'[r].tab \in hasty'
        /\ \A r \in Launched : ~ runs[r].flag =>
             runs[r].tab \in hasty \/ (registry[runs[r].tab] = r /\ runs[r].tab # c.tab)
        /\ c.op \in Coming
    BY <1>1, <1>2, <1>4, LaunchFacts
  <1>6. Launched \subseteq Runs /\ \A r \in Launched : r # n
    BY <1>5 DEF Launched
  <1>7. /\ registry' \in [Tabs -> {0} \cup Runs] /\ registry'[c.tab] = n
        /\ \A t \in Tabs : t # c.tab => registry'[t] = registry[t]
    BY <1>1, <1>3, <1>4, <1>5 DEF IInv, TypeInv
  <1>8. RunsInv'
    <2>1. \A t \in Tabs : registry'[t] # 0 => registry'[t] \in Launched' /\ runs'[registry'[t]].tab = t
      <3>1. \A t \in Tabs : registry[t] # 0 => registry[t] \in Launched /\ runs[registry[t]].tab = t
        BY DEF IInv, RunsInv
      <3> QED BY <1>5, <1>6, <1>7, <3>1
    <2> QED BY <1>1, <1>5, <2>1 DEF RunsInv
  <1>9. SoloInv'
    <2>1. ASSUME NEW r \in Launched \cup {n}, ~ runs'[r].flag
          PROVE  runs'[r].tab \in hasty' \/ registry'[runs'[r].tab] = r
      <3>1. CASE r = n
        BY <1>5, <1>7, <3>1
      <3>2. CASE r # n
        <4>1. runs'[r] = runs[r] /\ r \in Launched /\ runs[r].tab \in Tabs
          BY <1>5, <1>6, <2>1, <3>2 DEF IInv, RunsInv
        <4> QED BY <1>5, <1>7, <2>1, <4>1
      <3> QED BY <3>1, <3>2
    <2>2. \A r \in Launched' : ~ runs'[r].flag => runs'[r].tab \in hasty' \/ registry'[runs'[r].tab] = r
      BY <1>5, <2>1
    <2> QED BY <1>5, <2>2 DEF SoloInv
  <1>10. CountInv'
    <2>1. Coming' \subseteq Coming \ {c.op}
      BY <1>1, <1>2, ComingServed
    <2> QED BY <1>5, <2>1, CountLaunch DEF IInv
  <1>11. \A t : commands[1].cmd = "stop" /\ commands[1].tab = t => ~ RunsIn(t)' \/ t \in hasty'
    BY <1>1, <1>2
  <1>12. Done(Head(commands).op, "ok") /\ main' = 0
    BY <1>1
  <1> QED BY <1>1, <1>5, <1>7, <1>8, <1>9, <1>10, <1>11, <1>12, ServeIInv

LEMMA SpawnIInv ==
  ASSUME IInv, Spawn
  PROVE  IInv'
  <1>1. PICK c : /\ c = Head(commands) /\ commands # <<>> /\ main = 0 /\ c.cmd = "start"
                 /\ registry[c.tab] = 0 /\ c.kind \in {"local", "serial"}
                 /\ \/ /\ Done(c.op, "error")
                       /\ UNCHANGED <<runs, main, hasty>>
                    \/ /\ Launch(c, Reporter[c.kind])
                       /\ main' = NextRun
                       /\ UNCHANGED <<ops, commands>>
                 /\ Start /\ UNCHANGED <<window, registry>>
    BY DEF Spawn, Start, Serve
  <1>2. CASE Done(c.op, "error") /\ UNCHANGED <<runs, main, hasty>>
    BY <1>1, <1>2, AnswerIInv
  <1>3. CASE Launch(c, Reporter[c.kind]) /\ main' = NextRun /\ UNCHANGED <<ops, commands>>
    <2>1. c = commands[1]
      BY <1>1, ServedFacts DEF IInv, TypeInv
    <2>2. PICK n, thread : n = NextRun /\ thread = Reporter[c.kind]
      OBVIOUS
    <2>3. thread \in {"connector", "reader", "watcher"}
      BY <1>1, <2>2 DEF Reporter
    <2>4. /\ n \in Runs \ Launched /\ n # 0
          /\ runs' \in [Runs -> RunSet] /\ runs'[n].tab = c.tab
          /\ \A r \in Runs : r # n => runs'[r] = runs[r]
          /\ Launched' = Launched \cup {n} /\ hasty \subseteq hasty'
          /\ \A t : RunsIn(t)' => RunsIn(t) \/ Starting(t)
          /\ \A r \in Runs : runs'[r].kind = "none" => runs'[r] = NoRun
          /\ \A r \in Launched' : /\ runs'[r].tab \in Tabs
                                  /\ runs'[r].end # "none" \/ "finalizer" \in runs'[r].threads => runs'[r].flag
                                  /\ ~ runs'[r].flag => runs'[r].threads # {}
          /\ \A q, r \in Launched' :
               runs'[q].tab = runs'[r].tab /\ runs'[q].threads # {} /\ runs'[r].threads # {} =>
                 q = r \/ runs'[r].tab \in hasty'
          /\ \A r \in Launched : ~ runs[r].flag =>
               runs[r].tab \in hasty \/ (registry[runs[r].tab] = r /\ runs[r].tab # c.tab)
          /\ c.op \in Coming
      BY <1>1, <1>3, <2>1, <2>2, <2>3, LaunchFacts
    <2>5. UNCHANGED <<sessions, row, info, active, ops, commands, registry>> /\ main' = n
      BY <1>1, <1>3, <2>2 DEF window
    <2>6. Launched \subseteq Runs /\ \A r \in Launched : r # n
      BY <2>4 DEF Launched
    <2>7. TypeInv'
      BY <2>4, <2>5 DEF IInv, TypeInv, Open
    <2>8. RunsInv'
      <3>1. \A t \in Tabs : registry[t] # 0 => registry[t] \in Launched' /\ runs'[registry[t]].tab = t
        <4>1. \A t \in Tabs : registry[t] # 0 => registry[t] \in Launched /\ runs[registry[t]].tab = t
          BY DEF IInv, RunsInv
        <4> QED BY <2>4, <2>6, <4>1
      <3>2. /\ n \in Launched' /\ commands # <<>>
            /\ commands[1].cmd = "start" /\ commands[1].tab = runs'[n].tab
            /\ registry[runs'[n].tab] = 0
        BY <1>1, <2>1, <2>4
      <3> QED BY <2>4, <2>5, <3>1, <3>2 DEF RunsInv
    <2>9. CommandsInv' /\ OpsInv' /\ ActiveIsOpen'
      <3>1. CommandsInv'
        BY <2>5 DEF IInv, CommandsInv
      <3>2. OpsInv'
        BY <2>5 DEF IInv, OpsInv
      <3>3. ActiveIsOpen'
        BY <2>4, <2>5 DEF IInv, ActiveIsOpen, Open
      <3> QED BY <3>1, <3>2, <3>3
    <2>10. SoloInv'
      <3>1. ASSUME NEW r \in Launched \cup {n}, ~ runs'[r].flag
            PROVE  runs'[r].tab \in hasty' \/ registry[runs'[r].tab] = r \/ n = r
        BY <2>4, <2>6, <3>1
      <3>2. \A r \in Launched' : ~ runs'[r].flag => runs'[r].tab \in hasty' \/ registry'[runs'[r].tab] = r \/ main' = r
        BY <2>4, <2>5, <3>1
      <3> QED BY <2>4, <3>2 DEF SoloInv
    <2>11. \A t : Starting(t)' <=> Starting(t)
      BY <2>5 DEF Starting
    <2>12. TabInv' /\ NewInv'
      <3>1. TabInv'
        <4>1. \A t \in Tabs \ hasty' : /\ Starting(t) => Terminal(t)
                                       /\ RunsIn(t) => Terminal(t) \/ (t \notin Open /\ StopDue(t))
          BY <2>4 DEF IInv, TabInv
        <4> QED BY <2>4, <2>5, <2>11, <4>1 DEF TabInv, Terminal, Open, IsTerminal, StopDue
      <3>2. NewInv'
        BY <2>4, <2>5, <2>11 DEF IInv, NewInv
      <3> QED BY <3>1, <3>2
    <2>13. RemovalInv'
      <3> SUFFICES ASSUME NEW p \in Slots, ops'[p] # Idle, ops'[p].what = "remove",
                          NEW u \in Open' \ hasty', info'[u].session = ops'[p].session
                   PROVE  /\ ~ Starting(u)'
                          /\ RunsIn(u)' => /\ ops'[p].at = "stop"
                                           /\ \/ u \in ToSet(ops'[p].todo)
                                              \/ \E i \in 1 .. Len(commands') : commands'[i] = StopOf(u, p)
        BY DEF RemovalInv, StopOf, Command
      <3>1. u \in Open \ hasty /\ ops'[p] = ops[p] /\ info[u].session = ops[p].session
        BY <2>4, <2>5 DEF Open
      <3>2. /\ ~ Starting(u)
            /\ RunsIn(u) => /\ ops[p].at = "stop"
                            /\ \/ u \in ToSet(ops[p].todo)
                               \/ \E i \in 1 .. Len(commands) : commands[i] = StopOf(u, p)
        BY <3>1 DEF IInv, RemovalInv
      <3> QED BY <2>4, <2>5, <2>11, <3>1, <3>2
    <2>14. CountInv'
      <3>1. c.op \notin Coming'
        <4>1. ops[c.op].at = "start"
          BY <1>1, <2>1, ServedCommand
        <4> QED BY <2>1, <2>4, <2>5, <4>1 DEF Coming
      <3>2. Coming' \subseteq Coming
        BY <1>1, <2>5 DEF Coming
      <3>3. Coming' \subseteq Coming \ {c.op}
        BY <3>1, <3>2
      <3> QED BY <2>4, <3>3, CountLaunch DEF IInv
    <2> QED BY <2>7, <2>8, <2>9, <2>10, <2>12, <2>13, <2>14 DEF IInv
  <1> QED BY <1>1, <1>2, <1>3

LEMMA RegisterIInv ==
  ASSUME IInv, Register
  PROVE  IInv'
  <1>1. /\ main # 0 /\ main \in Launched /\ commands # <<>>
        /\ commands[1].cmd = "start" /\ commands[1].tab = runs[main].tab
        /\ registry[runs[main].tab] = 0 /\ runs[main].tab \in Tabs
    BY DEF Register, IInv, RunsInv
  <1>2. /\ registry' = [registry EXCEPT ![runs[main].tab] = main]
        /\ Done(Head(commands).op, "ok") /\ main' = 0
        /\ UNCHANGED <<sessions, row, info, active, runs, hasty>>
    BY DEF Register, window
  <1>3. /\ registry' \in [Tabs -> {0} \cup Runs] /\ registry'[runs[main].tab] = main
        /\ \A t \in Tabs : t # runs[main].tab => registry'[t] = registry[t]
    BY <1>1, <1>2 DEF IInv, TypeInv, Launched
  <1>4. Launched' = Launched /\ runs' \in [Runs -> RunSet] /\ \A t : RunsIn(t)' => RunsIn(t)
    BY <1>2 DEF Launched, RunsIn, IInv, TypeInv
  <1>5. RunsInv'
    <2>1. \A t \in Tabs : registry'[t] # 0 => registry'[t] \in Launched /\ runs[registry'[t]].tab = t
      BY <1>1, <1>3 DEF IInv, RunsInv
    <2>2. /\ \A r \in Runs : runs[r].kind = "none" => runs[r] = NoRun
          /\ \A r \in Launched : /\ runs[r].tab \in Tabs
                                 /\ runs[r].end # "none" \/ "finalizer" \in runs[r].threads => runs[r].flag
                                 /\ ~ runs[r].flag => runs[r].threads # {}
      BY DEF IInv, RunsInv
    <2> QED BY <1>2, <1>4, <2>1, <2>2 DEF RunsInv
  <1>6. SoloInv'
    <2>1. ASSUME NEW r \in Launched, ~ runs[r].flag
          PROVE  runs[r].tab \in hasty \/ registry'[runs[r].tab] = r
      <3>1. /\ runs[r].tab \in hasty \/ registry[runs[r].tab] = r \/ main = r
            /\ runs[r].tab \in Tabs /\ r # 0
        BY <2>1, TabsAssumption DEF IInv, SoloInv, RunsInv, Launched, Runs
      <3> QED BY <1>1, <1>3, <3>1
    <2>2. \A q, r \in Launched :
            runs[q].tab = runs[r].tab /\ runs[q].threads # {} /\ runs[r].threads # {} =>
              q = r \/ runs[r].tab \in hasty
      BY DEF IInv, SoloInv
    <2> QED BY <1>2, <1>4, <2>1, <2>2 DEF SoloInv
  <1>7. Coming' \subseteq Coming
    BY <1>1, <1>2, ComingServed
  <1>8. CountInv'
    BY <1>4, <1>7, CountKept DEF IInv
  <1> QED BY <1>1, <1>2, <1>3, <1>4, <1>5, <1>6, <1>8, ServeIInv

-----------------------------------------------------------------------------
LEMMA InitIInv == Init => IInv
  <1> SUFFICES ASSUME Init PROVE IInv
    OBVIOUS
  <1> USE DEF Init
  <1>1. Open = {} /\ Launched = {} /\ Coming = {}
    <2>1. Open = {}
      BY DEF Open, ToSet
    <2>2. Launched = {}
      BY DEF Launched, NoRun
    <2>3. Coming = {}
      BY DEF Coming
    <2> QED BY <2>1, <2>2, <2>3
  <1>2. <<>> \in Seq(Tabs) /\ <<>> \in Seq(CmdSet) /\ Len(<<>>) = 0
    OBVIOUS
  <1>3. TypeInv
    <2>1. NoRun \in RunSet
      BY DEF NoRun, RunSet, TabsOrNone
    <2>2. IsInjective(row)
      BY DEF IsInjective
    <2> QED BY <1>1, <1>2, <2>1, <2>2 DEF TypeInv, Kinds
  <1>4. RunsInv
    BY <1>1 DEF RunsInv
  <1>5. CommandsInv /\ OpsInv
    <2>1. CommandsInv
      BY <1>2 DEF CommandsInv
    <2>2. OpsInv
      BY DEF OpsInv
    <2> QED BY <2>1, <2>2
  <1>6. SoloInv
    BY <1>1 DEF SoloInv
  <1>7. \A t : ~ Starting(t) /\ ~ RunsIn(t)
    BY <1>1 DEF Starting, RunsIn
  <1>8. TabInv /\ NewInv /\ RemovalInv /\ ActiveIsOpen
    <2>1. TabInv /\ NewInv
      BY <1>7 DEF TabInv, NewInv
    <2>2. RemovalInv
      BY DEF RemovalInv
    <2>3. ActiveIsOpen
      BY DEF ActiveIsOpen
    <2> QED BY <2>1, <2>2, <2>3
  <1>9. CountInv
    <2>1. Cardinality({}) = 0
      BY FS_EmptySet
    <2> QED BY <1>1, <2>1, TabsAssumption DEF CountInv
  <1> QED BY <1>3, <1>4, <1>5, <1>6, <1>8, <1>9 DEF IInv

LEMMA NextIInv == IInv /\ [Next]_vars => IInv'
  <1> SUFFICES ASSUME IInv, [Next]_vars PROVE IInv'
    OBVIOUS
  <1>1. CASE User
    <2>1. ASSUME NEW s \in Sessions, OpenSession(s) PROVE IInv'
      BY <2>1, OpenSessionIInv
    <2>2. ASSUME NEW s \in Sessions, RemoveSession(s) PROVE IInv'
      BY <2>2, RemoveSessionIInv
    <2>3. ASSUME NEW s \in Sessions, RemoveFolder(s) PROVE IInv'
      BY <2>3, DiskIInv
    <2>4. ASSUME NEW s \in Sessions, NEW k \in EditKinds, EditSession(s, k) PROVE IInv'
      BY <2>4, DiskIInv
    <2>5. ASSUME NEW t \in Tabs, RestartTab(t) PROVE IInv'
      BY <2>5, RestartTabIInv
    <2>6. ASSUME NEW t \in Tabs, CloseTab(t) PROVE IInv'
      BY <2>6, CloseTabIInv
    <2>7. ASSUME NEW t \in Tabs, SendInput(t) PROVE IInv'
      BY <2>7, SendInputIInv
    <2> QED BY <1>1, <2>1, <2>2, <2>3, <2>4, <2>5, <2>6, <2>7 DEF User
  <1>2. CASE MainThread
    <2>1. CASE StopTerminal
      BY <2>1, StopTerminalIInv
    <2>2. CASE SaveOrDelete \/ WriteInput \/ RefuseStart
      BY <2>2, AnswerIInv
    <2>3. CASE StopFirst
      BY <2>3, StopFirstIInv
    <2>4. CASE StartTelnet
      BY <2>4, StartTelnetIInv
    <2>5. CASE Spawn
      BY <2>5, SpawnIInv
    <2>6. CASE Register
      BY <2>6, RegisterIInv
    <2> QED BY <1>2, <2>1, <2>2, <2>3, <2>4, <2>5, <2>6 DEF MainThread
  <1>3. CASE Listen \/ UNCHANGED vars
    BY <1>3, StillIInv
  <1>4. ASSUME NEW o \in Slots, Resume(o) PROVE IInv'
    <2>1. CASE RestartSeeds(o)
      BY <2>1, RestartSeedsIInv
    <2>2. CASE Painted(o)
      BY <2>2, PaintedIInv
    <2>3. CASE StartAnswered(o) \/ InputAnswered(o) \/ GivenUp(o) \/ FolderRemoved(o)
      BY <2>3, FinishedIInv
    <2>4. CASE RemoveContinues(o)
      BY <2>4, RemoveContinuesIInv
    <2>5. CASE SessionRemoved(o)
      BY <2>5, SessionRemovedIInv
    <2>6. CASE SessionEdited(o)
      BY <2>6, SessionEditedIInv
    <2> QED BY <1>4, <2>1, <2>2, <2>3, <2>4, <2>5, <2>6 DEF Resume
  <1>5. ASSUME NEW r \in Runs, Leaves(r) \/ Read(r) \/ Poll(r) PROVE IInv'
    <2>1. CASE Connect(r)
      BY <2>1, ConnectIInv
    <2>2. CASE ReaderLeaves(r) \/ ReaderEnds(r) \/ Watch(r)
      BY <2>2, LeaveIInv
    <2>3. CASE Finalize(r)
      BY <2>3, FinalizeIInv
    <2>4. CASE Read(r) \/ Poll(r)
      BY <2>4, SpeakIInv
    <2> QED BY <1>5, <2>1, <2>2, <2>3, <2>4 DEF Leaves
  <1> QED BY <1>1, <1>2, <1>3, <1>4, <1>5 DEF Next

LEMMA Invariance == Spec => []IInv
  <1>1. Init => IInv
    BY InitIInv
  <1>2. IInv /\ [Next]_vars => IInv'
    BY NextIInv
  <1> QED BY <1>1, <1>2, PTL DEF Spec

(* Every session that runs has its tab and the window shows a tab that is  *)
(* there: when no command is under way and no action waits, a run that was *)
(* not told to stop belongs to an open tab, or to one the user or a late   *)
(* thread got ahead of (closeTab, removeSession, restartTab, openSession   *)
(* and the starts of runtime.rs, telnet.rs and serial.rs).                 *)
THEOREM TabsAndRuns == Spec => []TabsAndRunsMatch
  <1>1. IInv => TabsAndRunsMatch
    <2> SUFFICES ASSUME IInv PROVE TabsAndRunsMatch
      OBVIOUS
    <2>1. TypeOK
      <3>1. \A t \in Open : t \in Tabs /\ info[t].session \in Sessions /\ info[t].kind \in Kinds
        BY OpenTab
      <3>2. registry \in [Tabs -> {0} \cup Launched]
        BY DEF IInv, TypeInv, RunsInv
      <3> QED BY <3>1, <3>2 DEF TypeOK, IInv, TypeInv, RunsInv
    <2>2. NoOrphan
      <3> SUFFICES ASSUME Calm, NEW r \in Launched, ~ runs[r].flag, runs[r].tab \notin hasty
                   PROVE  runs[r].tab \in Open
        BY DEF NoOrphan
      <3>1. runs[r].tab \in Tabs /\ RunsIn(runs[r].tab)
        BY DEF IInv, RunsInv, RunsIn
      <3>2. ~ StopDue(runs[r].tab)
        BY DEF Calm, StopDue
      <3> QED BY <3>1, <3>2 DEF IInv, TabInv, Terminal
    <2> QED BY <2>1, <2>2 DEF IInv, TabsAndRunsMatch
  <1> QED BY <1>1, Invariance, PTL

-----------------------------------------------------------------------------
(* The refinement of TerminalLifecycle.                                    *)

PhaseOf(run) ==
  CASE run.kind = "none"  -> "new"
    [] run.end = "owed"   -> "ending"
    [] run.end = "told"   -> "exited"
    [] run.flag           -> "stopped"
    [] OTHER              -> "live"

phase == [r \in Runs |-> Phase(r)]

LifecycleMoves == {<<"new", "live">>, <<"live", "stopped">>, <<"live", "ending">>, <<"ending", "exited">>}

LEMMA StillPhases ==
  ASSUME runs' = runs
  PROVE  [Lifecycle!Next]_phase
  <1>1. phase' = phase
    BY DEF phase, Phase
  <1> QED BY <1>1

LEMMA OneMoves ==
  ASSUME IInv, NEW n \in Runs, NEW new \in RunSet, runs' = [runs EXCEPT ![n] = new],
         \/ PhaseOf(new) = PhaseOf(runs[n])
         \/ <<PhaseOf(runs[n]), PhaseOf(new)>> \in LifecycleMoves
  PROVE  [Lifecycle!Next]_phase
  <1>1. runs'[n] = new /\ \A r \in Runs \ {n} : runs'[r] = runs[r]
    BY DEF IInv, TypeInv
  <1>2. phase = [r \in Runs |-> PhaseOf(runs[r])] /\ phase' = [r \in Runs |-> PhaseOf(runs'[r])]
    BY DEF phase, Phase, PhaseOf
  <1>3. phase' = [phase EXCEPT ![n] = PhaseOf(new)] /\ phase[n] = PhaseOf(runs[n])
    <2> HIDE DEF phase
    <2>1. PICK old, now : old = phase /\ now = phase'
      OBVIOUS
    <2>2. /\ DOMAIN now = Runs /\ DOMAIN old = Runs
          /\ \A r \in Runs : now[r] = PhaseOf(runs'[r]) /\ old[r] = PhaseOf(runs[r])
      BY <1>2, <2>1
    <2>3. \A r \in Runs : now[r] = IF r = n THEN PhaseOf(new) ELSE old[r]
      BY <1>1, <2>2
    <2>4. now = [r \in Runs |-> now[r]]
      BY <1>2, <2>1
    <2>5. now = [old EXCEPT ![n] = PhaseOf(new)]
      BY <2>2, <2>3, <2>4
    <2> QED BY <2>1, <2>2, <2>5
  <1>4. CASE PhaseOf(new) = PhaseOf(runs[n])
    <2>1. phase' = phase
      BY <1>2, <1>3, <1>4
    <2> QED BY <2>1
  <1>5. CASE <<PhaseOf(runs[n]), PhaseOf(new)>> \in LifecycleMoves
    <2>1. \A from, to : PhaseOf(runs[n]) = from /\ PhaseOf(new) = to => Lifecycle!Move(n, from, to)
      BY <1>3 DEF Lifecycle!Move, phase
    <2>2. Lifecycle!Launch(n) \/ Lifecycle!Stop(n) \/ Lifecycle!End(n) \/ Lifecycle!Report(n)
      BY <1>5, <2>1 DEF LifecycleMoves, Lifecycle!Launch, Lifecycle!Stop, Lifecycle!End, Lifecycle!Report
    <2>3. Lifecycle!Next
      BY <2>2 DEF Lifecycle!Next
    <2> QED BY <2>3
  <1> QED BY <1>4, <1>5

LEMMA StopMoves ==
  ASSUME IInv, NEW t \in Tabs, runs' = Stopped(t)
  PROVE  [Lifecycle!Next]_phase
  <1>1. CASE registry[t] = 0
    BY <1>1, StillPhases DEF Stopped
  <1>2. CASE registry[t] # 0
    <2>1. PICK n, new : n = registry[t] /\ new = [runs[n] EXCEPT !.flag = TRUE]
      OBVIOUS
    <2>2. n \in Launched /\ n \in Runs /\ runs[n] \in RunSet
      BY <1>2, <2>1 DEF IInv, RunsInv, TypeInv, Launched
    <2>3. /\ new \in RunSet /\ new.kind = runs[n].kind /\ new.flag /\ new.end = runs[n].end
      BY <2>1, <2>2 DEF RunSet
    <2>4. runs' = [runs EXCEPT ![n] = new]
      BY <1>2, <2>1, <2>2 DEF Stopped, IInv, TypeInv
    <2>5. \/ PhaseOf(new) = PhaseOf(runs[n])
          \/ <<PhaseOf(runs[n]), PhaseOf(new)>> \in LifecycleMoves
      BY <2>2, <2>3 DEF PhaseOf, LifecycleMoves, RunSet
    <2> QED BY <2>2, <2>3, <2>4, <2>5, OneMoves
  <1> QED BY <1>1, <1>2

LEMMA EndingMoves ==
  ASSUME IInv, NEW r \in Runs, NEW thread \in runs[r].threads, runs' = Ending(r, thread)
  PROVE  [Lifecycle!Next]_phase
  <1>1. r \in Launched /\ runs[r] \in RunSet /\ runs[r].kind # "none"
    BY BusyRun DEF Launched
  <1>2. PICK new : new = [runs[r] EXCEPT !.flag = TRUE, !.end = IF runs[r].flag THEN runs[r].end ELSE "owed",
                                         !.threads = (runs[r].threads \ {thread}) \cup {"finalizer"}]
    OBVIOUS
  <1>3. /\ new \in RunSet /\ new.kind = runs[r].kind /\ new.flag
        /\ new.end = IF runs[r].flag THEN runs[r].end ELSE "owed"
    BY <1>1, <1>2 DEF RunSet
  <1>4. runs' = [runs EXCEPT ![r] = new]
    BY <1>1, <1>2 DEF Ending, IInv, TypeInv
  <1>5. ~ runs[r].flag => runs[r].end = "none"
    BY <1>1 DEF IInv, RunsInv
  <1>6. \/ PhaseOf(new) = PhaseOf(runs[r])
        \/ <<PhaseOf(runs[r]), PhaseOf(new)>> \in LifecycleMoves
    BY <1>1, <1>3, <1>5 DEF PhaseOf, LifecycleMoves, RunSet
  <1> QED BY <1>3, <1>4, <1>6, OneMoves

LEMMA ThreadMoves ==
  ASSUME IInv, NEW r \in Runs, Leaves(r) \/ Read(r) \/ Poll(r)
  PROVE  [Lifecycle!Next]_phase
  <1>1. runs[r] \in RunSet
    BY DEF IInv, TypeInv
  <1>2. ASSUME NEW threads \in SUBSET {"connector", "reader", "watcher", "finalizer"},
               runs' = [runs EXCEPT ![r].threads = threads]
        PROVE  [Lifecycle!Next]_phase
    <2>1. PICK new : new = [runs[r] EXCEPT !.threads = threads]
      OBVIOUS
    <2>2. new \in RunSet /\ new.kind = runs[r].kind /\ new.flag = runs[r].flag /\ new.end = runs[r].end
      BY <1>1, <1>2, <2>1 DEF RunSet
    <2>3. PhaseOf(new) = PhaseOf(runs[r])
      BY <2>2 DEF PhaseOf
    <2>4. runs' = [runs EXCEPT ![r] = new]
      BY <1>2, <2>1 DEF IInv, TypeInv
    <2> QED BY <2>2, <2>3, <2>4, OneMoves
  <1>3. ASSUME NEW thread \in runs[r].threads, Quit(r, thread) PROVE [Lifecycle!Next]_phase
    <2>1. PICK threads : threads = runs[r].threads \ {thread}
      OBVIOUS
    <2>2. threads \in SUBSET {"connector", "reader", "watcher", "finalizer"}
      BY <1>1, <2>1 DEF RunSet
    <2>3. runs' = [runs EXCEPT ![r].threads = threads]
      BY <1>3, <2>1 DEF Quit, IInv, TypeInv
    <2> QED BY <1>2, <2>2, <2>3
  <1>4. CASE Connect(r)
    <2>1. CASE runs' = Ending(r, "connector")
      BY <1>4, <2>1, EndingMoves DEF Connect
    <2>2. CASE runs' = [runs EXCEPT ![r].threads = IF runs[r].flag THEN {} ELSE {"reader"}]
      <3>1. PICK threads : threads = IF runs[r].flag THEN {} ELSE {"reader"}
        OBVIOUS
      <3>2. threads \in SUBSET {"connector", "reader", "watcher", "finalizer"}
        BY <3>1
      <3> QED BY <1>2, <2>2, <3>1, <3>2
    <2> QED BY <1>4, <2>1, <2>2 DEF Connect
  <1>5. CASE ReaderLeaves(r)
    BY <1>3, <1>5 DEF ReaderLeaves
  <1>6. CASE ReaderEnds(r)
    BY <1>6, EndingMoves DEF ReaderEnds
  <1>7. CASE Watch(r)
    BY <1>3, <1>7, EndingMoves DEF Watch
  <1>8. CASE Finalize(r)
    <2>1. /\ "finalizer" \in runs[r].threads
          /\ runs' = [runs EXCEPT ![r].threads = runs[r].threads \ {"finalizer"},
                                  ![r].end = IF runs[r].end = "owed" THEN "told" ELSE runs[r].end]
      BY <1>8 DEF Finalize
    <2>2. PICK new : new = [runs[r] EXCEPT !.threads = runs[r].threads \ {"finalizer"},
                                           !.end = IF runs[r].end = "owed" THEN "told" ELSE runs[r].end]
      OBVIOUS
    <2>3. /\ new \in RunSet /\ new.kind = runs[r].kind /\ new.flag = runs[r].flag
          /\ new.end = IF runs[r].end = "owed" THEN "told" ELSE runs[r].end
      BY <1>1, <2>2 DEF RunSet
    <2>4. runs' = [runs EXCEPT ![r] = new]
      BY <2>1, <2>2 DEF IInv, TypeInv
    <2>5. runs[r].kind # "none"
      BY <2>1, BusyRun DEF Launched
    <2>6. \/ PhaseOf(new) = PhaseOf(runs[r])
          \/ <<PhaseOf(runs[r]), PhaseOf(new)>> \in LifecycleMoves
      BY <2>3, <2>5 DEF PhaseOf, LifecycleMoves
    <2> QED BY <2>3, <2>4, <2>6, OneMoves
  <1>9. CASE Read(r) \/ Poll(r)
    <2>1. runs' = [runs EXCEPT ![r].said = TRUE]
      BY <1>9 DEF Read, Poll
    <2>2. PICK new : new = [runs[r] EXCEPT !.said = TRUE]
      OBVIOUS
    <2>3. new \in RunSet /\ new.kind = runs[r].kind /\ new.flag = runs[r].flag /\ new.end = runs[r].end
      BY <1>1, <2>2 DEF RunSet
    <2>4. PhaseOf(new) = PhaseOf(runs[r])
      BY <2>3 DEF PhaseOf
    <2>5. runs' = [runs EXCEPT ![r] = new]
      BY <2>1, <2>2 DEF IInv, TypeInv
    <2> QED BY <2>3, <2>4, <2>5, OneMoves
  <1> QED BY <1>4, <1>5, <1>6, <1>7, <1>8, <1>9 DEF Leaves

LEMMA LaunchMoves ==
  ASSUME IInv, Start, NEW c, c = Head(commands), NEW thread \in {"connector", "reader", "watcher"},
         Launch(c, thread)
  PROVE  [Lifecycle!Next]_phase
  <1>1. commands # <<>> /\ main = 0 /\ c.cmd = "start" /\ c.kind # "none" /\ registry[c.tab] = 0
    BY DEF Start, Serve
  <1>2. c = commands[1]
    BY <1>1, ServedFacts DEF IInv, TypeInv
  <1>3. /\ NextRun \in Runs /\ runs[NextRun].kind = "none" /\ runs'[NextRun].kind = c.kind
        /\ runs' \in [Runs -> RunSet]
        /\ ~ runs'[NextRun].flag /\ runs'[NextRun].end = "none"
    BY <1>1, <1>2, LaunchFacts
  <1>4. c.kind \in Live
    BY <1>1, <1>2, ServedCommand DEF AnyLive
  <1>5. PICK n, new : n = NextRun /\ new = NewRun(c.tab, c.kind, thread)
    OBVIOUS
  <1>6. runs' = [runs EXCEPT ![n] = new] /\ new = runs'[n]
    BY <1>3, <1>5 DEF Launch, IInv, TypeInv
  <1>7. new \in RunSet /\ new.kind = c.kind /\ ~ new.flag /\ new.end = "none"
    BY <1>3, <1>5, <1>6
  <1>8. PhaseOf(runs[n]) = "new" /\ PhaseOf(new) = "live"
    <2>1. runs[n] = NoRun
      BY <1>3, <1>5 DEF IInv, RunsInv
    <2>2. new.kind # "none" /\ ~ new.flag /\ new.end = "none"
      BY <1>4, <1>7 DEF Live
    <2> QED BY <2>1, <2>2 DEF PhaseOf, NoRun
  <1> QED BY <1>3, <1>5, <1>6, <1>7, <1>8, OneMoves DEF LifecycleMoves

LEMMA LifecycleStep == IInv /\ [Next]_vars => [Lifecycle!Next]_phase
  <1> SUFFICES ASSUME IInv, [Next]_vars PROVE [Lifecycle!Next]_phase
    OBVIOUS
  <1>1. CASE User \/ Listen \/ (\E o \in Slots : Resume(o)) \/ UNCHANGED vars
    <2>1. runs' = runs
      BY <1>1 DEF User, OpenSession, RemoveSession, RemoveFolder, EditSession, RestartTab, CloseTab, SendInput,
                  Listen, Resume, RestartSeeds, Painted, StartAnswered, RemoveContinues, SessionRemoved,
                  FolderRemoved, SessionEdited, GivenUp, InputAnswered, vars, backend
    <2> QED BY <2>1, StillPhases
  <1>2. CASE SaveOrDelete \/ WriteInput \/ RefuseStart \/ Register
    <2>1. runs' = runs
      BY <1>2 DEF SaveOrDelete, WriteInput, RefuseStart, Register, backend
    <2> QED BY <2>1, StillPhases
  <1>3. CASE StopTerminal \/ StopFirst
    <2>1. /\ commands # <<>> /\ Head(commands).cmd # "disk"
          /\ runs' = Stopped(Head(commands).tab)
      BY <1>3 DEF StopTerminal, StopFirst, Serve
    <2>2. Head(commands).tab \in Tabs
      BY <2>1, ServedFacts, ServedCommand DEF IInv, TypeInv
    <2> QED BY <2>1, <2>2, StopMoves
  <1>4. CASE StartTelnet
    BY <1>4, LaunchMoves DEF StartTelnet
  <1>5. CASE Spawn
    <2>1. PICK c : c = Head(commands)
      OBVIOUS
    <2>2. /\ Start /\ c.kind \in {"local", "serial"}
          /\ runs' = runs \/ Launch(c, Reporter[c.kind])
      BY <1>5, <2>1 DEF Spawn
    <2>3. Reporter[c.kind] \in {"connector", "reader", "watcher"}
      BY <2>2 DEF Reporter
    <2> QED BY <2>1, <2>2, <2>3, StillPhases, LaunchMoves
  <1>6. ASSUME NEW r \in Runs, Leaves(r) \/ Read(r) \/ Poll(r) PROVE [Lifecycle!Next]_phase
    BY <1>6, ThreadMoves
  <1> QED BY <1>1, <1>2, <1>3, <1>4, <1>5, <1>6 DEF Next, MainThread

(* A local, Telnet or serial session is launched once, and either stopped  *)
(* in silence or ended by itself and reported by one exit event, whatever  *)
(* the order of stop_terminal, finalize_terminal and a later start.        *)
THEOREM RunsFollowLifecycle == Spec => ImplementsLifecycle
  <1>1. Init => Lifecycle!Init
    <2> SUFFICES ASSUME Init PROVE Lifecycle!Init
      OBVIOUS
    <2>1. \A r \in Runs : Phase(r) = "new"
      BY DEF Init, Phase, NoRun
    <2> QED BY <2>1 DEF Lifecycle!Init
  <1>2. IInv /\ [Next]_vars => [Lifecycle!Next]_phase
    BY LifecycleStep
  <1>3. [Lifecycle!Next]_phase <=> [Lifecycle!Next]_([r \in Runs |-> Phase(r)])
    BY DEF phase
  <1> QED BY <1>1, <1>2, <1>3, Invariance, PTL DEF Spec, ImplementsLifecycle, Lifecycle!Spec

-----------------------------------------------------------------------------
(* What the window shows of an end.  The invariant follows an exit event   *)
(* from finalize_terminal to the listener.                                 *)

EventSet == [kind : {"output", "exit", "status"}, tab : Tabs]
TraceSet == [fed : BOOLEAN, stopped : {"unset", "no", "yes"},
             mode : {"none", "error", "offline", "live"}]

HeardTypes == events \in Seq(EventSet) /\ traces \in [Tabs -> TraceSet]

ThreadSets == {{}, {"connector"}, {"reader"}, {"watcher"}, {"finalizer"}}

(* A run has one thread that can end it, which is gone when its end was    *)
(* told.                                                                   *)
OneThread(run) ==
  /\ run.threads \in ThreadSets
  /\ run.end # "none" => run.threads \subseteq {"finalizer"}
  /\ run.end = "told" => run.threads = {}

(* Runs are launched in order, and over a run that still has a thread only *)
(* in a hasty tab.                                                         *)
HistoryInv ==
  /\ \A r \in Launched :
       /\ OneThread(runs[r]) /\ info[runs[r].tab] # NoTab
       /\ \A q \in 1 .. r : q \in Launched
       /\ \A q \in Launched :
            q < r /\ runs[q].tab = runs[r].tab /\ runs[q].threads # {} => runs[r].tab \in hasty
  /\ main # 0 => runs[main].kind # "telnet"

(* Only the poller of a local run speaks of a status.                      *)
StatusInv ==
  \A i \in 1 .. Len(events) : events[i].kind = "status" =>
    \E r \in Launched : runs[r].tab = events[i].tab /\ runs[r].kind = "local"

(* A start that was not carried out.                                       *)
Pending(t) ==
  \E o \in Slots : /\ ops[o] # Idle /\ ops[o].what = "start" /\ ops[o].tab = t
                   /\ ops[o].at = "start" => ops[o].answer # "ok"

Over(t) ==
  /\ t \in Open \ hasty
  /\ \A q \in Launched : runs[q].tab = t => runs[q].kind = "telnet" /\ runs[q].threads = {}
  /\ \E r \in LastRun(t) : runs[r].end = "told"

Shown(t) == traces[t].stopped = "yes" \/ traces[t].mode = "error" \/ Pending(t)

ExitDue(t) == \E j \in 1 .. Len(events) : events[j] = Event("exit", t)

(* No output is heard after the exit, and the exit is shown until a new    *)
(* start is under way or has failed.                                       *)
LastWord(t) ==
  \A i \in 1 .. Len(events) : events[i] = Event("output", t) =>
    \E j \in 1 .. Len(events) : i < j /\ events[j] = Event("exit", t)

EndInv == \A t \in Tabs : Over(t) => LastWord(t) /\ (Shown(t) \/ ExitDue(t))

EInv == HeardTypes /\ HistoryInv /\ StatusInv /\ EndInv

(* Runs do not change.                                                     *)
LEMMA SameHistory ==
  ASSUME IInv, HistoryInv, runs' = runs, main' = main \/ main' = 0, hasty \subseteq hasty',
         \A t \in Tabs : info[t] # NoTab => info'[t] # NoTab
  PROVE  HistoryInv' /\ Launched' = Launched
  <1>1. Launched' = Launched
    BY DEF Launched
  <1>2. ASSUME NEW r \in Launched
        PROVE  /\ OneThread(runs[r]) /\ info'[runs[r].tab] # NoTab
               /\ \A q \in 1 .. r : q \in Launched
               /\ \A q \in Launched :
                    q < r /\ runs[q].tab = runs[r].tab /\ runs[q].threads # {} => runs[r].tab \in hasty'
    <2>1. runs[r].tab \in Tabs
      BY DEF IInv, RunsInv
    <2> QED BY <2>1 DEF HistoryInv
  <1>3. main' # 0 => runs[main'].kind # "telnet"
    BY DEF HistoryInv
  <1> QED BY <1>1, <1>2, <1>3 DEF HistoryInv

(* One run moves on.                                                       *)
LEMMA OneHistory ==
  ASSUME IInv, HistoryInv, NEW r \in Launched, NEW new, runs' = [runs EXCEPT ![r] = new],
         new.tab = runs[r].tab, new.kind = runs[r].kind, OneThread(new),
         new.threads # {} => runs[r].threads # {},
         main' = main \/ main' = 0, UNCHANGED <<info, hasty>>
  PROVE  HistoryInv' /\ Launched' = Launched
  <1>1. /\ r \in Runs /\ runs'[r] = new /\ \A q \in Runs \ {r} : runs'[q] = runs[q]
    BY DEF Launched, IInv, TypeInv
  <1>2. \A q \in Runs : /\ runs'[q].tab = runs[q].tab /\ runs'[q].kind = runs[q].kind
                        /\ runs'[q].threads # {} => runs[q].threads # {}
    BY <1>1
  <1>3. Launched' = Launched /\ Launched \subseteq Runs
    BY <1>2 DEF Launched
  <1>4. ASSUME NEW p \in Launched
        PROVE  /\ OneThread(runs'[p]) /\ info[runs'[p].tab] # NoTab
               /\ \A q \in 1 .. p : q \in Launched
               /\ \A q \in Launched :
                    q < p /\ runs'[q].tab = runs'[p].tab /\ runs'[q].threads # {} => runs'[p].tab \in hasty
    <2>1. OneThread(runs'[p])
      BY <1>1, <1>3 DEF HistoryInv
    <2>2. info[runs'[p].tab] # NoTab /\ \A q \in 1 .. p : q \in Launched
      BY <1>2, <1>3 DEF HistoryInv
    <2>3. \A q \in Launched :
            q < p /\ runs'[q].tab = runs'[p].tab /\ runs'[q].threads # {} => runs'[p].tab \in hasty
      BY <1>2, <1>3 DEF HistoryInv
    <2> QED BY <2>1, <2>2, <2>3
  <1>5. main' # 0 => runs'[main'].kind # "telnet"
    <2>1. main' # 0 => main' \in Launched /\ runs[main'].kind # "telnet"
      BY DEF HistoryInv, IInv, RunsInv
    <2> QED BY <1>2, <1>3, <2>1
  <1> QED BY <1>3, <1>4, <1>5 DEF HistoryInv

(* Events.                                                                 *)
LEMMA EventFacts ==
  ASSUME NEW q \in Seq(EventSet)
  PROVE  /\ Len(q) \in Nat
         /\ \A e \in EventSet :
              /\ Append(q, e) \in Seq(EventSet) /\ Len(Append(q, e)) = Len(q) + 1
              /\ \A i \in 1 .. Len(q) : Append(q, e)[i] = q[i]
              /\ Append(q, e)[Len(q) + 1] = e
         /\ q # <<>> =>
              /\ 1 \in 1 .. Len(q) /\ Head(q) = q[1] /\ q[1] \in EventSet
              /\ Tail(q) \in Seq(EventSet) /\ Len(Tail(q)) = Len(q) - 1
              /\ \A i \in 1 .. Len(q) - 1 : Tail(q)[i] = q[i + 1]
  <1>1. Len(q) \in Nat
    BY LenProperties
  <1>2. ASSUME NEW e \in EventSet
        PROVE  /\ Append(q, e) \in Seq(EventSet) /\ Len(Append(q, e)) = Len(q) + 1
               /\ \A i \in 1 .. Len(q) : Append(q, e)[i] = q[i]
               /\ Append(q, e)[Len(q) + 1] = e
    BY AppendProperties
  <1>3. ASSUME q # <<>>
        PROVE  /\ 1 \in 1 .. Len(q) /\ Head(q) = q[1] /\ q[1] \in EventSet
               /\ Tail(q) \in Seq(EventSet) /\ Len(Tail(q)) = Len(q) - 1
               /\ \A i \in 1 .. Len(q) - 1 : Tail(q)[i] = q[i + 1]
    <2>1. Len(q) # 0 /\ 1 \in 1 .. Len(q)
      BY <1>1, <1>3, EmptySeq
    <2>2. Head(q) = q[1] /\ q[1] \in EventSet
      BY <1>3, <2>1, ElementOfSeq, HeadTailProperties
    <2>3. /\ Tail(q) \in Seq(EventSet) /\ Len(Tail(q)) = Len(q) - 1
          /\ \A i \in 1 .. Len(Tail(q)) : Tail(q)[i] = q[i + 1]
      BY <1>3, HeadTailProperties
    <2> QED BY <2>1, <2>2, <2>3
  <1> QED BY <1>1, <1>2, <1>3

LEMMA EventKinds ==
  ASSUME NEW t, NEW u
  PROVE  /\ Event("output", t) # Event("exit", u) /\ Event("status", t) # Event("exit", u)
         /\ Event("output", t) = Event("output", u) <=> t = u
         /\ Event("exit", t) = Event("exit", u) <=> t = u
         /\ Event("status", t) # Event("output", u)
  BY DEF Event

(* An event that is added leaves what is due to other tabs.                *)
LEMMA OtherEvent ==
  ASSUME HeardTypes, NEW e \in EventSet, NEW t, e.tab # t, events' = Append(events, e), LastWord(t)
  PROVE  LastWord(t)' /\ (ExitDue(t) => ExitDue(t)')
  <1>1. /\ Len(events) \in Nat /\ Len(events') = Len(events) + 1
        /\ \A i \in 1 .. Len(events) : events'[i] = events[i]
        /\ events'[Len(events) + 1] = e
    BY EventFacts DEF HeardTypes
  <1>2. e # Event("output", t) /\ e # Event("exit", t)
    BY DEF Event
  <1>3. \A i \in 1 .. Len(events') : i \in 1 .. Len(events) \/ i = Len(events) + 1
    BY <1>1
  <1>4. \A i \in 1 .. Len(events) : i \in 1 .. Len(events')
    BY <1>1
  <1>5. ASSUME NEW i \in 1 .. Len(events'), events'[i] = Event("output", t)
        PROVE  \E j \in 1 .. Len(events') : i < j /\ events'[j] = Event("exit", t)
    <2>1. i \in 1 .. Len(events) /\ events[i] = Event("output", t)
      BY <1>1, <1>2, <1>3, <1>5
    <2>2. PICK j \in 1 .. Len(events) : i < j /\ events[j] = Event("exit", t)
      BY <2>1 DEF LastWord
    <2> QED BY <1>1, <1>4, <2>2
  <1>6. ASSUME ExitDue(t) PROVE ExitDue(t)'
    BY <1>1, <1>4, <1>6 DEF ExitDue
  <1> QED BY <1>5, <1>6 DEF LastWord

(* An exit is the last word.                                               *)
LEMMA ExitEvent ==
  ASSUME HeardTypes, NEW t \in Tabs, events' = Append(events, Event("exit", t))
  PROVE  LastWord(t)' /\ ExitDue(t)'
  <1>1. Event("exit", t) \in EventSet
    BY DEF Event, EventSet
  <1>2. /\ Len(events) \in Nat /\ Len(events') = Len(events) + 1
        /\ events'[Len(events) + 1] = Event("exit", t)
    BY <1>1, EventFacts DEF HeardTypes
  <1>3. \A i \in 1 .. Len(events') : i = Len(events) + 1 \/ i < Len(events) + 1
    BY <1>2
  <1>4. Len(events) + 1 \in 1 .. Len(events')
    BY <1>2
  <1>5. Event("exit", t) # Event("output", t)
    BY EventKinds
  <1>6. LastWord(t)'
    BY <1>2, <1>3, <1>4, <1>5 DEF LastWord
  <1>7. ExitDue(t)'
    BY <1>2, <1>4 DEF ExitDue
  <1> QED BY <1>6, <1>7

(* Events are left, and ends stay what they were.                          *)
LEMMA SameEnds ==
  ASSUME EndInv, events' = events,
         \A t \in Tabs : Over(t)' => Over(t) /\ (Shown(t) => Shown(t)')
  PROVE  EndInv'
  <1>1. \A t : LastWord(t)' = LastWord(t) /\ ExitDue(t)' = ExitDue(t)
    BY DEF LastWord, ExitDue
  <1> QED BY <1>1 DEF EndInv

(* Who ends where a run moves on.                                          *)
LEMMA OneOver ==
  ASSUME IInv, HistoryInv, NEW r \in Launched, NEW new, runs' = [runs EXCEPT ![r] = new],
         new.tab = runs[r].tab, new.kind = runs[r].kind,
         new.end = "told" => runs[r].end # "none",
         row' = row, hasty' = hasty
  PROVE  \A t \in Tabs : Over(t)' =>
           \/ Over(t)
           \/ runs[r].tab = t /\ runs[r].end = "owed" /\ new.end = "told"
  <1> SUFFICES ASSUME NEW t \in Tabs, Over(t)'
               PROVE  \/ Over(t)
                      \/ runs[r].tab = t /\ runs[r].end = "owed" /\ new.end = "told"
    OBVIOUS
  <1>1. /\ r \in Runs /\ runs'[r] = new /\ \A q \in Runs \ {r} : runs'[q] = runs[q]
        /\ runs[r] \in RunSet
    BY DEF Launched, IInv, TypeInv
  <1>2. Launched' = Launched /\ Launched \subseteq Runs /\ Open' = Open
    BY <1>1 DEF Launched, Open
  <1>3. \A q \in Launched : runs'[q].tab = runs[q].tab /\ runs'[q].kind = runs[q].kind
    BY <1>1, <1>2
  <1>4. PICK u \in LastRun(t)' : runs'[u].end = "told"
    BY DEF Over
  <1>5. u \in LastRun(t) /\ u \in Launched /\ runs[u].tab = t
    BY <1>2, <1>3, <1>4 DEF LastRun
  <1>6. /\ t \in Open \ hasty
        /\ \A q \in Launched : runs[q].tab = t => runs[q].kind = "telnet" /\ runs'[q].threads = {}
    BY <1>2, <1>3 DEF Over
  <1>7. CASE runs[r].tab # t
    <2>1. \A q \in Launched : runs[q].tab = t => runs'[q] = runs[q]
      BY <1>1, <1>2, <1>7
    <2> QED BY <1>4, <1>5, <1>6, <2>1 DEF Over
  <1>8. CASE runs[r].tab = t /\ u = r
    <2>1. runs[r].end \in {"owed", "told"}
      BY <1>1, <1>4, <1>8 DEF RunSet
    <2>2. CASE runs[r].end = "told"
      <3>1. runs[r].threads = {}
        BY <2>2 DEF HistoryInv, OneThread
      <3>2. \A q \in Launched : runs[q].tab = t => runs[q].threads = {}
        BY <1>1, <1>2, <1>6, <3>1
      <3> QED BY <1>5, <1>6, <1>8, <2>2, <3>2 DEF Over
    <2> QED BY <1>1, <1>4, <1>8, <2>1, <2>2
  <1>9. CASE runs[r].tab = t /\ u # r
    <2>1. r <= u /\ r \in Nat /\ u \in Nat
      BY <1>2, <1>5, <1>9 DEF LastRun, Runs
    <2>2. r < u
      BY <1>9, <2>1
    <2>3. runs[r].threads = {}
      BY <1>5, <1>6, <1>9, <2>2 DEF HistoryInv
    <2>4. \A q \in Launched : runs[q].tab = t => runs[q].threads = {}
      BY <1>1, <1>2, <1>6, <2>3
    <2> QED BY <1>1, <1>2, <1>4, <1>5, <1>6, <1>9, <2>4 DEF Over
  <1> QED BY <1>7, <1>8, <1>9

(* What a thread does to its run, and what it says.                        *)
Moved(r, new) ==
  /\ new \in RunSet /\ runs' = [runs EXCEPT ![r] = new]
  /\ new.tab = runs[r].tab /\ new.kind = runs[r].kind /\ OneThread(new)
  /\ new.threads # {} => runs[r].threads # {}

Reports(r, new) ==
  runs[r].end = "owed" /\ new.end = "told" /\ events' = Append(events, Event("exit", runs[r].tab))

Mutters(r, new) ==
  /\ new.end = "told" => runs[r].end = "told"
  /\ \/ events' = events
     \/ /\ runs[r].threads # {} \/ runs[r].kind = "local"
        /\ events' = Append(events, Event("output", runs[r].tab))
     \/ runs[r].kind = "local" /\ events' = Append(events, Event("status", runs[r].tab))

LEMMA EndingMoved ==
  ASSUME IInv, HistoryInv, NEW r \in Runs, NEW thread \in runs[r].threads, thread # "finalizer",
         runs' = Ending(r, thread)
  PROVE  \E new : Moved(r, new) /\ (new.end = "told" => runs[r].end = "told")
  <1>1. r \in Launched /\ runs[r] \in RunSet /\ OneThread(runs[r])
    BY BusyRun DEF HistoryInv
  <1>2. runs[r].threads = {thread} /\ runs[r].end = "none"
    <2>1. runs[r].threads = {thread}
      BY <1>1 DEF OneThread, ThreadSets
    <2> QED BY <1>1, <2>1 DEF OneThread
  <1>3. PICK new : new = [runs[r] EXCEPT !.flag = TRUE, !.end = IF runs[r].flag THEN runs[r].end ELSE "owed",
                                         !.threads = (runs[r].threads \ {thread}) \cup {"finalizer"}]
    OBVIOUS
  <1>4. /\ new \in RunSet /\ new.tab = runs[r].tab /\ new.kind = runs[r].kind
        /\ new.end \in {"none", "owed"} /\ new.threads = {"finalizer"}
    BY <1>1, <1>2, <1>3 DEF RunSet
  <1>5. OneThread(new)
    BY <1>4 DEF OneThread, ThreadSets
  <1>6. runs' = [runs EXCEPT ![r] = new]
    BY <1>1, <1>3 DEF Ending, IInv, TypeInv
  <1>7. Moved(r, new) /\ (new.end = "told" => runs[r].end = "told")
    BY <1>4, <1>5, <1>6 DEF Moved
  <1> QED BY <1>7

LEMMA QuitMoved ==
  ASSUME IInv, HistoryInv, NEW r \in Runs, NEW threads \in {{}, {"reader"}},
         runs[r].threads # {} /\ runs[r].threads # {"finalizer"},
         runs' = [runs EXCEPT ![r].threads = threads]
  PROVE  \E new : Moved(r, new) /\ (new.end = "told" => runs[r].end = "told")
  <1>1. r \in Launched /\ runs[r] \in RunSet /\ OneThread(runs[r])
    BY BusyRun DEF HistoryInv
  <1>2. runs[r].end = "none"
    BY <1>1 DEF OneThread, RunSet
  <1>3. PICK new : new = [runs[r] EXCEPT !.threads = threads]
    OBVIOUS
  <1>4. /\ new \in RunSet /\ new.tab = runs[r].tab /\ new.kind = runs[r].kind
        /\ new.end = "none" /\ new.threads = threads
    BY <1>1, <1>2, <1>3 DEF RunSet
  <1>5. OneThread(new)
    BY <1>4 DEF OneThread, ThreadSets
  <1>6. runs' = [runs EXCEPT ![r] = new]
    BY <1>1, <1>3 DEF IInv, TypeInv
  <1>7. Moved(r, new) /\ (new.end = "told" => runs[r].end = "told")
    BY <1>4, <1>5, <1>6 DEF Moved
  <1> QED BY <1>7

LEMMA ThreadMoved ==
  ASSUME IInv, HistoryInv, NEW r \in Runs, Leaves(r) \/ Read(r) \/ Poll(r)
  PROVE  /\ r \in Launched /\ UNCHANGED <<window, ops, commands, main, hasty>>
         /\ \E new : Moved(r, new) /\ (Reports(r, new) \/ Mutters(r, new))
  <1>1. UNCHANGED <<window, ops, commands, main, hasty>>
    BY DEF Leaves, Connect, ReaderLeaves, ReaderEnds, Watch, Finalize, Read, Poll, Thread
  <1>2. r \in Launched /\ runs[r] \in RunSet /\ OneThread(runs[r])
    <2>1. runs[r].threads # {} \/ runs[r].kind = "local"
      BY DEF Leaves, Connect, ReaderLeaves, ReaderEnds, Watch, Finalize, Read, Poll, CanSpeak
    <2>2. r \in Launched
      BY <2>1, BusyRun DEF Launched
    <2> QED BY <2>2 DEF HistoryInv, IInv, TypeInv
  <1>3. CASE Connect(r)
    <2>1. "connector" \in runs[r].threads
      BY <1>3 DEF Connect
    <2>2. PICK new : Moved(r, new) /\ (new.end = "told" => runs[r].end = "told")
      <3>1. CASE runs' = Ending(r, "connector")
        BY <2>1, <3>1, EndingMoved
      <3>2. CASE runs' = [runs EXCEPT ![r].threads = IF runs[r].flag THEN {} ELSE {"reader"}]
        <4>1. PICK threads \in {{}, {"reader"}} : threads = IF runs[r].flag THEN {} ELSE {"reader"}
          OBVIOUS
        <4>2. runs' = [runs EXCEPT ![r].threads = threads]
          BY <3>2, <4>1
        <4>3. runs[r].threads # {} /\ runs[r].threads # {"finalizer"}
          BY <2>1
        <4> QED BY <4>2, <4>3, QuitMoved
      <3> QED BY <1>3, <3>1, <3>2 DEF Connect
    <2>3. events' = events \/ events' = Append(events, Event("output", runs[r].tab))
      BY <1>3 DEF Connect, Emit
    <2>4. Mutters(r, new)
      BY <2>1, <2>2, <2>3 DEF Mutters
    <2> QED BY <1>1, <1>2, <2>2, <2>4
  <1>4. CASE ReaderLeaves(r) \/ ReaderEnds(r) \/ Watch(r)
    <2>1. PICK thread \in runs[r].threads : /\ thread \in {"reader", "watcher"}
                                            /\ Quit(r, thread) \/ runs' = Ending(r, thread)
      BY <1>4 DEF ReaderLeaves, ReaderEnds, Watch
    <2>2. runs[r].threads = {thread}
      BY <1>2, <2>1 DEF OneThread, ThreadSets
    <2>3. PICK new : Moved(r, new) /\ (new.end = "told" => runs[r].end = "told")
      <3>1. CASE Quit(r, thread)
        <4>1. runs' = [runs EXCEPT ![r].threads = {}]
          BY <1>2, <2>2, <3>1 DEF Quit, IInv, TypeInv
        <4> QED BY <2>1, <2>2, <4>1, QuitMoved
      <3>2. CASE runs' = Ending(r, thread)
        BY <2>1, <3>2, EndingMoved
      <3> QED BY <2>1, <3>1, <3>2
    <2>4. events' = events \/ events' = Append(events, Event("output", runs[r].tab))
      BY <1>4 DEF ReaderLeaves, ReaderEnds, Watch, Emit
    <2>5. Mutters(r, new)
      BY <2>1, <2>3, <2>4 DEF Mutters
    <2> QED BY <1>1, <1>2, <2>3, <2>5
  <1>5. CASE Finalize(r)
    <2>1. /\ "finalizer" \in runs[r].threads
          /\ runs' = [runs EXCEPT ![r].threads = runs[r].threads \ {"finalizer"},
                                  ![r].end = IF runs[r].end = "owed" THEN "told" ELSE runs[r].end]
          /\ IF runs[r].end = "owed" THEN Emit("exit", r) ELSE UNCHANGED events
      BY <1>5 DEF Finalize
    <2>2. PICK new : new = [runs[r] EXCEPT !.threads = runs[r].threads \ {"finalizer"},
                                           !.end = IF runs[r].end = "owed" THEN "told" ELSE runs[r].end]
      OBVIOUS
    <2>3. runs[r].threads = {"finalizer"}
      BY <1>2, <2>1 DEF OneThread, ThreadSets
    <2>4. /\ new \in RunSet /\ new.tab = runs[r].tab /\ new.kind = runs[r].kind
          /\ new.end = IF runs[r].end = "owed" THEN "told" ELSE runs[r].end
          /\ new.threads = {}
      BY <1>2, <2>2, <2>3 DEF RunSet
    <2>5. runs' = [runs EXCEPT ![r] = new]
      BY <2>1, <2>2 DEF IInv, TypeInv
    <2>6. Moved(r, new)
      BY <2>4, <2>5 DEF Moved, OneThread, ThreadSets
    <2>7. Reports(r, new) \/ Mutters(r, new)
      BY <2>1, <2>4 DEF Reports, Mutters, Emit
    <2> QED BY <1>1, <1>2, <2>6, <2>7
  <1>6. CASE Read(r) \/ Poll(r)
    <2>1. /\ runs' = [runs EXCEPT ![r].said = TRUE]
          /\ \/ /\ runs[r].threads # {} \/ runs[r].kind = "local"
                /\ events' = Append(events, Event("output", runs[r].tab))
             \/ runs[r].kind = "local" /\ events' = Append(events, Event("status", runs[r].tab))
      BY <1>6 DEF Read, Poll, CanSpeak, Emit
    <2>2. PICK new : new = [runs[r] EXCEPT !.said = TRUE]
      OBVIOUS
    <2>3. /\ new \in RunSet /\ new.tab = runs[r].tab /\ new.kind = runs[r].kind /\ new.end = runs[r].end
          /\ new.threads = runs[r].threads
      BY <1>2, <2>2 DEF RunSet
    <2>4. runs' = [runs EXCEPT ![r] = new]
      BY <2>1, <2>2 DEF IInv, TypeInv
    <2>5. Moved(r, new)
      BY <1>2, <2>3, <2>4 DEF Moved, OneThread
    <2>6. Mutters(r, new)
      BY <2>1, <2>3 DEF Mutters
    <2> QED BY <1>1, <1>2, <2>5, <2>6
  <1> QED BY <1>3, <1>4, <1>5, <1>6 DEF Leaves

(* A launch is the last of its tab.                                        *)
LEMMA LaunchHistory ==
  ASSUME IInv, HistoryInv, commands # <<>>, main = 0, NEW c, c = commands[1], c.cmd = "start",
         c.kind # "none", registry[c.tab] = 0, NEW thread \in {"connector", "reader", "watcher"},
         Launch(c, thread), main' = 0 \/ (main' = NextRun /\ c.kind # "telnet"), UNCHANGED <<row, info>>
  PROVE  HistoryInv' /\ \A t : Over(t)' => Over(t) /\ t # c.tab
  <1>1. PICK n, new : n = NextRun /\ new = NewRun(c.tab, c.kind, thread)
    OBVIOUS
  <1>2. /\ n \in Runs \ Launched /\ runs'[n].tab = c.tab /\ runs'[n].kind = c.kind /\ runs'[n].end = "none"
        /\ Launched' = Launched \cup {n} /\ hasty \subseteq hasty' /\ c.op \in Coming
        /\ \A r \in Runs : r # n => runs'[r] = runs[r]
    BY <1>1, LaunchFacts
  <1>3. \A q \in 1 .. n - 1 : q \in Launched
    <2>1. \A q \in 1 .. n - 1 : runs[q].kind # "none"
      BY <1>1, <1>2, NextRunFacts DEF IInv
    <2>2. \A q \in 1 .. n - 1 : q \in Runs
      BY <1>2, TabsAssumption DEF Runs
    <2> QED BY <2>1, <2>2 DEF Launched
  <1>4. /\ Launched \subseteq Nat /\ n \in Nat \ {0} /\ Launched \subseteq Runs \ {n}
        /\ \A r \in Launched : runs'[r] = runs[r] /\ runs[r].tab \in Tabs
    <2>1. Launched \subseteq Runs /\ Runs \subseteq Nat \ {0}
      BY TabsAssumption DEF Launched, Runs
    <2>2. \A r \in Launched : runs[r].tab \in Tabs
      BY DEF IInv, RunsInv
    <2> QED BY <1>2, <2>1, <2>2
  <1>5. \A r \in Launched : r < n
    <2>1. ASSUME NEW r \in Launched, ~ (r < n) PROVE FALSE
      <3>1. n \in 1 .. r
        BY <1>4, <2>1
      <3> QED BY <1>2, <3>1 DEF HistoryInv
    <2> QED BY <2>1
  <1>6. c.tab \in Tabs /\ info[c.tab] # NoTab /\ c.kind \in Live
    <2>1. c.tab \in Tabs /\ Starting(c.tab) /\ c.kind \in Live
      BY ServedCommand DEF AnyLive
    <2> QED BY <2>1 DEF IInv, NewInv
  <1>7. OneThread(runs'[n])
    <2>1. /\ new.threads = {thread} /\ new.end = "none" /\ runs'[n] = new
          /\ {thread} \in ThreadSets
      BY <1>1, <1>2 DEF Launch, NewRun, NoRun, IInv, TypeInv, ThreadSets
    <2> QED BY <2>1 DEF OneThread
  <1>8. ASSUME NEW r \in Launched'
        PROVE  /\ OneThread(runs'[r]) /\ info[runs'[r].tab] # NoTab
               /\ \A q \in 1 .. r : q \in Launched'
               /\ \A q \in Launched' :
                    q < r /\ runs'[q].tab = runs'[r].tab /\ runs'[q].threads # {} => runs'[r].tab \in hasty'
    <2>1. CASE r \in Launched
      <3>1. OneThread(runs'[r]) /\ info[runs'[r].tab] # NoTab /\ \A q \in 1 .. r : q \in Launched'
        BY <1>2, <1>4, <2>1 DEF HistoryInv
      <3>2. \A q \in Launched' : q < r => q \in Launched
        <4>1. ~ (n < r)
          <5>1. r < n /\ r \in Nat /\ n \in Nat
            BY <1>4, <1>5, <2>1
          <5> QED BY <5>1
        <4> QED BY <1>2, <4>1
      <3>3. \A q \in Launched :
              q < r /\ runs[q].tab = runs[r].tab /\ runs[q].threads # {} => runs[r].tab \in hasty
        BY <2>1 DEF HistoryInv
      <3> QED BY <1>2, <1>4, <2>1, <3>1, <3>2, <3>3
    <2>2. CASE r = n
      <3>1. \A q \in 1 .. n : q \in Launched'
        <4>1. \A q \in 1 .. n : q \in 1 .. n - 1 \/ q = n
          BY <1>4
        <4> QED BY <1>2, <1>3, <4>1
      <3>2. ASSUME NEW q \in Launched', q < n, runs'[q].tab = runs'[n].tab, runs'[q].threads # {}
            PROVE  runs'[n].tab \in hasty'
        <4>1. q \in Launched /\ runs'[q] = runs[q]
          BY <1>2, <1>4, <3>2
        <4>2. Overlap(c.tab)
          BY <1>2, <3>2, <4>1 DEF Overlap
        <4> QED BY <1>2, <4>2 DEF Launch
      <3> QED BY <1>2, <1>6, <1>7, <2>2, <3>1, <3>2
    <2> QED BY <1>2, <2>1, <2>2
  <1>9. main' # 0 => runs'[main'].kind # "telnet"
    BY <1>1, <1>2
  <1>10. HistoryInv'
    BY <1>8, <1>9 DEF HistoryInv
  <1>11. ASSUME NEW t, Over(t)' PROVE Over(t) /\ t # c.tab
    <2>1. PICK u \in LastRun(t)' : runs'[u].end = "told"
      BY <1>11 DEF Over
    <2>2. /\ u \in Launched' /\ runs'[u].tab = t
          /\ \A q \in Launched' : runs'[q].tab = t => q <= u
      BY <2>1 DEF LastRun
    <2>3. u # n
      BY <1>2, <2>1
    <2>4. u \in Launched
      BY <1>2, <2>2, <2>3
    <2>5. t # c.tab
      <3> SUFFICES ASSUME t = c.tab PROVE FALSE
        OBVIOUS
      <3>1. n <= u
        BY <1>2, <2>2
      <3> QED BY <1>4, <1>5, <2>4, <3>1
    <2>6. u \in LastRun(t)
      BY <1>2, <1>4, <2>2, <2>4 DEF LastRun
    <2>7. t \in Open \ hasty
      BY <1>2, <1>11 DEF Over, Open
    <2>8. \A q \in Launched : runs[q].tab = t => runs[q].kind = "telnet" /\ runs[q].threads = {}
      BY <1>2, <1>4, <1>11 DEF Over
    <2> QED BY <1>4, <2>1, <2>4, <2>5, <2>6, <2>7, <2>8 DEF Over
  <1> QED BY <1>10, <1>11

(* What the history says stays so.                                         *)
LEMMA ThreadHistory ==
  ASSUME IInv, HistoryInv, NEW r \in Runs, Leaves(r) \/ Read(r) \/ Poll(r)
  PROVE  HistoryInv'
  <1>1. r \in Launched /\ UNCHANGED <<window, ops, commands, main, hasty>>
    BY ThreadMoved
  <1>2. PICK new : Moved(r, new)
    BY ThreadMoved
  <1>3. UNCHANGED <<info, hasty>> /\ main' = main
    BY <1>1 DEF window
  <1> QED BY <1>1, <1>2, <1>3, OneHistory DEF Moved

LEMMA SameEnd ==
  ASSUME IInv, HistoryInv, NEW r \in Launched, NEW new, runs' = [runs EXCEPT ![r] = new],
         new.tab = runs[r].tab, new.kind = runs[r].kind, new.end = runs[r].end,
         row' = row, hasty' = hasty
  PROVE  \A t \in Tabs : Over(t)' => Over(t)
  BY OneOver

LEMMA StoppedHistory ==
  ASSUME IInv, HistoryInv, NEW t \in Tabs, runs' = Stopped(t),
         main' = main \/ main' = 0, UNCHANGED <<row, info, hasty>>
  PROVE  HistoryInv' /\ \A u \in Tabs : Over(u)' => Over(u)
  <1>1. CASE registry[t] = 0
    <2>1. runs' = runs
      BY <1>1 DEF Stopped
    <2>2. HistoryInv' /\ Launched' = Launched
      BY <2>1, SameHistory
    <2>3. \A u : Over(u)' => Over(u)
      BY <2>1, <2>2 DEF Over, LastRun, Open
    <2> QED BY <2>2, <2>3
  <1>2. CASE registry[t] # 0
    <2>1. PICK n, new : n = registry[t] /\ new = [runs[n] EXCEPT !.flag = TRUE]
      OBVIOUS
    <2>2. n \in Launched /\ n \in Runs /\ runs[n] \in RunSet /\ OneThread(runs[n])
      BY <1>2, <2>1 DEF IInv, RunsInv, TypeInv, Launched, HistoryInv
    <2>3. /\ new.tab = runs[n].tab /\ new.kind = runs[n].kind
          /\ new.end = runs[n].end /\ new.threads = runs[n].threads
      BY <2>1, <2>2 DEF RunSet
    <2>4. runs' = [runs EXCEPT ![n] = new]
      BY <1>2, <2>1, <2>2 DEF Stopped, IInv, TypeInv
    <2>5. OneThread(new)
      BY <2>2, <2>3 DEF OneThread
    <2>6. HistoryInv'
      BY <2>2, <2>3, <2>4, <2>5, OneHistory
    <2>7. row' = row /\ hasty' = hasty
      OBVIOUS
    <2>8. \A u \in Tabs : Over(u)' => Over(u)
      BY <2>2, <2>3, <2>4, <2>7, SameEnd
    <2> QED BY <2>6, <2>8
  <1> QED BY <1>1, <1>2

(* A step of the window leaves runs and events alone.                      *)
Past(t) == \E r \in Launched : runs[r].tab = t

LEMMA WindowEnds ==
  ASSUME IInv, HistoryInv, EndInv, runs' = runs, events' = events, hasty \subseteq hasty',
         \A t \in Tabs : t \in Open' \ hasty' /\ Past(t) => t \in Open /\ (Shown(t) => Shown(t)')
  PROVE  EndInv'
  <1>1. Launched' = Launched /\ \A t : LastRun(t)' = LastRun(t)
    BY DEF Launched, LastRun
  <1>2. ASSUME NEW t \in Tabs, Over(t)' PROVE Over(t) /\ (Shown(t) => Shown(t)')
    <2>1. PICK r \in LastRun(t) : runs[r].end = "told"
      BY <1>1, <1>2 DEF Over
    <2>2. Past(t)
      BY <2>1 DEF Past, LastRun
    <2>3. t \in Open /\ t \notin hasty /\ (Shown(t) => Shown(t)')
      BY <1>2, <2>2 DEF Over
    <2>4. \A q \in Launched : runs[q].tab = t => runs[q].kind = "telnet" /\ runs[q].threads = {}
      BY <1>1, <1>2 DEF Over
    <2> QED BY <2>1, <2>3, <2>4 DEF Over
  <1> QED BY <1>2, SameEnds

(* The start that is due is another action's.                              *)
LEMMA StillPending ==
  ASSUME TypeInv, NEW o \in Slots, NEW op, ops' = [ops EXCEPT ![o] = op], NEW t,
         ops[o] = Idle \/ ops[o].what # "start" \/ ops[o].tab # t
           \/ (ops[o].at = "start" /\ ops[o].answer = "ok")
  PROVE  Pending(t) => Pending(t)'
  <1>1. \A p \in Slots \ {o} : ops'[p] = ops[p]
    BY DEF TypeInv
  <1> SUFFICES ASSUME Pending(t) PROVE Pending(t)'
    OBVIOUS
  <1>2. PICK p \in Slots : /\ ops[p] # Idle /\ ops[p].what = "start" /\ ops[p].tab = t
                           /\ ops[p].at = "start" => ops[p].answer # "ok"
    BY DEF Pending
  <1>3. ops'[p] = ops[p]
    BY <1>1, <1>2
  <1> QED BY <1>2, <1>3 DEF Pending

LEMMA AnswerPending ==
  ASSUME IInv, commands # <<>>, NEW a \in {"ok", "error"}, Done(Head(commands).op, a),
         NEW t, commands[1].cmd = "start" /\ a = "ok" => commands[1].tab # t
  PROVE  Pending(t) => Pending(t)'
  <1> SUFFICES ASSUME Pending(t) PROVE Pending(t)'
    OBVIOUS
  <1>1. PICK c : c = commands[1]
    OBVIOUS
  <1>2. \A p \in Slots : /\ ops'[p] = Idle <=> ops[p] = Idle
                         /\ ops[p] # Idle =>
                              /\ ops'[p].what = ops[p].what /\ ops'[p].at = ops[p].at
                              /\ ops'[p].tab = ops[p].tab
                              /\ ops'[p].answer = IF p = c.op THEN a ELSE ops[p].answer
    BY <1>1, AnswerCommand DEF IInv
  <1>3. PICK p \in Slots : /\ ops[p] # Idle /\ ops[p].what = "start" /\ ops[p].tab = t
                           /\ ops[p].at = "start" => ops[p].answer # "ok"
    BY DEF Pending
  <1>4. p = c.op /\ ops[p].at = "start" => a # "ok"
    <2> SUFFICES ASSUME p = c.op, ops[p].at = "start" PROVE a # "ok"
      OBVIOUS
    <2>1. c.cmd \in {"start", "stop", "disk", "input"} /\ c.op # 0
      BY <1>1, <1>3, ServedFacts, CommandFacts, TabsAssumption DEF IInv, TypeInv
    <2>2. WaitsFor(c, ops[p])
      BY <1>1, <2>1, ServedCommand
    <2>3. c.cmd = "start" /\ ops[p].tab = c.tab
      BY <1>3, <2>1, <2>2 DEF WaitsFor
    <2> QED BY <1>1, <1>3, <2>3
  <1> QED BY <1>2, <1>3, <1>4 DEF Pending

LEMMA ShownStays ==
  ASSUME NEW t, traces'[t] = traces[t], Pending(t) => Pending(t)'
  PROVE  Shown(t) => Shown(t)'
  BY DEF Shown

(* The traces of one tab change.                                           *)
LEMMA OneTrace ==
  ASSUME HeardTypes, NEW t \in Tabs, NEW new \in TraceSet, traces' = [traces EXCEPT ![t] = new]
  PROVE  /\ traces' \in [Tabs -> TraceSet] /\ traces'[t] = new
         /\ \A u \in Tabs \ {t} : traces'[u] = traces[u]
  BY DEF HeardTypes

LEMMA TraceFacts ==
  /\ NoTraces \in TraceSet /\ Seeded \in TraceSet
  /\ [fed |-> TRUE, stopped |-> "no", mode |-> "error"] \in TraceSet
  /\ [fed |-> TRUE, stopped |-> "yes", mode |-> "offline"] \in TraceSet
  BY DEF TraceSet, NoTraces, Seeded

LEMMA QuietEnds ==
  ASSUME IInv, HeardTypes, HistoryInv, EndInv, runs' = runs, events' = events, traces' = traces,
         hasty \subseteq hasty', \A t \in Tabs : t \in Open' => t \in Open,
         \A t \in Tabs : Pending(t) => Pending(t)'
  PROVE  HeardTypes' /\ EndInv'
  <1>1. \A t \in Tabs : Shown(t) => Shown(t)'
    BY DEF Shown
  <1>2. EndInv'
    BY <1>1, WindowEnds
  <1> QED BY <1>2 DEF HeardTypes

(* An action begins in a free slot.                                        *)
LEMMA FreeSlotEnds ==
  ASSUME IInv, HeardTypes, HistoryInv, EndInv,
         \/ \E s \in Sessions : RemoveSession(s) \/ RemoveFolder(s)
         \/ \E s \in Sessions, k \in EditKinds : EditSession(s, k)
         \/ \E t \in Tabs : RestartTab(t) \/ SendInput(t)
  PROVE  HeardTypes' /\ EndInv'
  <1>1. PICK o \in Slots : ops[o] = Idle /\ \E op : ops' = [ops EXCEPT ![o] = op]
    <2>1. CASE \E s \in Sessions : RemoveSession(s)
      BY <2>1 DEF RemoveSession, NextStop
    <2>2. CASE \E s \in Sessions, k \in EditKinds : EditSession(s, k)
      BY <2>2 DEF EditSession, Begin
    <2>3. CASE \E t \in Tabs : RestartTab(t) \/ SendInput(t)
      BY <2>3 DEF RestartTab, SendInput, Begin
    <2>4. CASE \E s \in Sessions : RemoveFolder(s)
      BY <2>4 DEF RemoveFolder, Begin
    <2> QED BY <2>1, <2>2, <2>3, <2>4
  <1>2. /\ runs' = runs /\ events' = events /\ traces' = traces /\ row' = row
        /\ hasty \subseteq hasty'
    BY DEF RemoveSession, RemoveFolder, EditSession, RestartTab, SendInput, window, backend
  <1>3. \A t \in Tabs : Pending(t) => Pending(t)'
    BY <1>1, StillPending DEF IInv
  <1>4. Open' = Open
    BY <1>2 DEF Open
  <1> QED BY <1>2, <1>3, <1>4, QuietEnds

LEMMA OpenSessionEnds ==
  ASSUME IInv, HeardTypes, HistoryInv, EndInv, NEW s \in Sessions, OpenSession(s)
  PROVE  HeardTypes' /\ EndInv'
  <1>1. PICK t \in Tabs :
          /\ info[t] = NoTab /\ row' = Append(row, t)
          /\ \/ traces' = traces /\ ops' = ops
             \/ /\ traces' = [traces EXCEPT ![t] = Seeded]
                /\ \E o \in Slots : ops[o] = Idle /\ \E op : ops' = [ops EXCEPT ![o] = op]
    BY DEF OpenSession, Begin
  <1>2. runs' = runs /\ events' = events /\ hasty \subseteq hasty'
    BY DEF OpenSession, backend
  <1>3. traces' \in [Tabs -> TraceSet] /\ \A u \in Tabs \ {t} : traces'[u] = traces[u]
    BY <1>1, OneTrace, TraceFacts DEF HeardTypes
  <1>4. \A u \in Tabs : Pending(u) => Pending(u)'
    <2>1. CASE ops' = ops
      BY <2>1 DEF Pending
    <2>2. CASE \E o \in Slots : ops[o] = Idle /\ \E op : ops' = [ops EXCEPT ![o] = op]
      BY <2>2, StillPending DEF IInv
    <2> QED BY <1>1, <2>1, <2>2
  <1>5. ASSUME NEW u \in Tabs, u \in Open', Past(u) PROVE u \in Open /\ (Shown(u) => Shown(u)')
    <2>1. u # t
      BY <1>1, <1>5 DEF Past, HistoryInv
    <2>2. u \in Open
      <3>1. row \in Seq(Tabs) /\ IsInjective(row) /\ t \notin ToSet(row)
        BY <1>1 DEF IInv, TypeInv, Open
      <3>2. \A x : x \in ToSet(row') <=> x \in ToSet(row) \/ x = t
        BY <1>1, <3>1, AppendNew
      <3> QED BY <1>5, <2>1, <3>2 DEF Open
    <2> QED BY <1>3, <1>4, <2>1, <2>2, ShownStays
  <1>6. EndInv'
    BY <1>2, <1>5, WindowEnds
  <1> QED BY <1>2, <1>3, <1>6 DEF HeardTypes

LEMMA CloseTabEnds ==
  ASSUME IInv, HeardTypes, HistoryInv, EndInv, NEW t \in Tabs, CloseTab(t)
  PROVE  HeardTypes' /\ EndInv'
  <1>1. /\ row' = Only(row, Open \ {t}) /\ traces' = [traces EXCEPT ![t] = NoTraces]
        /\ ops' = ops /\ runs' = runs /\ events' = events /\ hasty \subseteq hasty'
    BY DEF CloseTab, backend
  <1>2. traces' \in [Tabs -> TraceSet] /\ \A u \in Tabs \ {t} : traces'[u] = traces[u]
    BY <1>1, OneTrace, TraceFacts
  <1>3. \A u : u \in Open' <=> u \in Open /\ u # t
    BY <1>1, TakenAway
  <1>4. \A u \in Tabs : Pending(u) => Pending(u)'
    BY <1>1 DEF Pending
  <1>5. \A u \in Tabs : u \in Open' => u \in Open /\ (Shown(u) => Shown(u)')
    BY <1>2, <1>3, <1>4, ShownStays
  <1>6. EndInv'
    BY <1>1, <1>5, WindowEnds
  <1> QED BY <1>1, <1>2, <1>6 DEF HeardTypes

LEMMA SessionRemovedEnds ==
  ASSUME IInv, HeardTypes, HistoryInv, EndInv, NEW o \in Slots, SessionRemoved(o)
  PROVE  HeardTypes' /\ EndInv'
  <1>1. PICK gone :
          /\ row' = Only(row, Open \ gone)
          /\ traces' = [t \in Tabs |-> IF t \in gone THEN NoTraces ELSE traces[t]]
    BY DEF SessionRemoved
  <1>2. /\ ops[o] # Idle /\ ops[o].what = "remove" /\ ops' = [ops EXCEPT ![o] = Idle]
        /\ runs' = runs /\ events' = events /\ hasty' = hasty
    BY DEF SessionRemoved, Granted, Waits, Finish, backend
  <1>3. traces' \in [Tabs -> TraceSet] /\ \A u \in Tabs \ gone : traces'[u] = traces[u]
    BY <1>1, TraceFacts DEF HeardTypes
  <1>4. \A u : u \in Open' <=> u \in Open /\ u \notin gone
    BY <1>1, TakenAway
  <1>5. \A u \in Tabs : Pending(u) => Pending(u)'
    BY <1>2, StillPending DEF IInv
  <1>6. \A u \in Tabs : u \in Open' => u \in Open /\ (Shown(u) => Shown(u)')
    BY <1>3, <1>4, <1>5, ShownStays
  <1>7. EndInv'
    BY <1>2, <1>6, WindowEnds
  <1> QED BY <1>2, <1>3, <1>7 DEF HeardTypes

(* A start goes on, is carried out, or is refused.                         *)
LEMMA StartGoesOnEnds ==
  ASSUME IInv, HeardTypes, HistoryInv, EndInv, NEW o \in Slots,
         RestartSeeds(o) \/ Painted(o) \/ StartAnswered(o)
  PROVE  HeardTypes' /\ EndInv'
  <1>1. /\ ops[o] # Idle /\ ops[o].what = "start" /\ ops[o] \in OpSet /\ ops[o].tab \in Tabs
        /\ runs' = runs /\ events' = events /\ row' = row /\ hasty' = hasty
    <2>1. /\ ops[o] # Idle /\ ops[o].what = "start"
          /\ runs' = runs /\ events' = events /\ row' = row /\ hasty' = hasty
      BY DEF RestartSeeds, Painted, StartAnswered, Answered, Waits, window, backend
    <2> QED BY <2>1, OpKeeps DEF IInv, OpsInv
  <1>2. PICK t : t = ops[o].tab
    OBVIOUS
  <1>3. \E op : ops' = [ops EXCEPT ![o] = op]
    <2>1. Step(o, "paint") \/ Step(o, "start") \/ ops' = [ops EXCEPT ![o] = Idle]
      BY DEF RestartSeeds, Painted, StartAnswered, Finish
    <2>2. \A at : Step(o, at) => ops' = [ops EXCEPT ![o] = [ops[o] EXCEPT !.at = at, !.answer = "none"]]
      BY DEF Step, IInv, TypeInv
    <2> QED BY <2>1, <2>2
  <1>4. \A u \in Tabs \ {t} : Pending(u) => Pending(u)'
    BY <1>1, <1>2, <1>3, StillPending DEF IInv
  <1>5. ASSUME NEW at \in {"paint", "start"}, Step(o, at) PROVE Pending(t)'
    <2>1. PICK op : op = [ops[o] EXCEPT !.at = at, !.answer = "none"]
      OBVIOUS
    <2>2. TypeInv /\ at \in {"stop", "paint", "start", "delete", "save", "send"}
      BY DEF IInv
    <2>3. /\ op \in OpSet /\ op # Idle /\ op.what = ops[o].what /\ op.tab = ops[o].tab /\ op.answer = "none"
          /\ ops' = [ops EXCEPT ![o] = op]
      <3>1. /\ op \in OpSet /\ op.what = ops[o].what /\ op.tab = ops[o].tab /\ op.answer = "none"
        BY <1>1, <2>1, <2>2 DEF OpSet
      <3>2. ops' = [ops EXCEPT ![o] = op]
        BY <1>5, <2>1, <2>2 DEF Step, TypeInv
      <3> QED BY <3>1, <3>2, OpIsNotIdle
    <2>4. ops'[o] = op
      BY <2>2, <2>3 DEF TypeInv
    <2> QED BY <1>1, <1>2, <2>3, <2>4 DEF Pending
  <1>6. /\ traces' \in [Tabs -> TraceSet] /\ \A u \in Tabs \ {t} : traces'[u] = traces[u]
        /\ Shown(t) => Shown(t)'
    <2>1. CASE RestartSeeds(o)
      <3>1. traces' = [traces EXCEPT ![t] = Seeded] /\ Step(o, "paint")
        BY <1>2, <2>1 DEF RestartSeeds
      <3> QED BY <1>1, <1>2, <1>5, <3>1, OneTrace, TraceFacts DEF Shown
    <2>2. CASE Painted(o)
      BY <1>5, <2>2 DEF Painted, window, HeardTypes, Shown
    <2>3. CASE StartAnswered(o) /\ ops[o].answer = "ok"
      <3>1. traces' = traces /\ ops[o].at = "start"
        BY <2>3 DEF StartAnswered, Answered, Waits
      <3>2. Pending(t) => Pending(t)'
        BY <1>3, <2>3, <3>1, StillPending DEF IInv
      <3> QED BY <3>1, <3>2 DEF HeardTypes, Shown
    <2>4. CASE StartAnswered(o) /\ ops[o].answer # "ok"
      <3>1. PICK new : new = [fed |-> TRUE, stopped |-> "no", mode |-> "error"]
        OBVIOUS
      <3>2. traces' = [traces EXCEPT ![t] = new]
        BY <1>2, <2>4, <3>1 DEF StartAnswered
      <3>3. new \in TraceSet /\ new.mode = "error"
        BY <3>1, TraceFacts
      <3> QED BY <1>1, <1>2, <3>2, <3>3, OneTrace DEF Shown
    <2> QED BY <2>1, <2>2, <2>3, <2>4
  <1>7. \A u \in Tabs : Shown(u) => Shown(u)'
    BY <1>4, <1>6, ShownStays
  <1>8. Open' = Open
    BY <1>1 DEF Open
  <1>9. EndInv'
    BY <1>1, <1>7, <1>8, WindowEnds
  <1> QED BY <1>1, <1>6, <1>9 DEF HeardTypes

LEMMA OtherGoesOnEnds ==
  ASSUME IInv, HeardTypes, HistoryInv, EndInv, NEW o \in Slots,
         RemoveContinues(o) \/ FolderRemoved(o) \/ SessionEdited(o) \/ GivenUp(o) \/ InputAnswered(o)
  PROVE  HeardTypes' /\ EndInv'
  <1>1. /\ ops[o] # Idle /\ ops[o].what # "start" /\ \E op : ops' = [ops EXCEPT ![o] = op]
        /\ runs' = runs /\ events' = events /\ row' = row /\ hasty \subseteq hasty'
    BY DEF RemoveContinues, FolderRemoved, SessionEdited, GivenUp, InputAnswered, Answered, Granted, Waits,
           NextStop, Finish, window, backend
  <1>2. \A u \in Tabs : Pending(u) => Pending(u)'
    BY <1>1, StillPending DEF IInv
  <1>3. Open' = Open
    BY <1>1 DEF Open
  <1>4. CASE traces' = traces
    BY <1>1, <1>2, <1>3, <1>4, QuietEnds
  <1>5. CASE InputAnswered(o) /\ traces' # traces
    <2>1. PICK t : t = ops[o].tab /\ t \in Tabs
      BY <1>1, <1>5 DEF IInv, OpsInv, InputAnswered, Answered, Waits
    <2>2. PICK new : new = [traces[t] EXCEPT !.fed = TRUE]
      OBVIOUS
    <2>3. new \in TraceSet /\ new.stopped = traces[t].stopped /\ new.mode = traces[t].mode
      BY <2>1, <2>2 DEF TraceSet, HeardTypes
    <2>4. traces' = [traces EXCEPT ![t] = new]
      BY <1>5, <2>1, <2>2 DEF InputAnswered, HeardTypes
    <2>5. /\ traces' \in [Tabs -> TraceSet] /\ traces'[t] = new
          /\ \A u \in Tabs \ {t} : traces'[u] = traces[u]
      BY <2>1, <2>3, <2>4, OneTrace
    <2>6. \A u \in Tabs : Shown(u) => Shown(u)'
      BY <1>2, <2>3, <2>5 DEF Shown
    <2>7. EndInv'
      BY <1>1, <1>3, <2>6, WindowEnds
    <2> QED BY <1>1, <2>5, <2>7 DEF HeardTypes
  <1> QED BY <1>4, <1>5 DEF RemoveContinues, FolderRemoved, SessionEdited, GivenUp, window

(* Commands that leave the runs alone.                                     *)
LEMMA ServedEnds ==
  ASSUME IInv, HeardTypes, HistoryInv, EndInv,
         commands # <<>>, NEW a \in {"ok", "error"}, Done(Head(commands).op, a),
         commands[1].cmd = "start" => a = "error",
         UNCHANGED <<row, traces, runs, events, hasty>>
  PROVE  HeardTypes' /\ EndInv'
  <1>1. \A u \in Tabs : Pending(u) => Pending(u)'
    BY AnswerPending
  <1>2. Open' = Open
    BY DEF Open
  <1> QED BY <1>1, <1>2, QuietEnds

(* A terminal is stopped, at its own command or before a start.            *)
LEMMA StoppedEnds ==
  ASSUME IInv, HeardTypes, HistoryInv, EndInv, StopTerminal \/ StopFirst
  PROVE  HistoryInv' /\ HeardTypes' /\ EndInv'
  <1>1. PICK c : /\ c = Head(commands) /\ commands # <<>> /\ c.cmd \in {"start", "stop"}
                 /\ runs' = Stopped(c.tab) /\ (c.cmd = "stop" => Done(c.op, "ok"))
                 /\ (c.cmd = "start" => ops' = ops)
                 /\ UNCHANGED <<row, info, traces, main, events, hasty>>
    BY DEF StopTerminal, StopFirst, Serve, window
  <1>2. c.tab \in Tabs /\ c = commands[1]
    BY <1>1, ServedFacts, ServedCommand DEF IInv, TypeInv
  <1>3. PICK t : t = c.tab
    OBVIOUS
  <1>4. HistoryInv' /\ \A u \in Tabs : Over(u)' => Over(u)
    BY <1>1, <1>2, <1>3, StoppedHistory
  <1>5. \A u \in Tabs : Pending(u) => Pending(u)'
    <2>1. CASE c.cmd = "stop"
      BY <1>1, <1>2, <2>1, AnswerPending
    <2>2. CASE c.cmd = "start"
      BY <1>1, <2>2 DEF Pending
    <2> QED BY <1>1, <2>1, <2>2
  <1>6. \A u \in Tabs : Shown(u) => Shown(u)'
    BY <1>1, <1>5 DEF Shown
  <1>7. EndInv'
    BY <1>1, <1>4, <1>6, SameEnds
  <1> QED BY <1>1, <1>4, <1>7 DEF HeardTypes

(* A run begins.                                                           *)
LEMMA BegunEnds ==
  ASSUME IInv, HeardTypes, HistoryInv, EndInv, StartTelnet \/ Spawn
  PROVE  HistoryInv' /\ HeardTypes' /\ EndInv'
  <1>1. PICK c : /\ c = Head(commands) /\ commands # <<>> /\ main = 0 /\ c.cmd = "start" /\ registry[c.tab] = 0
                 /\ c.kind # "none" /\ UNCHANGED <<row, info, traces, events>>
                 /\ \/ Done(c.op, "error") /\ UNCHANGED <<runs, main, hasty>>
                    \/ /\ \E thread \in {"connector", "reader", "watcher"} : Launch(c, thread)
                       /\ main' = 0 \/ (main' = NextRun /\ c.kind # "telnet")
                       /\ Done(c.op, "ok") \/ ops' = ops
    BY DEF StartTelnet, Spawn, Start, Serve, window, Reporter
  <1>2. c = commands[1]
    BY <1>1, ServedFacts DEF IInv, TypeInv
  <1>3. CASE Done(c.op, "error") /\ UNCHANGED <<runs, main, hasty>>
    <2>1. HistoryInv'
      BY <1>1, <1>3, SameHistory
    <2>2. HeardTypes' /\ EndInv'
      BY <1>1, <1>3, ServedEnds
    <2> QED BY <2>1, <2>2
  <1>4. CASE /\ \E thread \in {"connector", "reader", "watcher"} : Launch(c, thread)
             /\ main' = 0 \/ (main' = NextRun /\ c.kind # "telnet")
             /\ Done(c.op, "ok") \/ ops' = ops
    <2>1. PICK thread \in {"connector", "reader", "watcher"} : Launch(c, thread)
      BY <1>4
    <2>2. UNCHANGED <<row, info>>
      BY <1>1
    <2>3. HistoryInv' /\ \A t : Over(t)' => Over(t) /\ t # c.tab
      BY <1>1, <1>2, <1>4, <2>1, <2>2, LaunchHistory
    <2>4. ASSUME NEW t \in Tabs, t # c.tab PROVE Shown(t) => Shown(t)'
      <3>1. Pending(t) => Pending(t)'
        <4>1. CASE Done(c.op, "ok")
          BY <1>1, <1>2, <2>4, <4>1, AnswerPending
        <4>2. CASE ops' = ops
          BY <4>2 DEF Pending
        <4> QED BY <1>4, <4>1, <4>2
      <3> QED BY <1>1, <3>1 DEF Shown
    <2>5. EndInv'
      BY <1>1, <2>3, <2>4, SameEnds
    <2> QED BY <1>1, <2>3, <2>5 DEF HeardTypes
  <1> QED BY <1>1, <1>3, <1>4

LEMMA RegisterEnds ==
  ASSUME IInv, HeardTypes, HistoryInv, EndInv, Register
  PROVE  HistoryInv' /\ HeardTypes' /\ EndInv'
  <1>1. PICK u, e : u = runs[main].tab /\ e = Event("output", u)
    OBVIOUS
  <1>2. /\ main # 0 /\ main' = 0 /\ events' = Append(events, e) /\ Done(Head(commands).op, "ok")
        /\ UNCHANGED <<row, info, traces, runs, hasty>>
    BY <1>1 DEF Register, window
  <1>3. /\ main \in Launched /\ u \in Tabs /\ runs[main].kind # "telnet"
        /\ commands # <<>> /\ commands[1].cmd = "start" /\ commands[1].tab = u
    BY <1>1, <1>2 DEF IInv, RunsInv, HistoryInv
  <1>4. e \in EventSet /\ e.tab = u
    BY <1>1, <1>3 DEF Event, EventSet
  <1>5. HistoryInv' /\ Launched' = Launched
    BY <1>2, SameHistory
  <1>6. HeardTypes'
    BY <1>2, <1>4, EventFacts DEF HeardTypes
  <1>7. ASSUME NEW t \in Tabs, Over(t)' PROVE LastWord(t)' /\ (Shown(t)' \/ ExitDue(t)')
    <2>1. Over(t) /\ t # u
      BY <1>1, <1>2, <1>3, <1>5, <1>7 DEF Over, LastRun, Open
    <2>2. Pending(t) => Pending(t)'
      BY <1>2, <1>3, <2>1, AnswerPending
    <2>3. Shown(t) => Shown(t)'
      BY <1>2, <2>2 DEF Shown
    <2>4. LastWord(t) /\ (Shown(t) \/ ExitDue(t))
      BY <2>1 DEF EndInv
    <2>5. LastWord(t)' /\ (ExitDue(t) => ExitDue(t)')
      BY <1>2, <1>4, <2>1, <2>4, OtherEvent
    <2> QED BY <2>3, <2>4, <2>5
  <1> QED BY <1>5, <1>6, <1>7 DEF EndInv

LEMMA ThreadEnds ==
  ASSUME IInv, HeardTypes, HistoryInv, EndInv, NEW r \in Runs, Leaves(r) \/ Read(r) \/ Poll(r)
  PROVE  HeardTypes' /\ EndInv'
  <1>1. r \in Launched /\ UNCHANGED <<row, traces, ops, hasty>>
    BY ThreadMoved DEF window
  <1>2. PICK new : Moved(r, new) /\ (Reports(r, new) \/ Mutters(r, new))
    BY ThreadMoved
  <1>3. PICK u : u = runs[r].tab
    OBVIOUS
  <1>4. u \in Tabs /\ \A k \in {"output", "exit", "status"} : Event(k, u) \in EventSet /\ Event(k, u).tab = u
    BY <1>1, <1>3 DEF IInv, RunsInv, Event, EventSet
  <1>5. \/ events' = events
        \/ \E e \in EventSet : e.tab = u /\ events' = Append(events, e)
    BY <1>2, <1>3, <1>4 DEF Reports, Mutters
  <1>6. HeardTypes'
    BY <1>1, <1>5, EventFacts DEF HeardTypes
  <1>7. \A t \in Tabs : Over(t)' =>
          Over(t) \/ (u = t /\ runs[r].end = "owed" /\ new.end = "told")
    <2>1. /\ runs' = [runs EXCEPT ![r] = new] /\ new.tab = runs[r].tab /\ new.kind = runs[r].kind
          /\ row' = row /\ hasty' = hasty
      BY <1>1, <1>2 DEF Moved
    <2>2. new.end = "told" => runs[r].end # "none"
      BY <1>2 DEF Reports, Mutters
    <2> QED BY <1>1, <1>3, <2>1, <2>2, OneOver
  <1>8. \A t : Shown(t)' = Shown(t)
    BY <1>1 DEF Shown, Pending
  <1>9. ASSUME NEW t \in Tabs, Over(t)' PROVE LastWord(t)' /\ (Shown(t)' \/ ExitDue(t)')
    <2>1. CASE u = t /\ Reports(r, new)
      BY <1>3, <2>1, ExitEvent DEF Reports
    <2>2. CASE u # t
      <3>1. Over(t) /\ LastWord(t) /\ (Shown(t) \/ ExitDue(t))
        BY <1>7, <1>9, <2>2 DEF EndInv
      <3>2. LastWord(t)' /\ (ExitDue(t) => ExitDue(t)')
        <4>1. CASE events' = events
          BY <3>1, <4>1 DEF LastWord, ExitDue
        <4>2. CASE \E e \in EventSet : e.tab = u /\ events' = Append(events, e)
          BY <2>2, <3>1, <4>2, OtherEvent
        <4> QED BY <1>5, <4>1, <4>2
      <3> QED BY <1>8, <3>1, <3>2
    <2>3. CASE u = t /\ Mutters(r, new)
      <3>1. Over(t)
        BY <1>7, <1>9, <2>3 DEF Mutters
      <3>2. runs[r].kind = "telnet" /\ runs[r].threads = {}
        BY <1>1, <1>3, <2>3, <3>1 DEF Over
      <3>3. events' = events
        BY <2>3, <3>2 DEF Mutters
      <3>4. LastWord(t) /\ (Shown(t) \/ ExitDue(t))
        BY <3>1 DEF EndInv
      <3>5. LastWord(t)' /\ (ExitDue(t) => ExitDue(t)')
        BY <3>3, <3>4 DEF LastWord, ExitDue
      <3> QED BY <1>8, <3>4, <3>5
    <2> QED BY <1>2, <2>1, <2>2, <2>3
  <1> QED BY <1>6, <1>9 DEF EndInv

(* An event is heard.                                                      *)
LEMMA ListenEnds ==
  ASSUME IInv, HeardTypes, StatusInv, EndInv, Listen
  PROVE  HeardTypes' /\ EndInv'
  <1>1. PICK e : e = Head(events)
    OBVIOUS
  <1>2. /\ events # <<>> /\ events' = Tail(events) /\ traces' = [traces EXCEPT ![e.tab] = Heard(e)]
        /\ UNCHANGED <<row, ops, runs, hasty>>
    BY <1>1 DEF Listen, backend
  <1>3. /\ Len(events) \in Nat /\ 1 \in 1 .. Len(events) /\ e = events[1] /\ e \in EventSet
        /\ events' \in Seq(EventSet) /\ Len(events') = Len(events) - 1
        /\ \A i \in 1 .. Len(events) - 1 : events'[i] = events[i + 1]
    BY <1>1, <1>2, EventFacts DEF HeardTypes
  <1>4. PICK u : u = e.tab
    OBVIOUS
  <1>5. u \in Tabs /\ \/ e = Event("output", u) /\ e.kind = "output"
                      \/ e = Event("exit", u) /\ e.kind = "exit"
                      \/ e = Event("status", u) /\ e.kind = "status"
    BY <1>3, <1>4 DEF EventSet, Event
  <1>6. Heard(e) \in TraceSet /\ (e.kind = "exit" => Heard(e).stopped = "yes")
    <2>1. PICK old \in TraceSet : old = traces[e.tab]
      BY <1>4, <1>5 DEF HeardTypes
    <2>2. /\ [old EXCEPT !.fed = TRUE, !.stopped = "no"] \in TraceSet
          /\ [old EXCEPT !.mode = "live"] \in TraceSet
      BY DEF TraceSet
    <2>3. CASE e.kind = "output"
      BY <2>1, <2>2, <2>3 DEF Heard
    <2>4. CASE e.kind = "exit"
      BY <2>4, TraceFacts DEF Heard
    <2>5. CASE e.kind = "status"
      BY <2>1, <2>2, <2>5 DEF Heard
    <2> QED BY <1>5, <2>3, <2>4, <2>5
  <1>7. /\ traces' \in [Tabs -> TraceSet] /\ traces'[u] = Heard(e)
        /\ \A t \in Tabs \ {u} : traces'[t] = traces[t]
    BY <1>2, <1>4, <1>5, <1>6, OneTrace
  <1>8. HeardTypes'
    BY <1>3, <1>7 DEF HeardTypes
  <1>9. ASSUME NEW t \in Tabs, Over(t)' PROVE LastWord(t)' /\ (Shown(t)' \/ ExitDue(t)')
    <2>1. Over(t)
      BY <1>2, <1>9 DEF Over, LastRun, Launched, Open
    <2>2. LastWord(t) /\ (Shown(t) \/ ExitDue(t))
      BY <2>1 DEF EndInv
    <2>3. \A j \in 1 .. Len(events) : j > 1 => j - 1 \in 1 .. Len(events') /\ events'[j - 1] = events[j]
      <3>1. \A j \in 1 .. Len(events) : j > 1 =>
              j - 1 \in 1 .. Len(events) - 1 /\ (j - 1) + 1 = j
        BY <1>3
      <3> QED BY <1>3, <3>1
    <2>4. ASSUME NEW i \in 1 .. Len(events'), events'[i] = Event("output", t)
          PROVE  \E j \in 1 .. Len(events') : i < j /\ events'[j] = Event("exit", t)
      <3>1. i + 1 \in 1 .. Len(events) /\ events[i + 1] = Event("output", t) /\ i \in Nat
        BY <1>3, <2>4
      <3>2. PICK j \in 1 .. Len(events) : i + 1 < j /\ events[j] = Event("exit", t)
        BY <2>2, <3>1 DEF LastWord
      <3>3. j > 1 /\ i < j - 1
        BY <3>1, <3>2
      <3> QED BY <2>3, <3>2, <3>3
    <2>5. LastWord(t)'
      BY <2>4 DEF LastWord
    <2>6. ASSUME NEW j \in 1 .. Len(events), j > 1, events[j] = Event("exit", t) PROVE ExitDue(t)'
      BY <2>3, <2>6 DEF ExitDue
    <2>7. \A j \in 1 .. Len(events) : j = 1 \/ j > 1
      BY <1>3
    <2>8. CASE e = Event("exit", t)
      <3>1. u = t /\ traces'[t].stopped = "yes"
        BY <1>5, <1>6, <1>7, <2>8, EventKinds
      <3> QED BY <2>5, <3>1 DEF Shown
    <2>9. CASE e = Event("output", t)
      <3>1. PICK j \in 1 .. Len(events) : 1 < j /\ events[j] = Event("exit", t)
        BY <1>3, <2>2, <2>9 DEF LastWord
      <3>2. j > 1
        BY <3>1
      <3> QED BY <2>5, <2>6, <3>1, <3>2
    <2>10. CASE e # Event("exit", t) /\ e # Event("output", t)
      <3>1. ExitDue(t) => ExitDue(t)'
        <4> SUFFICES ASSUME ExitDue(t) PROVE ExitDue(t)'
          OBVIOUS
        <4>1. PICK j \in 1 .. Len(events) : events[j] = Event("exit", t)
          BY DEF ExitDue
        <4>2. j > 1
          BY <1>3, <2>7, <2>10, <4>1
        <4> QED BY <2>6, <4>1, <4>2
      <3>2. u # t
        <4> SUFFICES ASSUME u = t PROVE FALSE
          OBVIOUS
        <4>1. e.kind = "status" /\ e.tab = t
          BY <1>4, <1>5, <2>10
        <4>2. PICK r \in Launched : runs[r].tab = t /\ runs[r].kind = "local"
          BY <1>3, <4>1 DEF StatusInv
        <4> QED BY <2>1, <4>2 DEF Over
      <3>3. Shown(t) => Shown(t)'
        BY <1>2, <1>7, <3>2 DEF Shown, Pending
      <3> QED BY <2>2, <2>5, <3>1, <3>3
    <2> QED BY <2>8, <2>9, <2>10
  <1> QED BY <1>8, <1>9 DEF EndInv

LEMMA StatusKept ==
  ASSUME HeardTypes, StatusInv,
         \A r \in Launched : r \in Launched' /\ runs'[r].tab = runs[r].tab /\ runs'[r].kind = runs[r].kind,
         \/ events' = events
         \/ events # <<>> /\ events' = Tail(events)
         \/ \E e \in EventSet :
              /\ events' = Append(events, e)
              /\ e.kind = "status" => \E r \in Launched : runs[r].tab = e.tab /\ runs[r].kind = "local"
  PROVE  StatusInv'
  <1>1. ASSUME NEW e, \E r \in Launched : runs[r].tab = e.tab /\ runs[r].kind = "local"
        PROVE  \E r \in Launched' : runs'[r].tab = e.tab /\ runs'[r].kind = "local"
    BY <1>1
  <1>2. CASE events' = events
    <2>1. \A i \in 1 .. Len(events') : events'[i].kind = "status" =>
            \E r \in Launched : runs[r].tab = events'[i].tab /\ runs[r].kind = "local"
      BY <1>2 DEF StatusInv
    <2> QED BY <1>1, <2>1 DEF StatusInv
  <1>3. CASE events # <<>> /\ events' = Tail(events)
    <2>1. \A i \in 1 .. Len(events') : i + 1 \in 1 .. Len(events) /\ events'[i] = events[i + 1]
      <3>1. /\ Len(events) \in Nat /\ Len(events') = Len(events) - 1
            /\ \A i \in 1 .. Len(events) - 1 : events'[i] = events[i + 1]
        BY <1>3, EventFacts DEF HeardTypes
      <3> QED BY <3>1
    <2>2. \A i \in 1 .. Len(events') : events'[i].kind = "status" =>
            \E r \in Launched : runs[r].tab = events'[i].tab /\ runs[r].kind = "local"
      <3> SUFFICES ASSUME NEW i \in 1 .. Len(events'), events'[i].kind = "status"
                   PROVE  \E r \in Launched : runs[r].tab = events'[i].tab /\ runs[r].kind = "local"
        OBVIOUS
      <3>1. PICK j : j = i + 1
        OBVIOUS
      <3>2. j \in 1 .. Len(events) /\ events'[i] = events[j]
        BY <2>1, <3>1
      <3> QED BY <3>2 DEF StatusInv
    <2> QED BY <1>1, <2>2 DEF StatusInv
  <1>4. ASSUME NEW e \in EventSet, events' = Append(events, e),
               e.kind = "status" => \E r \in Launched : runs[r].tab = e.tab /\ runs[r].kind = "local"
        PROVE  StatusInv'
    <2>1. /\ Len(events) \in Nat /\ Len(events') = Len(events) + 1
          /\ \A i \in 1 .. Len(events) : events'[i] = events[i]
          /\ events'[Len(events) + 1] = e
      BY <1>4, EventFacts DEF HeardTypes
    <2>2. \A i \in 1 .. Len(events') : i \in 1 .. Len(events) \/ i = Len(events) + 1
      BY <2>1
    <2>3. \A i \in 1 .. Len(events') : events'[i].kind = "status" =>
            \E r \in Launched : runs[r].tab = events'[i].tab /\ runs[r].kind = "local"
      BY <1>4, <2>1, <2>2 DEF StatusInv
    <2> QED BY <1>1, <2>3 DEF StatusInv
  <1> QED BY <1>2, <1>3, <1>4

LEMMA StatusStep ==
  ASSUME IInv, HeardTypes, HistoryInv, StatusInv, [Next]_vars
  PROVE  StatusInv'
  <1>1. CASE runs' = runs /\ (events' = events \/ Listen)
    BY <1>1, StatusKept DEF Listen, Launched
  <1>2. CASE Register
    <2>1. PICK u, e : u = runs[main].tab /\ e = Event("output", u)
      OBVIOUS
    <2>2. events' = Append(events, e) /\ runs' = runs /\ u \in Tabs
      BY <1>2, <2>1 DEF Register, IInv, RunsInv
    <2>3. e \in EventSet /\ e.kind # "status"
      BY <2>1, <2>2 DEF Event, EventSet
    <2> QED BY <2>2, <2>3, StatusKept DEF Launched
  <1>3. CASE StopTerminal \/ StopFirst
    <2>1. PICK t : /\ t = Head(commands).tab /\ commands # <<>> /\ Head(commands).cmd # "disk"
                   /\ runs' = Stopped(t) /\ events' = events
      BY <1>3 DEF StopTerminal, StopFirst, Serve
    <2>2. t \in Tabs
      BY <2>1, ServedFacts, ServedCommand DEF IInv, TypeInv
    <2>3. \A r \in Runs : runs'[r].tab = runs[r].tab /\ runs'[r].kind = runs[r].kind
      <3>1. CASE registry[t] = 0
        BY <2>1, <3>1 DEF Stopped
      <3>2. CASE registry[t] # 0
        <4>1. PICK n, new : n = registry[t] /\ new = [runs[n] EXCEPT !.flag = TRUE]
          OBVIOUS
        <4>2. n \in Runs /\ runs[n] \in RunSet
          BY <2>2, <3>2, <4>1 DEF IInv, TypeInv
        <4>3. new.tab = runs[n].tab /\ new.kind = runs[n].kind
          BY <4>1, <4>2 DEF RunSet
        <4>4. runs' = [runs EXCEPT ![n] = new]
          BY <2>1, <3>2, <4>1, <4>2 DEF Stopped, IInv, TypeInv
        <4>5. runs'[n] = new /\ \A r \in Runs \ {n} : runs'[r] = runs[r]
          BY <4>2, <4>4 DEF IInv, TypeInv
        <4> QED BY <4>3, <4>5
      <3> QED BY <3>1, <3>2
    <2> QED BY <2>1, <2>3, StatusKept DEF Launched
  <1>4. CASE StartTelnet \/ Spawn
    <2>1. PICK c : /\ c = Head(commands) /\ commands # <<>> /\ main = 0 /\ c.cmd = "start" /\ registry[c.tab] = 0
                   /\ c.kind # "none" /\ events' = events
                   /\ runs' = runs \/ \E thread \in {"connector", "reader", "watcher"} : Launch(c, thread)
      BY <1>4 DEF StartTelnet, Spawn, Start, Serve, Reporter
    <2>2. c = commands[1]
      BY <2>1, ServedFacts DEF IInv, TypeInv
    <2>3. CASE runs' = runs
      BY <2>1, <2>3, StatusKept DEF Launched
    <2>4. ASSUME NEW thread \in {"connector", "reader", "watcher"}, Launch(c, thread) PROVE StatusInv'
      <3>1. PICK n : /\ n \in Runs \ Launched /\ Launched' = Launched \cup {n}
                     /\ \A r \in Runs : r # n => runs'[r] = runs[r]
        BY <2>1, <2>2, <2>4, LaunchFacts
      <3>2. \A r \in Launched : r \in Launched' /\ runs'[r] = runs[r]
        BY <3>1 DEF Launched
      <3> QED BY <2>1, <3>2, StatusKept
    <2> QED BY <2>1, <2>3, <2>4
  <1>5. ASSUME NEW r \in Runs, Leaves(r) \/ Read(r) \/ Poll(r) PROVE StatusInv'
    <2>1. r \in Launched /\ \E new : Moved(r, new) /\ (Reports(r, new) \/ Mutters(r, new))
      BY <1>5, ThreadMoved
    <2>2. PICK new : Moved(r, new) /\ (Reports(r, new) \/ Mutters(r, new))
      BY <2>1
    <2>3. PICK u : u = runs[r].tab
      OBVIOUS
    <2>4. /\ u \in Tabs /\ \A k \in {"output", "exit", "status"} :
                              /\ Event(k, u) \in EventSet
                              /\ Event(k, u).tab = u /\ Event(k, u).kind = k
      BY <2>1, <2>3 DEF IInv, RunsInv, Event, EventSet
    <2>5. \/ events' = events
          \/ \E e \in EventSet :
               /\ events' = Append(events, e)
               /\ e.kind = "status" => runs[r].tab = e.tab /\ runs[r].kind = "local"
      BY <2>2, <2>3, <2>4 DEF Reports, Mutters
    <2>6. runs'[r] = new /\ \A q \in Runs \ {r} : runs'[q] = runs[q]
      BY <2>2 DEF Moved, IInv, TypeInv
    <2>7. \A q \in Launched : q \in Launched' /\ runs'[q].tab = runs[q].tab /\ runs'[q].kind = runs[q].kind
      BY <2>2, <2>6 DEF Moved, Launched
    <2> QED BY <2>1, <2>5, <2>7, StatusKept
  <1>6. CASE User \/ SaveOrDelete \/ WriteInput \/ RefuseStart \/ Listen \/ (\E o \in Slots : Resume(o)) \/ UNCHANGED vars
    <2>1. runs' = runs /\ (events' = events \/ Listen)
      BY <1>6 DEF User, OpenSession, RemoveSession, RemoveFolder, EditSession, RestartTab, CloseTab, SendInput,
                  SaveOrDelete, WriteInput, RefuseStart, Listen,
                  Resume, RestartSeeds, Painted, StartAnswered, RemoveContinues, SessionRemoved,
                  FolderRemoved, SessionEdited, GivenUp, InputAnswered, vars, backend
    <2> QED BY <1>1, <2>1
  <1> QED BY <1>2, <1>3, <1>4, <1>5, <1>6 DEF Next, MainThread

LEMMA HistoryStep ==
  ASSUME IInv, HistoryInv,
         User \/ SaveOrDelete \/ WriteInput \/ RefuseStart \/ Listen \/ (\E o \in Slots : Resume(o)) \/ UNCHANGED vars
  PROVE  HistoryInv'
  <1>1. runs' = runs /\ main' = main /\ hasty \subseteq hasty'
    BY DEF User, OpenSession, RemoveSession, RemoveFolder, EditSession, RestartTab, CloseTab, SendInput,
           SaveOrDelete, WriteInput, RefuseStart, Listen,
           Resume, RestartSeeds, Painted, StartAnswered, RemoveContinues, SessionRemoved,
           FolderRemoved, SessionEdited, GivenUp, InputAnswered, vars, backend
  <1>2. \A t \in Tabs : info[t] # NoTab => info'[t] # NoTab
    <2>1. CASE \E s \in Sessions : OpenSession(s)
      <3>1. PICK s \in Sessions, t \in Tabs : info' = [info EXCEPT ![t] = [session |-> s, kind |-> sessions[s]]]
                                              /\ info[t] = NoTab
        BY <2>1 DEF OpenSession
      <3>2. \A u \in Tabs \ {t} : info'[u] = info[u]
        BY <3>1 DEF IInv, TypeInv
      <3> QED BY <3>1, <3>2
    <2>2. CASE \E o \in Slots : SessionEdited(o)
      <3>1. PICK o \in Slots : SessionEdited(o)
        BY <2>2
      <3>2. PICK kind \in EditKinds : \E its :
              info' = [t \in Tabs |-> IF t \in its THEN [info[t] EXCEPT !.kind = kind] ELSE info[t]]
        BY <3>1 DEF SessionEdited, IInv, OpsInv, Granted, Waits
      <3>3. ASSUME NEW t \in Tabs, info[t] # NoTab PROVE info'[t] # NoTab
        <4>1. PICK was, new : was = info[t] /\ new = [was EXCEPT !.kind = kind]
          OBVIOUS
        <4>2. was \in [session : Sessions, kind : Kinds]
          BY <3>3, <4>1 DEF IInv, TypeInv
        <4>3. new.kind = kind /\ kind # "none"
          BY <4>1, <4>2, TabsAssumption DEF Kinds, Live
        <4>4. new # NoTab
          BY <4>3 DEF NoTab
        <4> QED BY <3>2, <3>3, <4>1, <4>4
      <3> QED BY <3>3
    <2>3. CASE info' = info
      BY <2>3
    <2> QED BY <2>1, <2>2, <2>3
         DEF User, RemoveSession, RemoveFolder, EditSession, RestartTab, CloseTab, SendInput,
             SaveOrDelete, WriteInput, RefuseStart, Listen,
             Resume, RestartSeeds, Painted, StartAnswered, RemoveContinues, SessionRemoved,
             FolderRemoved, GivenUp, InputAnswered, vars, window
  <1> QED BY <1>1, <1>2, SameHistory

LEMMA InitEnds == Init => EInv
  <1> SUFFICES ASSUME Init PROVE EInv
    OBVIOUS
  <1>1. /\ events = <<>> /\ traces = [t \in Tabs |-> NoTraces] /\ main = 0
        /\ runs = [r \in Runs |-> NoRun]
    BY DEF Init
  <1>2. Launched = {}
    BY <1>1 DEF Launched, NoRun
  <1>3. HeardTypes
    BY <1>1, TraceFacts, EmptySeq DEF HeardTypes
  <1>4. HistoryInv /\ EndInv
    BY <1>1, <1>2 DEF HistoryInv, EndInv, Over, LastRun
  <1>5. StatusInv
    BY <1>1, EmptySeq DEF StatusInv
  <1> QED BY <1>3, <1>4, <1>5 DEF EInv

LEMMA NextEnds == IInv /\ EInv /\ [Next]_vars => EInv'
  <1> SUFFICES ASSUME IInv, HeardTypes, HistoryInv, StatusInv, EndInv, [Next]_vars
               PROVE  HistoryInv' /\ HeardTypes' /\ EndInv'
    BY StatusStep DEF EInv
  <1>1. CASE StopTerminal \/ StopFirst
    BY <1>1, StoppedEnds
  <1>2. CASE StartTelnet \/ Spawn
    BY <1>2, BegunEnds
  <1>3. CASE Register
    BY <1>3, RegisterEnds
  <1>4. ASSUME NEW r \in Runs, Leaves(r) \/ Read(r) \/ Poll(r)
        PROVE  HistoryInv' /\ HeardTypes' /\ EndInv'
    BY <1>4, ThreadHistory, ThreadEnds
  <1>5. CASE User \/ SaveOrDelete \/ WriteInput \/ RefuseStart \/ Listen \/ (\E o \in Slots : Resume(o)) \/ UNCHANGED vars
    <2>1. HistoryInv'
      BY <1>5, HistoryStep
    <2>2. CASE \E s \in Sessions : OpenSession(s)
      BY <2>1, <2>2, OpenSessionEnds
    <2>3. CASE \E t \in Tabs : CloseTab(t)
      BY <2>1, <2>3, CloseTabEnds
    <2>4. CASE \/ \E s \in Sessions : RemoveSession(s) \/ RemoveFolder(s)
               \/ \E s \in Sessions, k \in EditKinds : EditSession(s, k)
               \/ \E t \in Tabs : RestartTab(t) \/ SendInput(t)
      BY <2>1, <2>4, FreeSlotEnds
    <2>5. CASE UNCHANGED vars
      <3>1. /\ runs' = runs /\ events' = events /\ traces' = traces /\ hasty' = hasty
            /\ ops' = ops /\ row' = row
        BY <2>5 DEF vars, window, backend
      <3>2. (\A t \in Tabs : Pending(t) => Pending(t)') /\ Open' = Open
        BY <3>1 DEF Pending, Open
      <3> QED BY <2>1, <3>1, <3>2, QuietEnds
    <2>6. CASE SaveOrDelete \/ WriteInput \/ RefuseStart
      <3>1. PICK a \in {"ok", "error"} :
              /\ commands # <<>> /\ Done(Head(commands).op, a) /\ (Head(commands).cmd = "start" => a = "error")
              /\ UNCHANGED <<row, traces, runs, events, hasty>>
        BY <2>6 DEF SaveOrDelete, WriteInput, RefuseStart, Serve, window, backend
      <3>2. commands[1].cmd = "start" => a = "error"
        BY <3>1, ServedFacts DEF IInv, TypeInv
      <3> QED BY <2>1, <3>1, <3>2, ServedEnds
    <2>7. CASE Listen
      BY <2>1, <2>7, ListenEnds
    <2>8. ASSUME NEW o \in Slots, Resume(o) PROVE HistoryInv' /\ HeardTypes' /\ EndInv'
      <3>1. CASE RestartSeeds(o) \/ Painted(o) \/ StartAnswered(o)
        BY <2>1, <3>1, StartGoesOnEnds
      <3>2. CASE RemoveContinues(o) \/ FolderRemoved(o) \/ SessionEdited(o) \/ GivenUp(o) \/ InputAnswered(o)
        BY <2>1, <3>2, OtherGoesOnEnds
      <3>3. CASE SessionRemoved(o)
        BY <2>1, <3>3, SessionRemovedEnds
      <3> QED BY <2>8, <3>1, <3>2, <3>3 DEF Resume
    <2> QED BY <1>5, <2>2, <2>3, <2>4, <2>5, <2>6, <2>7, <2>8 DEF User
  <1> QED BY <1>1, <1>2, <1>3, <1>4, <1>5 DEF Next, MainThread

(* A Telnet session that has ended is shown as stopped, so that it can be  *)
(* restarted, once every event was heard and no earlier run can speak:     *)
(* the exit of finalize_terminal reaches the listener after all that the   *)
(* run has said, and only a new start may hide it.                         *)
THEOREM EndsAreShown == Spec => []EndIsShown
  <1>1. Init => IInv /\ EInv
    BY InitIInv, InitEnds
  <1>2. (IInv /\ EInv) /\ [Next]_vars => (IInv /\ EInv)'
    BY NextIInv, NextEnds
  <1>3. IInv /\ EInv => EndIsShown
    <2> SUFFICES ASSUME IInv, EInv, Calm, events = <<>>,
                        NEW t \in Open \ hasty, NEW r \in LastRun(t),
                        runs[r].end = "told", traces[t].mode # "error",
                        \A q \in Launched : runs[q].tab = t => runs[q].kind = "telnet" /\ runs[q].threads = {}
                 PROVE  traces[t].stopped = "yes"
      BY DEF EndIsShown
    <2>1. t \in Tabs /\ Over(t)
      BY OpenTab DEF Over
    <2>2. Shown(t) \/ ExitDue(t)
      BY <2>1 DEF EInv, EndInv
    <2>3. ~ ExitDue(t)
      BY EmptySeq DEF ExitDue
    <2>4. ~ Pending(t)
      BY DEF Calm, Busy, Pending
    <2> QED BY <2>2, <2>3, <2>4 DEF Shown
  <1> QED BY <1>1, <1>2, <1>3, PTL DEF Spec
=============================================================================
