------------------------------ MODULE HostKey ------------------------------
(***************************************************************************)
(* Host-key verification (src-tauri/src/runtime/ssh/host_key.rs) and the   *)
(* queue of prompts in the window (src/App.tsx).                           *)
(*                                                                         *)
(* Every SSH connection (terminals, the status poller, SFTP helpers) runs  *)
(* verify_connected_server on a thread of its own.  A key that the         *)
(* known_hosts file does not vouch for is put to the user while the thread *)
(* waits: the request is registered, a prompt is emitted, and the thread   *)
(* polls for the decision, for the stop of its terminal and for a timeout. *)
(* One lock per endpoint keeps connections to the same server from asking  *)
(* twice; the file is shared by all endpoints and no lock protects it.     *)
(*                                                                         *)
(* A connection verifies once, so it also names its request (the code      *)
(* numbers requests with an atomic counter).                               *)
(***************************************************************************)
EXTENDS Naturals, Sequences, FiniteSets

CONSTANTS
  Conns,         \* connection attempts
  NoConn,        \* no connection
  Abortable,     \* the connections of terminals: they carry a stop flag
  Endpoints,     \* host:port pairs
  EndpointOf,    \* the endpoint of a connection
  BareOf,        \* the endpoint on port 22 of the same host
  Keys,          \* host keys
  KeyOf,         \* the key a connection's server presents
  InitialHosts   \* the known_hosts file the program starts with

ASSUME HostKeyAssumption ==
  /\ NoConn \notin Conns
  /\ Abortable \subseteq Conns
  /\ EndpointOf \in [Conns -> Endpoints]
  /\ BareOf \in [Endpoints -> Endpoints]
  /\ KeyOf \in [Conns -> Keys]
  /\ InitialHosts \subseteq Endpoints \X Keys

VARIABLES
  knownHosts,    \* the lines of the known_hosts file
  acceptedOnce,  \* keys accepted for the lifetime of the program
  hostLock,      \* who holds the lock of an endpoint
  stage,         \* where a connection is in verify_connected_server
  kind,          \* HostKeyKind of a prompt
  decision,      \* what prompt_decision returns
  kept,          \* the lines remove_host_lines has read and will write back
  pending,       \* requests with a registered sender
  mailbox,       \* the channel from the window to the waiting thread
  abort,         \* the stop flag of a terminal's connection
  prompts,       \* the prompts of the window, oldest first
  resolving,     \* resolve_ssh_host_key calls on their way
  decided,       \* history: what the user answered to which request
  harmed         \* history: the endpoints whose lines of the file a rewrite for
                 \* another endpoint, or one that failed, may have cost

fileVars == <<knownHosts, acceptedOnce, harmed>>
windowVars == <<prompts, resolving, decided>>
hostKeyVars == <<fileVars, hostLock, stage, kind, decision, kept, pending, mailbox,
                 abort, windowVars>>

Decisions == {"store", "once", "reject"}

Line(c) == <<EndpointOf[c], KeyOf[c]>>

LinesOf(e) == {line \in knownHosts : line[1] = e}

(* ssh_session_is_known_server, for the key the server presented.          *)
Known(c)   == Line(c) \in knownHosts
Unknown(c) == LinesOf(EndpointOf[c]) = {}

MoveTo(c, to) == stage' = [stage EXCEPT ![c] = to]

(* Mutant of Release: an error leaves without the lock's guard.            *)
ReleaseOnSuccess(c, to) ==
  /\ MoveTo(c, to)
  /\ hostLock' = IF to = "ok" THEN [hostLock EXCEPT ![EndpointOf[c]] = NoConn]
                              ELSE hostLock

(* The verdict of a connection, and its guard of the endpoint is dropped.  *)
Release(c, to) ==
  /\ MoveTo(c, to)
  /\ hostLock' = [hostLock EXCEPT ![EndpointOf[c]] = NoConn]

---------------------------------------------------------------------------
(* verify_connected_server.                                                *)

(* The server is connected.  A key the file vouches for passes without the *)
(* lock; the status itself may fail.                                       *)
FirstCheck(c) ==
  /\ stage[c] = "new"
  /\ \/ Known(c) /\ MoveTo(c, "ok")
     \/ ~Known(c) /\ MoveTo(c, "waiting")
     \/ MoveTo(c, "failed")
  /\ UNCHANGED <<fileVars, hostLock, kind, decision, kept, pending, mailbox,
                 abort, windowVars>>

Acquire(c) ==
  /\ stage[c] = "waiting"
  /\ hostLock[EndpointOf[c]] = NoConn
  /\ hostLock' = [hostLock EXCEPT ![EndpointOf[c]] = c]
  /\ MoveTo(c, "recheck")
  /\ UNCHANGED <<fileVars, kind, decision, kept, pending, mailbox, abort,
                 windowVars>>

(* Mutant of Recheck: the keys accepted once are not looked at again.      *)
RecheckFileOnly(c) ==
  /\ stage[c] = "recheck"
  /\ \/ Known(c) /\ Release(c, "ok") /\ UNCHANGED kind
     \/ /\ ~Known(c)
        /\ kind' = [kind EXCEPT ![c] =
                      IF Unknown(c) THEN "unknown" ELSE "changed"]
        /\ MoveTo(c, "register")
        /\ UNCHANGED hostLock
  /\ UNCHANGED <<fileVars, decision, kept, pending, mailbox, abort, windowVars>>

(* Another connection may have stored the key, or accepted it once, while  *)
(* this one waited for the lock.  The file it reads is empty or cut short  *)
(* if the rewrite of another endpoint is at it.                            *)
Recheck(c) ==
  /\ stage[c] = "recheck"
  /\ \/ /\ Known(c) \/ Line(c) \in acceptedOnce
        /\ Release(c, "ok")
        /\ UNCHANGED kind
     \/ /\ ~Known(c) /\ Line(c) \notin acceptedOnce
        /\ kind' = [kind EXCEPT ![c] =
                      IF Unknown(c) THEN "unknown" ELSE "changed"]
        /\ MoveTo(c, "register")
        /\ UNCHANGED hostLock
     \/ /\ Release(c, "failed")
        /\ UNCHANGED kind
  /\ harmed' = IF \E d \in Conns \ {c} : stage[d] = "write"
                 THEN harmed \cup {EndpointOf[c]} ELSE harmed
  /\ UNCHANGED <<knownHosts, acceptedOnce, decision, kept, pending, mailbox,
                 abort, windowVars>>

(* prompt_decision registers the request and emits the prompt.             *)
Register(c) ==
  /\ stage[c] = "register"
  /\ pending' = pending \cup {c}
  /\ prompts' = Append(prompts, c)
  /\ MoveTo(c, "asking")
  /\ UNCHANGED <<fileVars, hostLock, kind, decision, kept, mailbox, abort,
                 resolving, decided>>

Decide(c, d) ==
  /\ stage[c] = "asking"
  /\ decision' = [decision EXCEPT ![c] = d]
  /\ MoveTo(c, "decided")
  /\ UNCHANGED <<fileVars, hostLock, kind, kept, pending, mailbox, abort,
                 windowVars>>

(* A decision arrives.                                                     *)
Receive(c) == mailbox[c] # "none" /\ Decide(c, mailbox[c])

(* The terminal was stopped.                                               *)
AbortAsking(c) == abort[c] /\ Decide(c, "reject")

(* DECISION_TIMEOUT has passed; a decision may be on its way all the same. *)
GiveUp(c) == Decide(c, "reject")

Unregister(c) ==
  /\ stage[c] = "decided"
  /\ pending' = pending \ {c}
  /\ MoveTo(c, IF decision[c] = "store" /\ kind[c] = "changed" THEN "read"
           ELSE decision[c])
  /\ UNCHANGED <<fileVars, hostLock, kind, decision, kept, mailbox, abort,
                 windowVars>>

Reject(c) ==
  /\ stage[c] = "reject"
  /\ Release(c, "failed")
  /\ UNCHANGED <<fileVars, kind, decision, kept, pending, mailbox, abort,
                 windowVars>>

(* Mutant of OnceKey: the fingerprint alone, without the endpoint.         *)
OnceKeyOfAnyHost(c) == Endpoints \X {KeyOf[c]}

(* What accepting once adds: the endpoint with this fingerprint.           *)
OnceKey(c) == {Line(c)}

AcceptOnce(c) ==
  /\ stage[c] = "once"
  /\ acceptedOnce' = acceptedOnce \cup OnceKey(c)
  /\ Release(c, "ok")
  /\ UNCHANGED <<knownHosts, harmed, kind, decision, kept, pending, mailbox, abort,
                 windowVars>>

(* The lines remove_host_lines drops: those of the endpoint, and those of  *)
(* the bare host name.                                                     *)
Matches(c, line) == line[1] \in {EndpointOf[c], BareOf[EndpointOf[c]]}

(* A changed key: the file is read, truncated and written back in full,    *)
(* without the endpoint.  Then the new line is appended.  Nothing keeps    *)
(* the connections of other endpoints from the file meanwhile: what they   *)
(* change is overwritten, and two rewrites at once may cost any line.      *)
Rewriting(d) == stage[d] \in {"truncate", "write"}

ReadFile(c) ==
  /\ stage[c] = "read"
  /\ \/ /\ kept' = [kept EXCEPT ![c] =
                        {line \in knownHosts : ~Matches(c, line)}]
        /\ MoveTo(c, "truncate")
        /\ harmed' = IF \E d \in Conns \ {c} : Rewriting(d)
                       THEN Endpoints ELSE harmed
        /\ UNCHANGED hostLock
     \/ /\ Release(c, "failed")
        /\ UNCHANGED <<kept, harmed>>
  /\ UNCHANGED <<knownHosts, acceptedOnce, kind, decision, pending, mailbox, abort,
                 windowVars>>

(* fs::write opens the file, which empties it, or fails to.                *)
TruncateFile(c) ==
  /\ stage[c] = "truncate"
  /\ \/ /\ knownHosts' = {}
        /\ MoveTo(c, "write")
        /\ UNCHANGED <<hostLock, kept>>
     \/ /\ kept' = [kept EXCEPT ![c] = {}]
        /\ Release(c, "failed")
        /\ UNCHANGED knownHosts
  /\ UNCHANGED <<acceptedOnce, harmed, kind, decision, pending, mailbox, abort,
                 windowVars>>

(* The lines are written, or the write fails after some of them.           *)
WriteFile(c) ==
  /\ stage[c] = "write"
  /\ kept' = [kept EXCEPT ![c] = {}]
  /\ \/ /\ knownHosts' = kept[c]
        /\ MoveTo(c, "store")
        /\ UNCHANGED <<hostLock, harmed>>
     \/ /\ knownHosts' \in SUBSET kept[c]
        /\ harmed' = Endpoints
        /\ Release(c, "failed")
  /\ UNCHANGED <<acceptedOnce, kind, decision, pending, mailbox, abort,
                 windowVars>>

(* A line appended while another endpoint's rewrite is at the file is      *)
(* overwritten with it.                                                    *)
Overwritten(c) ==
  harmed' = IF \E d \in Conns \ {c} : Rewriting(d)
              THEN harmed \cup {EndpointOf[c]} ELSE harmed

(* Mutant of AppendLine: its error is not looked at.                       *)
AppendLineUnchecked(c) ==
  /\ stage[c] = "store"
  /\ knownHosts' \in {knownHosts, knownHosts \cup {Line(c)}}
  /\ Overwritten(c)
  /\ Release(c, "ok")
  /\ UNCHANGED <<acceptedOnce, kind, decision, kept, pending, mailbox, abort,
                 windowVars>>

(* ssh_session_update_known_hosts appends the line, or fails.              *)
AppendLine(c) ==
  /\ stage[c] = "store"
  /\ \/ /\ knownHosts' = knownHosts \cup {Line(c)}
        /\ Release(c, "ok")
     \/ /\ Release(c, "failed")
        /\ UNCHANGED knownHosts
  /\ Overwritten(c)
  /\ UNCHANGED <<acceptedOnce, kind, decision, kept, pending, mailbox, abort,
                 windowVars>>

---------------------------------------------------------------------------
(* The window, and the rest of the program.                                *)

(* handleHostKeyDecision answers the oldest prompt, which stays on screen  *)
(* until then, whatever has become of its request.                         *)
Answer(d) ==
  /\ prompts # <<>>
  /\ prompts' = Tail(prompts)
  /\ resolving' = resolving \cup {<<Head(prompts), d>>}
  /\ decided' = decided \cup {<<Head(prompts), d>>}
  /\ UNCHANGED <<fileVars, hostLock, stage, kind, decision, kept, pending, mailbox,
                 abort>>

(* resolve delivers to a registered request, once.                         *)
Resolve(c, d) ==
  /\ <<c, d>> \in resolving
  /\ resolving' = resolving \ {<<c, d>>}
  /\ IF c \in pending
       THEN /\ pending' = pending \ {c}
            /\ mailbox' = [mailbox EXCEPT ![c] = d]
       ELSE UNCHANGED <<pending, mailbox>>
  /\ UNCHANGED <<fileVars, hostLock, stage, kind, decision, kept, abort, prompts,
                 decided>>

(* The terminal of a connection is stopped.                                *)
RequestStop(c) ==
  /\ c \in Abortable
  /\ ~abort[c]
  /\ abort' = [abort EXCEPT ![c] = TRUE]
  /\ UNCHANGED <<fileVars, hostLock, stage, kind, decision, kept, pending, mailbox,
                 windowVars>>

---------------------------------------------------------------------------
HostKeyInit ==
  /\ knownHosts = InitialHosts
  /\ acceptedOnce = {}
  /\ hostLock = [e \in Endpoints |-> NoConn]
  /\ stage = [c \in Conns |-> "new"]
  /\ kind = [c \in Conns |-> "unknown"]
  /\ decision = [c \in Conns |-> "reject"]
  /\ kept = [c \in Conns |-> {}]
  /\ pending = {}
  /\ mailbox = [c \in Conns |-> "none"]
  /\ abort = [c \in Conns |-> FALSE]
  /\ prompts = <<>>
  /\ resolving = {}
  /\ decided = {}
  /\ harmed = {}

Verify(c) ==
  \/ FirstCheck(c) \/ Acquire(c) \/ Recheck(c) \/ Register(c)
  \/ Receive(c) \/ AbortAsking(c) \/ GiveUp(c) \/ Unregister(c)
  \/ Reject(c) \/ AcceptOnce(c)
  \/ ReadFile(c) \/ TruncateFile(c) \/ WriteFile(c) \/ AppendLine(c)

Window ==
  \/ \E d \in Decisions : Answer(d)
  \/ \E c \in Conns, d \in Decisions : Resolve(c, d)
  \/ \E c \in Conns : RequestStop(c)

HostKeyNext == Window \/ \E c \in Conns : Verify(c)

(* Threads are scheduled, and the timeout of a prompt passes.  The user    *)
(* need not answer.                                                        *)
HostKeyFairness == \A c \in Conns : WF_hostKeyVars(Verify(c))

HostKeySpec == HostKeyInit /\ [][HostKeyNext]_hostKeyVars

HostKeyFairSpec == HostKeySpec /\ HostKeyFairness

---------------------------------------------------------------------------
(* Safety.                                                                 *)

Places == {"new", "waiting", "recheck", "register", "asking", "decided",
           "reject", "once", "read", "truncate", "write", "store", "ok",
           "failed"}

HostKeyTypeOK ==
  /\ knownHosts \subseteq Endpoints \X Keys
  /\ acceptedOnce \subseteq Endpoints \X Keys
  /\ hostLock \in [Endpoints -> Conns \cup {NoConn}]
  /\ stage \in [Conns -> Places]
  /\ kind \in [Conns -> {"unknown", "changed"}]
  /\ decision \in [Conns -> Decisions]
  /\ kept \in [Conns -> SUBSET (Endpoints \X Keys)]
  /\ pending \subseteq Conns
  /\ mailbox \in [Conns -> Decisions \cup {"none"}]
  /\ abort \in [Conns -> BOOLEAN]
  /\ prompts \in Seq(Conns)
  /\ resolving \subseteq Conns \X Decisions
  /\ decided \subseteq Conns \X Decisions
  /\ harmed \subseteq Endpoints

(* The user said yes to this endpoint with this key.                       *)
Approved(line) ==
  \E c \in Conns : Line(c) = line /\ \E d \in {"store", "once"} :
                                       <<c, d>> \in decided

(* No connection passes with a key that neither the initial file nor an    *)
(* answer of the user vouches for, whatever races with it: late answers,   *)
(* timeouts, stops, and rewrites of the file by other connections.         *)
PassedIsTrusted ==
  \A c \in Conns : stage[c] = "ok" => Line(c) \in InitialHosts \/ Approved(Line(c))

(* The connections of one endpoint never have two prompts between them.    *)
Asking == {"register", "asking", "decided"}
OnePromptPerEndpoint ==
  \A c, d \in Conns :
    stage[c] \in Asking /\ stage[d] \in Asking /\ c # d =>
      EndpointOf[c] # EndpointOf[d]

(* A key on which the user's decision is known is not asked about: not     *)
(* even by a connection that was under way when it was made.  Of the file, *)
(* this is said of endpoints that no rewrite of another has harmed.        *)
AskedOnlyWhenNeeded ==
  \A c \in Conns :
    stage[c] \in Asking =>
      /\ Line(c) \notin acceptedOnce
      /\ EndpointOf[c] \notin harmed => Line(c) \notin knownHosts

(* A request is registered only while its connection waits for it.         *)
NoLeakedRequest == \A c \in pending : stage[c] \in {"asking", "decided"}

(* Questions are put one at a time for an endpoint and about keys not yet  *)
(* decided, and none is left behind by the connection that put it.         *)
QuestionsAreDue == OnePromptPerEndpoint /\ AskedOnlyWhenNeeded /\ NoLeakedRequest

(* An endpoint gets one key in the file, unless it was harmed: two of its  *)
(* lines are both from the file the program started with.                  *)
OneKeyPerEndpoint ==
  \A line, other \in knownHosts :
    line[1] = other[1] /\ line[1] \notin harmed =>
      line = other \/ {line, other} \subseteq InitialHosts

AllQuiet == \A c \in Conns : stage[c] \in {"new", "ok", "failed"}

(* Another connection replaced the keys of the host of c.                  *)
ReplacedByOther(c) ==
  \E d \in Conns \ {c} :
    decision[d] = "store" /\ kind[d] = "changed" /\ Matches(d, Line(c))

(* HostKeyDecision::Store: "Store the key in the known_hosts file (and     *)
(* replace a changed one)".  When all connections have passed, the key of  *)
(* one that stored it is in the file, unless another replaced it.          *)
StoredKeysStay ==
  (\A c \in Conns : stage[c] = "ok") =>
    \A c \in Conns :
      decision[c] = "store" => Line(c) \in knownHosts \/ ReplacedByOther(c)

(* The file holds what was stored, whatever the connections of the other   *)
(* endpoints do to it: a stored key is lost, and an endpoint has two, only *)
(* if a file-wide rewrite overlapped another one, overlapped the reading   *)
(* or the appending of this endpoint, or failed after the truncation.      *)
KnownHostsHold ==
  /\ OneKeyPerEndpoint
  /\ \A c \in Conns :
       stage[c] = "ok" /\ decision[c] = "store" /\ AllQuiet =>
         \/ Line(c) \in knownHosts
         \/ ReplacedByOther(c)
         \/ EndpointOf[c] \in harmed

---------------------------------------------------------------------------
(* Liveness.                                                               *)

(* Every verification ends, although the user may never answer.            *)
VerificationEnds == \A c \in Conns : <>(stage[c] \in {"ok", "failed"})

---------------------------------------------------------------------------
(* The inductive invariant behind the theorem of SshProofs: trust has      *)
(* one origin wherever it passes through.                                  *)

Vouched(line) == line \in InitialHosts \/ Approved(line)

Storing == {"read", "truncate", "write", "store"}

FilesVouched ==
  /\ \A line \in knownHosts \cup acceptedOnce : Vouched(line)
  /\ \A c \in Conns : \A line \in kept[c] : Vouched(line)

AnswersDecided ==
  /\ resolving \subseteq decided
  /\ \A c \in Conns : mailbox[c] # "none" => <<c, mailbox[c]>> \in decided

PlacesDecided ==
  \A c \in Conns :
    /\ stage[c] = "decided" => \/ decision[c] = "reject"
                            \/ <<c, decision[c]>> \in decided
    /\ stage[c] = "once" => <<c, "once">> \in decided
    /\ stage[c] \in Storing => <<c, "store">> \in decided
    /\ stage[c] = "ok" => Vouched(Line(c))

TrustInv == HostKeyTypeOK /\ FilesVouched /\ AnswersDecided /\ PlacesDecided

=============================================================================
