----------------------------- MODULE QMPChannel -----------------------------
(***************************************************************************)
(* src/vm_harness/qmp_client.py, class QMPClient: one client of one QEMU   *)
(* monitor, shared by the tasks of an event loop.                          *)
(*                                                                         *)
(* send() writes a command and takes the NEXT line of the stream as its    *)
(* reply: QMP replies carry no identity here, events come in the same      *)
(* stream, and a send() that times out leaves its reply in it.  An asyncio *)
(* StreamReader admits one waiting task; a second one raises, after its    *)
(* command was written.  connect() declares the client connected before    *)
(* the handshake.                                                          *)
(*                                                                         *)
(* Commands are numbered in the order they are written.                    *)
(***************************************************************************)
EXTENDS Integers, Sequences, FiniteSets

CONSTANTS
  Tasks,       \* tasks of the event loop that hold the client
  Connector,   \* the task that calls connect()
  NoTask,      \* no task waits for data
  Timeouts,    \* may a read take longer than self._timeout?
  MaxCmd,      \* bound: commands written
  MaxEvents    \* bound: events QEMU emits

ASSUME TasksAssumption    == /\ Connector \in Tasks /\ NoTask \notin Tasks
                             /\ IsFiniteSet(Tasks)
ASSUME TimeoutsAssumption == Timeouts \in BOOLEAN
ASSUME BoundsAssumption   == MaxCmd \in Nat /\ MaxEvents \in Nat

VARIABLES
  connected,  \* self._connected
  sock,       \* the connection: "none", "open" or "eof"
  greeted,    \* QEMU has sent its greeting
  ready,      \* QEMU has accepted qmp_capabilities
  toQemu,     \* commands QEMU has not answered
  stream,     \* lines in the StreamReader
  waiter,     \* the task the StreamReader wakes when a line comes
  pc,         \* where each task is
  want,       \* want[t]: what the line t reads is for
  cmd,        \* cmd[t]: the command t wrote last
  sent,       \* commands written so far
  late,       \* has a read timed out
  answer,     \* answer[t]: the last command t got an answer to, and the answer
  events      \* events emitted so far

qemu  == <<greeted, ready, toQemu, events>>
tasks == <<pc, want, cmd, sent, late, answer>>
vars  == <<connected, sock, stream, waiter, qemu, tasks>>

Command  == [id : 1..MaxCmd, caps : BOOLEAN]
Greeting == [kind |-> "greeting", of |-> 0, ok |-> TRUE]
Event    == [kind |-> "event",    of |-> 0, ok |-> TRUE]
Reply(i, ok) == [kind |-> "reply", of |-> i, ok |-> ok]
Line     == {Greeting, Event} \cup [kind : {"reply"}, of : 1..MaxCmd, ok : BOOLEAN]
NoAnswer == [cmd |-> 0, line |-> Reply(0, TRUE)]

Reading == {t \in Tasks : pc[t] \in {"reading", "waiting"}}

\* Lines that nobody reads for: what a timeout, an event, a second reader
\* left behind.  The greeting is owed until it is sent.
Surplus ==
  Len(stream) + Len(toQemu) + (IF greeted THEN 0 ELSE 1)
    - Cardinality(Reading)

Init ==
  /\ connected = FALSE /\ sock = "none"
  /\ greeted = FALSE /\ ready = FALSE /\ toQemu = <<>> /\ events = 0
  /\ stream = <<>> /\ waiter = NoTask
  /\ pc = [t \in Tasks |-> "idle"]
  /\ want = [t \in Tasks |-> "command"]
  /\ cmd = [t \in Tasks |-> 0] /\ sent = 0
  /\ late = FALSE
  /\ answer = [t \in Tasks |-> NoAnswer]

Goto(t, l) == pc' = [pc EXCEPT ![t] = l]

\* The StreamReader wakes its waiter, which will look at the buffer again.
Wake(p) ==
  /\ waiter' = NoTask
  /\ pc' = IF waiter = NoTask THEN p ELSE [p EXCEPT ![waiter] = "reading"]

-----------------------------------------------------------------------------
(* connect() and send() *)

Open(t) ==
  /\ t = Connector /\ sock = "none" /\ pc[t] = "idle"
  /\ sock' = "open"
  /\ connected' = TRUE
  /\ want' = [want EXCEPT ![t] = "greeting"]
  /\ Goto(t, "reading")
  /\ UNCHANGED <<stream, waiter, qemu, cmd, sent, late, answer>>

\* Fault: a command is counted twice.
WriteTwice(t, caps) ==
  /\ connected /\ sent < MaxCmd
  /\ sent' = sent + 2
  /\ Goto(t, "reading")
  /\ UNCHANGED <<connected, sock, qemu, stream, waiter, want, cmd, late, answer>>

\* The command is written and drained; on a dead socket the write is lost.
Write(t, caps) ==
  /\ connected /\ sent < MaxCmd
  /\ sent' = sent + 1
  /\ cmd' = [cmd EXCEPT ![t] = sent + 1]
  /\ toQemu' = IF sock = "open"
                 THEN Append(toQemu, [id |-> sent + 1, caps |-> caps])
                 ELSE toQemu
  /\ want' = [want EXCEPT ![t] = IF caps THEN "caps" ELSE "command"]
  /\ Goto(t, "reading")
  /\ UNCHANGED <<connected, sock, greeted, ready, events, stream, waiter, late, answer>>

Negotiate(t) == pc[t] = "negotiate" /\ Write(t, TRUE)
Send(t)      == pc[t] = "idle" /\ Write(t, FALSE)

\* connect() is disconnected, or its socket dead, after the greeting: it raises.
NegotiateFails(t) ==
  /\ pc[t] = "negotiate" /\ (~connected \/ sock = "eof")
  /\ Goto(t, "idle")
  /\ UNCHANGED <<connected, sock, stream, waiter, qemu, want, cmd, sent, late, answer>>

-----------------------------------------------------------------------------
(* readuntil() under wait_for(): _read_greeting() and _read_response() *)

\* Fault: the greeting is looked at and left in the stream.
TakeGreetingNot(t) ==
  /\ pc[t] = "reading" /\ want[t] = "greeting" /\ stream # <<>>
  /\ Goto(t, "negotiate")
  /\ UNCHANGED <<connected, sock, stream, waiter, qemu, want, cmd, sent, late, answer>>

\* Fault: connect() ends without qmp_capabilities.
TakeGreetingOnly(t) ==
  /\ pc[t] = "reading" /\ want[t] = "greeting" /\ stream # <<>>
  /\ stream' = Tail(stream)
  /\ Goto(t, "idle")
  /\ UNCHANGED <<connected, sock, waiter, qemu, want, cmd, sent, late, answer>>

TakeGreeting(t) ==
  /\ pc[t] = "reading" /\ want[t] = "greeting" /\ stream # <<>>
  /\ stream' = Tail(stream)
  /\ Goto(t, IF Head(stream) = Greeting THEN "negotiate" ELSE "idle")
  /\ UNCHANGED <<connected, sock, waiter, qemu, want, cmd, sent, late, answer>>

\* Fault: the last line of the buffer is the reply.
TakeLastLine(t) ==
  /\ pc[t] = "reading" /\ want[t] # "greeting" /\ stream # <<>>
  /\ stream' = SubSeq(stream, 1, Len(stream) - 1)
  /\ answer' = [answer EXCEPT ![t] = [cmd |-> cmd[t], line |-> stream[Len(stream)]]]
  /\ Goto(t, "idle")
  /\ UNCHANGED <<connected, sock, waiter, qemu, want, cmd, sent, late>>

\* Fault: the whole buffer is read at once.
TakeWholeBuffer(t) ==
  /\ pc[t] = "reading" /\ want[t] # "greeting" /\ stream # <<>>
  /\ stream' = <<>>
  /\ answer' = [answer EXCEPT ![t] = [cmd |-> cmd[t], line |-> Head(stream)]]
  /\ Goto(t, "idle")
  /\ UNCHANGED <<connected, sock, waiter, qemu, want, cmd, sent, late>>

\* Whatever line is next is the reply: returned, or raised if it is an error.
TakeReply(t) ==
  /\ pc[t] = "reading" /\ want[t] # "greeting" /\ stream # <<>>
  /\ stream' = Tail(stream)
  /\ answer' = [answer EXCEPT ![t] = [cmd |-> cmd[t], line |-> Head(stream)]]
  /\ Goto(t, "idle")
  /\ UNCHANGED <<connected, sock, waiter, qemu, want, cmd, sent, late>>

Wait(t) ==
  /\ pc[t] = "reading" /\ stream = <<>> /\ sock = "open" /\ waiter = NoTask
  /\ waiter' = t
  /\ Goto(t, "waiting")
  /\ UNCHANGED <<connected, sock, stream, qemu, want, cmd, sent, late, answer>>

\* readuntil() raises: the stream ended, or another task waits on it.
ReadFails(t) ==
  /\ pc[t] = "reading" /\ stream = <<>>
  /\ sock = "eof" \/ waiter # NoTask
  /\ Goto(t, "idle")
  /\ UNCHANGED <<connected, sock, stream, waiter, qemu, want, cmd, sent, late, answer>>

\* Fault: the greeting is awaited without a timeout.
TimeoutOfRepliesOnly(t) ==
  /\ Timeouts /\ pc[t] = "waiting" /\ want[t] # "greeting"
  /\ waiter' = NoTask
  /\ late' = TRUE
  /\ Goto(t, "idle")
  /\ UNCHANGED <<connected, sock, stream, qemu, want, cmd, sent, answer>>

Timeout(t) ==
  /\ Timeouts /\ pc[t] = "waiting"
  /\ waiter' = NoTask
  /\ late' = TRUE
  /\ Goto(t, "idle")
  /\ UNCHANGED <<connected, sock, stream, qemu, want, cmd, sent, answer>>

-----------------------------------------------------------------------------
(* disconnect() *)

Disconnect(t) ==
  /\ pc[t] = "idle" /\ sock # "none" /\ connected
  /\ sock' = "eof"
  /\ toQemu' = <<>>
  /\ Wake([pc EXCEPT ![t] = "closing"])
  /\ UNCHANGED <<connected, stream, greeted, ready, events, want, cmd, sent, late, answer>>

Disconnected(t) ==
  /\ pc[t] = "closing"
  /\ connected' = FALSE
  /\ Goto(t, "idle")
  /\ UNCHANGED <<sock, stream, waiter, qemu, want, cmd, sent, late, answer>>

-----------------------------------------------------------------------------
(* QEMU's monitor, as the client relies on it *)

Arrive(line) ==
  /\ sock = "open"
  /\ stream' = Append(stream, line)
  /\ Wake(pc)
  /\ UNCHANGED <<connected, sock, want, cmd, sent, late, answer>>

Greet ==
  /\ ~greeted /\ greeted' = TRUE
  /\ Arrive(Greeting)
  /\ UNCHANGED <<ready, toQemu, events>>

\* Commands are answered in order; until qmp_capabilities, with an error.
Answer ==
  /\ greeted /\ toQemu # <<>>
  /\ toQemu' = Tail(toQemu)
  /\ ready' = (ready \/ Head(toQemu).caps)
  /\ \E ok \in BOOLEAN :
       /\ Head(toQemu).caps => ok = ~ready
       /\ ~ready /\ ~Head(toQemu).caps => ~ok
       /\ Arrive(Reply(Head(toQemu).id, ok))
  /\ UNCHANGED <<greeted, events>>

EmitEvent ==
  /\ ready /\ events < MaxEvents
  /\ events' = events + 1
  /\ Arrive(Event)
  /\ UNCHANGED <<greeted, ready, toQemu>>

\* The machine is powered off or killed.
QemuExits ==
  /\ sock = "open"
  /\ sock' = "eof"
  /\ toQemu' = <<>>
  /\ Wake(pc)
  /\ UNCHANGED <<connected, stream, greeted, ready, events, want, cmd, sent, late, answer>>

Read(t) == TakeGreeting(t) \/ TakeReply(t) \/ Wait(t) \/ ReadFails(t)

Next ==
  \/ \E t \in Tasks : \/ Open(t) \/ Negotiate(t) \/ NegotiateFails(t) \/ Send(t)
                      \/ Read(t) \/ Timeout(t)
                      \/ Disconnect(t) \/ Disconnected(t)
  \/ Greet \/ Answer \/ EmitEvent \/ QemuExits

Spec == Init /\ [][Next]_vars

\* The event loop runs every task that can run, and its timers fire.  QEMU
\* owes nothing.
FairSpec == Spec /\ \A t \in Tasks : WF_vars(Read(t)) /\ WF_vars(Timeout(t))

-----------------------------------------------------------------------------
TypeOK ==
  /\ connected \in BOOLEAN /\ greeted \in BOOLEAN /\ ready \in BOOLEAN
  /\ sock \in {"none", "open", "eof"}
  /\ toQemu \in Seq(Command) /\ stream \in Seq(Line)
  /\ waiter \in Tasks \cup {NoTask}
  /\ pc \in [Tasks -> {"idle", "negotiate", "reading", "waiting", "closing"}]
  /\ want \in [Tasks -> {"greeting", "caps", "command"}]
  /\ cmd \in [Tasks -> 0..MaxCmd] /\ sent \in 0..MaxCmd
  /\ late \in BOOLEAN
  /\ answer \in [Tasks -> [cmd : 0..MaxCmd, line : Line \cup {Reply(0, TRUE)}]]
  /\ events \in 0..MaxEvents

\* One task has used the client so far, QEMU has emitted no event, and no read
\* has timed out.
Undisturbed ==
  events = 0 /\ ~late /\ \A t \in Tasks \ {Connector} : cmd[t] = 0

\* send() returns the response to its own command, as its docstring says.
ReplyMatches ==
  \A t \in Tasks : answer[t].line = Reply(answer[t].cmd, answer[t].line.ok)

\* Replies carry no identity, and need none until a read times out, an event
\* comes or a second task sends: whatever task disconnects, and wherever QEMU
\* dies.
OrderlyReplies == Undisturbed => ReplyMatches

\* As long, no command reaches QEMU before the handshake of the class docstring
\* is over.
OrderlyHandshake ==
  Undisturbed => \A i \in DOMAIN toQemu : ~toQemu[i].caps => ready

\* A connection that has a line too many never loses it: nothing in the
\* client discards a line, and every later command reads a stale one.
NeverResyncs == [][sock = "open" /\ sock' = "open" => Surplus' >= Surplus]_vars

\* A task that reads is answered or raises: QEMU may never answer.
ReadEnds == \A t \in Tasks : t \in Reading ~> t \notin Reading
=============================================================================
