-------------------------- MODULE QMPChannelProofs --------------------------
(***************************************************************************)
(* What the tasks that share a QMPClient may rely on: no lost wakeup, for  *)
(* any number of them; replies that match and a handshake that comes first *)
(* as long as one task sends, QEMU emits no event and answers in time,     *)
(* whatever task disconnects and whenever the connection dies.             *)
(***************************************************************************)
EXTENDS QMPChannel, FiniteSetTheorems, TLAPS

LEMMA EmptyLemma ==
  ASSUME NEW S
  PROVE  <<>> \in Seq(S)
OBVIOUS

LEMMA GrowLemma ==
  ASSUME NEW S, NEW s \in Seq(S), NEW e \in S
  PROVE  Append(s, e) \in Seq(S)
OBVIOUS

LEMMA ShrinkLemma ==
  ASSUME NEW S, NEW s \in Seq(S), s # <<>>
  PROVE  Tail(s) \in Seq(S) /\ Head(s) \in S
OBVIOUS

-----------------------------------------------------------------------------
Busy(t) == pc[t] \in {"reading", "waiting"}

\* Nothing is on its way.
Quiet == greeted /\ stream = <<>> /\ toQemu = <<>>

\* The line task t reads for is owed by QEMU, or is the only one there is.
Owed(t) ==
  IF want[t] = "greeting"
    THEN /\ toQemu = <<>>
         /\ stream = IF greeted THEN <<Greeting>> ELSE <<>>
    ELSE /\ greeted
         /\ \/ toQemu = <<[id |-> cmd[t], caps |-> want[t] = "caps"]>> /\ stream = <<>>
            \/ /\ toQemu = <<>> /\ ready
               /\ \E ok \in BOOLEAN : stream = <<Reply(cmd[t], ok)>>

\* The connection carries at most the one line its only task reads for.
OneLine(t) ==
  /\ sock = "none" => /\ pc[t] = "idle" /\ ~connected /\ ~greeted
                      /\ stream = <<>> /\ toQemu = <<>>
  /\ sock = "open" => /\ connected
                      /\ Busy(t) => /\ Owed(t)
                                    /\ want[t] = "command" => ready
                      /\ ~Busy(t) => Quiet
                      /\ pc[t] = "idle" => ready
                      /\ pc[t] # "closing"
  /\ sock = "eof"  => /\ toQemu = <<>>
                      /\ stream # <<>> => Busy(t) /\ Owed(t)
                      /\ pc[t] # "waiting"
  /\ waiter \in {t, NoTask}
  /\ pc[t] = "waiting" <=> waiter = t

\* A task that has sent nothing has nothing to read.
Silent ==
  \A u \in Tasks \ {Connector} :
    cmd[u] = 0 => /\ pc[u] \in {"idle", "closing"} /\ waiter # u
                  /\ answer[u] = NoAnswer
                  /\ pc[u] = "closing" => sock = "eof"

IInv ==
  /\ TypeOK
  /\ Silent
  /\ Undisturbed => OneLine(Connector) /\ ReplyMatches

-----------------------------------------------------------------------------
\* The type of the state is kept by every step, for any number of tasks.
LEMMA TypeStep ==
  ASSUME TypeOK, [Next]_vars
  PROVE  TypeOK'
<1> USE DEF TypeOK, Goto, qemu
<1>1. ASSUME NEW t \in Tasks, Open(t)
      PROVE  TypeOK'
  BY <1>1 DEF Open
<1>2. ASSUME NEW t \in Tasks, Negotiate(t) \/ Send(t)
      PROVE  TypeOK'
  <2>1. PICK caps \in BOOLEAN : Write(t, caps)
    BY <1>2 DEF Negotiate, Send
  <2>2. sent + 1 \in 1..MaxCmd
    BY <2>1, BoundsAssumption DEF Write
  <2>3. toQemu' \in Seq(Command)
    <3>1. [id |-> sent + 1, caps |-> caps] \in Command
      BY <2>2 DEF Command
    <3>2. Append(toQemu, [id |-> sent + 1, caps |-> caps]) \in Seq(Command)
      BY <3>1, GrowLemma
    <3>3. QED
      BY <2>1, <3>2 DEF Write
  <2>4. cmd' \in [Tasks -> 0..MaxCmd] /\ sent' \in 0..MaxCmd
    BY <2>1, <2>2 DEF Write
  <2>5. QED
    BY <2>1, <2>3, <2>4 DEF Write
<1>3. ASSUME NEW t \in Tasks, NegotiateFails(t)
      PROVE  TypeOK'
  BY <1>3 DEF NegotiateFails
<1>4. ASSUME NEW t \in Tasks, TakeGreeting(t)
      PROVE  TypeOK'
  BY <1>4, ShrinkLemma DEF TakeGreeting
<1>5. ASSUME NEW t \in Tasks, TakeReply(t)
      PROVE  TypeOK'
  <2>1. Tail(stream) \in Seq(Line) /\ Head(stream) \in Line
    BY <1>5, ShrinkLemma DEF TakeReply
  <2>2. QED
    BY <1>5, <2>1 DEF TakeReply
<1>6. ASSUME NEW t \in Tasks, Wait(t)
      PROVE  TypeOK'
  BY <1>6 DEF Wait
<1>7. ASSUME NEW t \in Tasks, ReadFails(t)
      PROVE  TypeOK'
  BY <1>7 DEF ReadFails
<1>8. ASSUME NEW t \in Tasks, Timeout(t)
      PROVE  TypeOK'
  BY <1>8 DEF Timeout
<1>9. ASSUME NEW t \in Tasks, Disconnect(t)
      PROVE  TypeOK'
  <2>1. toQemu' \in Seq(Command)
    BY <1>9, EmptyLemma, Zenon DEF Disconnect
  <2>2. QED
    BY <1>9, <2>1 DEF Disconnect, Wake
<1>10. ASSUME NEW t \in Tasks, Disconnected(t)
       PROVE  TypeOK'
  BY <1>10 DEF Disconnected
<1>11. ASSUME NEW line \in Line, Arrive(line)
       PROVE  /\ stream' \in Seq(Line)
              /\ pc' \in [Tasks -> {"idle", "negotiate", "reading", "waiting", "closing"}]
              /\ waiter' \in Tasks \cup {NoTask}
              /\ UNCHANGED <<connected, sock, want, cmd, sent, late, answer>>
  BY <1>11 DEF Arrive, Wake
<1>12. CASE Greet
  BY <1>11, <1>12 DEF Greet, Line
<1>13. CASE Answer
  <2>1. Head(toQemu) \in Command /\ Tail(toQemu) \in Seq(Command)
    BY <1>13, ShrinkLemma DEF Answer
  <2>2. \A ok \in BOOLEAN : Reply(Head(toQemu).id, ok) \in Line
    BY <2>1 DEF Reply, Line, Command
  <2>3. ready' \in BOOLEAN
    BY <1>13, <2>1 DEF Answer, Command
  <2>4. QED
    BY <1>11, <1>13, <2>1, <2>2, <2>3 DEF Answer
<1>14. CASE EmitEvent
  <2>1. Event \in Line /\ Arrive(Event) /\ UNCHANGED <<greeted, ready, toQemu>>
    BY <1>14 DEF EmitEvent, Line
  <2>2. events' \in 0..MaxEvents
    BY <1>14, BoundsAssumption DEF EmitEvent
  <2>3. QED
    BY <1>11, <2>1, <2>2
<1>15. CASE QemuExits
  <2>1. toQemu' \in Seq(Command)
    BY <1>15, EmptyLemma, Zenon DEF QemuExits
  <2>2. QED
    BY <1>15, <2>1 DEF QemuExits, Wake
<1>16. CASE UNCHANGED vars
  BY <1>16 DEF vars, tasks
<1>17. QED
  BY <1>1, <1>2, <1>3, <1>4, <1>5, <1>6, <1>7, <1>8, <1>9, <1>10, <1>12,
     <1>13, <1>14, <1>15, <1>16 DEF Next, Read

LEMMA TypeInit == Init => TypeOK
<1>1. SUFFICES ASSUME Init PROVE TypeOK
  OBVIOUS
<1>2. stream \in Seq(Line) /\ toQemu \in Seq(Command)
  BY <1>1, EmptyLemma, Zenon DEF Init
<1>3. NoAnswer \in [cmd : 0..MaxCmd, line : Line \cup {Reply(0, TRUE)}]
  BY BoundsAssumption DEF NoAnswer
<1>4. answer \in [Tasks -> [cmd : 0..MaxCmd, line : Line \cup {Reply(0, TRUE)}]]
  BY <1>1, <1>3 DEF Init
<1>5. /\ cmd \in [Tasks -> 0..MaxCmd] /\ sent \in 0..MaxCmd
      /\ events \in 0..MaxEvents
  BY <1>1, BoundsAssumption DEF Init
<1>6. /\ pc \in [Tasks -> {"idle", "negotiate", "reading", "waiting", "closing"}]
      /\ want \in [Tasks -> {"greeting", "caps", "command"}]
      /\ connected = FALSE /\ greeted = FALSE /\ ready = FALSE
      /\ late = FALSE /\ sock = "none" /\ waiter = NoTask
  BY <1>1 DEF Init
<1>7. QED
  BY <1>2, <1>4, <1>5, <1>6 DEF TypeOK

\* The type invariant, for any number of tasks and whatever they share.
THEOREM ChannelType == Spec => []TypeOK
BY TypeInit, TypeStep, PTL DEF Spec

\* What the client takes from asyncio's reader: no task sleeps on a stream that
\* has a line or has ended.
ReaderWakes ==
  \A t \in Tasks : pc[t] = "waiting" => /\ waiter = t
                                        /\ stream = <<>> /\ sock = "open"

LEMMA WakeupsKept == Spec => []ReaderWakes
<1> DEFINE Inv == TypeOK /\ ReaderWakes
<1>1. Init => Inv
  BY TypeInit DEF Init, ReaderWakes
<1>2. Inv /\ [Next]_vars => Inv'
  <2> SUFFICES ASSUME Inv, [Next]_vars
               PROVE  ReaderWakes'
    BY TypeStep
  <2> USE DEF ReaderWakes
  <2>1. pc \in [Tasks -> {"idle", "negotiate", "reading", "waiting", "closing"}]
    BY DEF TypeOK
  <2>2. ASSUME NEW t \in Tasks,
               \/ Open(t) \/ Negotiate(t) \/ Send(t) \/ NegotiateFails(t)
               \/ Disconnected(t) \/ ReadFails(t)
        PROVE  ReaderWakes'
    BY <2>1, <2>2 DEF Open, Negotiate, Send, Write, NegotiateFails,
       Disconnected, ReadFails, Goto, qemu
  <2>3. ASSUME NEW t \in Tasks, TakeGreeting(t) \/ TakeReply(t)
        PROVE  ReaderWakes'
    BY <2>1, <2>3 DEF TakeGreeting, TakeReply, Goto, qemu
  <2>4. ASSUME NEW t \in Tasks, Wait(t) \/ Timeout(t)
        PROVE  ReaderWakes'
    BY <2>1, <2>4, TasksAssumption DEF Wait, Timeout, Goto, qemu
  <2>5. ASSUME NEW p \in [Tasks -> {"idle", "negotiate", "reading", "waiting", "closing"}],
               \A t \in Tasks : p[t] = "waiting" => pc[t] = "waiting",
               Wake(p)
        PROVE  \A t \in Tasks : pc'[t] # "waiting"
    BY <2>1, <2>5, TasksAssumption DEF Wake
  <2>6. ASSUME NEW t \in Tasks, Disconnect(t)
        PROVE  ReaderWakes'
    BY <2>1, <2>5, <2>6 DEF Disconnect
  <2>7. CASE Greet \/ Answer \/ EmitEvent
    BY <2>1, <2>5, <2>7 DEF Greet, Answer, EmitEvent, Arrive
  <2>8. CASE QemuExits
    BY <2>1, <2>5, <2>8 DEF QemuExits
  <2>9. CASE UNCHANGED vars
    BY <2>9 DEF vars, tasks
  <2>10. QED
    BY <2>2, <2>3, <2>4, <2>6, <2>7, <2>8, <2>9 DEF Next, Read
<1>3. QED
  BY <1>1, <1>2, PTL DEF Spec

-----------------------------------------------------------------------------
\* A task becomes a reader by sending.
LEMMA SilentStep ==
  ASSUME TypeOK, Silent, [Next]_vars
  PROVE  Silent'
<1> SUFFICES ASSUME NEW u \in Tasks \ {Connector}, cmd'[u] = 0
             PROVE  /\ pc'[u] \in {"idle", "closing"} /\ waiter' # u
                    /\ answer'[u] = NoAnswer
                    /\ pc'[u] = "closing" => sock' = "eof"
  BY DEF Silent
<1> USE DEF Goto, qemu
<1>1. /\ pc \in [Tasks -> {"idle", "negotiate", "reading", "waiting", "closing"}]
      /\ cmd \in [Tasks -> 0..MaxCmd] /\ sent \in 0..MaxCmd
      /\ answer \in [Tasks -> [cmd : 0..MaxCmd, line : Line \cup {Reply(0, TRUE)}]]
      /\ u # NoTask
  BY TasksAssumption DEF TypeOK
<1>2. ASSUME cmd[u] = 0
      PROVE  /\ pc[u] \in {"idle", "closing"} /\ waiter # u
             /\ answer[u] = NoAnswer
             /\ pc[u] = "closing" => sock = "eof"
  BY <1>2 DEF Silent
<1>3. ASSUME NEW t \in Tasks, Negotiate(t) \/ Send(t)
      PROVE  cmd[u] = 0 /\ pc'[u] = pc[u] /\ UNCHANGED <<answer, waiter, sock>>
  <2>1. PICK caps \in BOOLEAN : Write(t, caps)
    BY <1>3 DEF Negotiate, Send
  <2>2. u # t
    BY <1>1, <2>1, BoundsAssumption DEF Write
  <2>3. QED
    BY <1>1, <2>1, <2>2 DEF Write
<1>4. ASSUME NEW t \in Tasks,
             \/ Open(t) \/ NegotiateFails(t) \/ Wait(t)
             \/ ReadFails(t) \/ Timeout(t) \/ Disconnected(t)
      PROVE  /\ pc'[u] \in {"idle", "closing"} /\ waiter' # u
             /\ answer'[u] = NoAnswer
             /\ pc'[u] = "closing" => sock' = "eof"
  BY <1>1, <1>2, <1>4
  DEF Open, NegotiateFails, Wait, ReadFails, Timeout, Disconnected
<1>5. ASSUME NEW t \in Tasks, TakeGreeting(t) \/ TakeReply(t)
      PROVE  /\ pc'[u] \in {"idle", "closing"} /\ waiter' # u
             /\ answer'[u] = NoAnswer
             /\ pc'[u] = "closing" => sock' = "eof"
  BY <1>1, <1>2, <1>5 DEF TakeGreeting, TakeReply
<1>6. ASSUME NEW t \in Tasks, Disconnect(t)
      PROVE  /\ pc'[u] \in {"idle", "closing"} /\ waiter' # u
             /\ answer'[u] = NoAnswer
             /\ pc'[u] = "closing" => sock' = "eof"
  BY <1>1, <1>2, <1>6 DEF Disconnect, Wake
<1>7. ASSUME NEW line, Arrive(line)
      PROVE  /\ pc'[u] \in {"idle", "closing"} /\ waiter' # u
             /\ answer'[u] = NoAnswer
             /\ pc'[u] = "closing" => sock' = "eof"
  BY <1>1, <1>2, <1>7 DEF Arrive, Wake
<1>8. CASE Greet \/ Answer \/ EmitEvent
  BY <1>7, <1>8 DEF Greet, Answer, EmitEvent
<1>9. CASE QemuExits
  BY <1>1, <1>2, <1>9 DEF QemuExits, Wake
<1>10. CASE UNCHANGED vars
  BY <1>2, <1>10 DEF vars, tasks
<1>11. QED
  BY <1>2, <1>3, <1>4, <1>5, <1>6, <1>8, <1>9, <1>10 DEF Next, Read

\* What has been disturbed stays so.
LEMMA UndisturbedBefore ==
  ASSUME TypeOK, [Next]_vars, Undisturbed'
  PROVE  Undisturbed
<1> USE DEF Undisturbed, TypeOK
<1>1. ASSUME NEW t \in Tasks, Negotiate(t) \/ Send(t)
      PROVE  Undisturbed
  <2>1. PICK caps \in BOOLEAN : Write(t, caps)
    BY <1>1 DEF Negotiate, Send
  <2>2. UNCHANGED <<events, late>> /\ cmd' = [cmd EXCEPT ![t] = sent + 1]
    BY <2>1 DEF Write
  <2>3. QED
    BY <2>2
<1>2. ASSUME NEW t \in Tasks,
             \/ Open(t) \/ NegotiateFails(t) \/ Wait(t) \/ TakeGreeting(t)
             \/ ReadFails(t) \/ TakeReply(t) \/ Disconnect(t) \/ Disconnected(t)
      PROVE  Undisturbed
  BY <1>2 DEF Open, NegotiateFails, Wait, TakeGreeting, ReadFails, TakeReply,
     Disconnect, Disconnected, qemu
<1>3. ASSUME NEW t \in Tasks, Timeout(t)
      PROVE  FALSE
  BY <1>3 DEF Timeout
<1>4. CASE Greet \/ Answer \/ QemuExits
  BY <1>4 DEF Greet, Answer, QemuExits, Arrive
<1>5. CASE EmitEvent
  BY <1>5, BoundsAssumption DEF EmitEvent
<1>6. CASE UNCHANGED vars
  BY <1>6 DEF vars, tasks, qemu
<1>7. QED
  BY <1>1, <1>2, <1>3, <1>4, <1>5, <1>6 DEF Next, Read

\* While nothing disturbs the connection, every step leaves at most the line
\* that its only reader reads for.
LEMMA QuietStep ==
  ASSUME IInv, [Next]_vars
  PROVE  IInv'
<1> DEFINE t == Connector
<1>1. TypeOK' /\ Silent'
  BY TypeStep, SilentStep DEF IInv
<1>2. SUFFICES ASSUME Undisturbed'
               PROVE  OneLine(t)' /\ ReplyMatches'
  BY <1>1 DEF IInv
<1> Undisturbed /\ TypeOK /\ Silent /\ OneLine(t) /\ ReplyMatches
  BY <1>2, UndisturbedBefore DEF IInv
<1>3. /\ pc \in [Tasks -> {"idle", "negotiate", "reading", "waiting", "closing"}]
      /\ want \in [Tasks -> {"greeting", "caps", "command"}]
      /\ cmd \in [Tasks -> 0..MaxCmd] /\ waiter \in {t, NoTask} /\ t # NoTask
      /\ answer \in [Tasks -> [cmd : 0..MaxCmd, line : Line \cup {Reply(0, TRUE)}]]
      /\ t \in Tasks
  BY TasksAssumption DEF TypeOK, OneLine
<1>4. CASE Open(t)
  BY <1>3, <1>4 DEF Open, Goto, OneLine, Owed, Busy, Quiet, ReplyMatches, qemu
<1>5. CASE Negotiate(t) \/ Send(t)
  <2>1. PICK caps \in BOOLEAN :
          /\ Write(t, caps)
          /\ pc[t] = IF caps THEN "negotiate" ELSE "idle"
    BY <1>5 DEF Negotiate, Send
  <2>2. stream = <<>> /\ toQemu = <<>> /\ connected
    BY <2>1 DEF Write, OneLine, Busy, Quiet, TypeOK
  <2>3. /\ cmd'[t] = sent + 1 /\ pc'[t] = "reading"
        /\ want'[t] = IF caps THEN "caps" ELSE "command"
        /\ UNCHANGED <<connected, sock, greeted, ready, stream, waiter, answer>>
    BY <1>3, <2>1 DEF Write, Goto
  <2>4. ReplyMatches'
    BY <2>3 DEF ReplyMatches
  <2>5. CASE sock = "open"
    <3>1. toQemu' = <<[id |-> sent + 1, caps |-> caps]>>
      BY <2>1, <2>2, <2>5 DEF Write
    <3>2. greeted /\ (~caps => ready)
      BY <2>1, <2>5 DEF OneLine, Busy, Quiet
    <3>3. Owed(t)'
      BY <2>2, <2>3, <3>1, <3>2 DEF Owed
    <3>4. QED
      BY <1>3, <2>1, <2>2, <2>3, <2>4, <2>5, <3>2, <3>3 DEF OneLine, Busy
  <2>6. CASE sock = "eof"
    <3>1. toQemu' = <<>>
      BY <2>1, <2>2, <2>6 DEF Write
    <3>2. QED
      BY <1>3, <2>1, <2>2, <2>3, <2>4, <2>6, <3>1 DEF OneLine, Busy
  <2>7. QED
    BY <2>2, <2>5, <2>6 DEF OneLine, TypeOK
<1>6. CASE NegotiateFails(t)
  BY <1>3, <1>6 DEF NegotiateFails, Goto, OneLine, Busy, ReplyMatches, qemu
<1>7. CASE TakeGreeting(t)
  <2>1. /\ stream = <<Greeting>> /\ greeted /\ toQemu = <<>> /\ sock # "none"
    BY <1>7 DEF TakeGreeting, OneLine, Busy, Owed, TypeOK
  <2>2. stream' = <<>> /\ pc'[t] = "negotiate"
    BY <1>3, <1>7, <2>1 DEF TakeGreeting, Goto
  <2>3. QED
    BY <1>3, <1>7, <2>1, <2>2
    DEF TakeGreeting, OneLine, Busy, Quiet, ReplyMatches, qemu
<1>8. CASE TakeReply(t)
  <2>1. /\ toQemu = <<>> /\ ready /\ greeted /\ sock # "none"
        /\ \E ok \in BOOLEAN : stream = <<Reply(cmd[t], ok)>>
    BY <1>8 DEF TakeReply, OneLine, Busy, Owed, TypeOK
  <2>2. PICK ok \in BOOLEAN : stream = <<Reply(cmd[t], ok)>>
    BY <2>1
  <2>3. stream' = <<>> /\ pc'[t] = "idle"
    BY <1>3, <1>8, <2>2 DEF TakeReply, Goto
  <2>4. answer'[t] = [cmd |-> cmd[t], line |-> Reply(cmd[t], ok)]
    BY <1>3, <1>8, <2>2 DEF TakeReply
  <2>5. ReplyMatches'
    BY <1>3, <1>8, <2>2, <2>4 DEF TakeReply, ReplyMatches, Reply
  <2>6. QED
    BY <1>3, <1>8, <2>1, <2>3, <2>5
    DEF TakeReply, OneLine, Busy, Quiet, qemu
<1>9. CASE Wait(t)
  BY <1>3, <1>9 DEF Wait, Goto, OneLine, Busy, Owed, ReplyMatches, qemu
<1>10. CASE ReadFails(t)
  <2>1. sock = "eof" /\ stream = <<>>
    BY <1>3, <1>10 DEF ReadFails, OneLine
  <2>2. QED
    BY <1>3, <1>10, <2>1 DEF ReadFails, Goto, OneLine, Busy, ReplyMatches, qemu
<1>11. ~EmitEvent /\ \A u \in Tasks : ~Timeout(u)
  BY <1>2, BoundsAssumption DEF Timeout, EmitEvent, Undisturbed, TypeOK
<1>12. CASE Disconnect(t)
  <2>1. stream = <<>>
    BY <1>12 DEF Disconnect, OneLine, Busy, Quiet, TypeOK
  <2>2. pc'[t] = "closing" /\ waiter' = NoTask
    BY <1>3, <1>12 DEF Disconnect, Wake, OneLine
  <2>3. QED
    BY <1>3, <1>12, <2>1, <2>2 DEF Disconnect, OneLine, Busy, ReplyMatches
<1>13. CASE Disconnected(t)
  BY <1>3, <1>13 DEF Disconnected, Goto, OneLine, Busy, Quiet, ReplyMatches, qemu
<1>14. ASSUME NEW line, Arrive(line)
       PROVE  /\ sock = "open"
              /\ pc'[t] = IF pc[t] = "waiting" THEN "reading" ELSE pc[t]
              /\ waiter' = NoTask
              /\ stream' = Append(stream, line)
              /\ UNCHANGED <<connected, sock, want, cmd, answer>>
  BY <1>3, <1>14 DEF Arrive, Wake, OneLine
<1>15. CASE Greet
  <2>1. /\ Busy(t) /\ want[t] = "greeting" /\ stream = <<>> /\ toQemu = <<>>
    BY <1>14, <1>15 DEF Greet, OneLine, Owed, Quiet
  <2>2. stream' = <<Greeting>>
    BY <1>14, <1>15, <2>1 DEF Greet
  <2>3. Owed(t)' /\ Busy(t)'
    BY <1>14, <1>15, <2>1, <2>2 DEF Greet, Busy, Owed
  <2>4. /\ sock = "open" /\ waiter' = NoTask /\ pc'[t] = "reading"
        /\ UNCHANGED <<connected, sock, want, answer>>
    BY <1>14, <1>15, <2>1 DEF Greet, Busy
  <2>5. OneLine(t)'
    BY <1>3, <2>1, <2>3, <2>4 DEF OneLine
  <2>6. QED
    BY <2>4, <2>5 DEF ReplyMatches
<1>16. CASE Answer
  <2>1. PICK ok \in BOOLEAN : Arrive(Reply(Head(toQemu).id, ok))
    BY <1>16 DEF Answer
  <2>2. sock = "open" /\ toQemu # <<>> /\ greeted
    BY <1>14, <1>16, <2>1 DEF Answer
  <2>3. /\ Busy(t) /\ want[t] # "greeting" /\ stream = <<>>
        /\ toQemu = <<[id |-> cmd[t], caps |-> want[t] = "caps"]>>
    BY <2>2 DEF OneLine, Owed, Quiet
  <2>4. toQemu' = <<>> /\ stream' = <<Reply(cmd[t], ok)>> /\ greeted'
    BY <1>14, <1>16, <2>1, <2>2, <2>3 DEF Answer
  <2>5. want[t] = "command" => ready
    BY <2>2, <2>3 DEF OneLine
  <2>6. ready'
    <3>1. CASE ready
      BY <1>16, <3>1 DEF Answer
    <3>2. CASE want[t] = "caps"
      <4>1. (want[t] = "caps") = TRUE
        BY <3>2
      <4>2. toQemu = <<[id |-> cmd[t], caps |-> TRUE]>>
        BY <2>3, <4>1, Zenon
      <4>3. Head(toQemu).caps = TRUE
        BY <4>2
      <4>4. QED
        BY <1>16, <4>3 DEF Answer
    <3>3. QED
      BY <1>3, <2>3, <2>5, <3>1, <3>2
  <2>7. /\ waiter' = NoTask /\ pc'[t] = "reading"
        /\ UNCHANGED <<connected, sock, want, cmd, answer>>
    BY <1>14, <2>1, <2>3 DEF Busy
  <2>8. Owed(t)' /\ Busy(t)'
    BY <2>3, <2>4, <2>6, <2>7 DEF Owed, Busy
  <2>9. OneLine(t)'
    BY <1>3, <2>2, <2>6, <2>7, <2>8 DEF OneLine
  <2>10. QED
    BY <2>7, <2>9 DEF ReplyMatches
<1>17. CASE QemuExits
  <2>1. /\ pc'[t] = IF pc[t] = "waiting" THEN "reading" ELSE pc[t]
        /\ waiter' = NoTask
    BY <1>3, <1>17 DEF QemuExits, Wake, OneLine
  <2>2. stream # <<>> => Busy(t) /\ Owed(t) /\ toQemu = <<>>
    BY <1>17 DEF QemuExits, OneLine, Owed, Quiet
  <2>3. /\ sock' = "eof" /\ toQemu' = <<>>
        /\ UNCHANGED <<connected, stream, greeted, ready, want, cmd, answer>>
    BY <1>17 DEF QemuExits
  <2>4. stream' # <<>> => Busy(t)' /\ Owed(t)'
    BY <2>1, <2>2, <2>3 DEF Busy, Owed
  <2>5. OneLine(t)'
    BY <1>3, <2>1, <2>3, <2>4 DEF OneLine
  <2>6. QED
    BY <2>3, <2>5 DEF ReplyMatches
<1>18. CASE UNCHANGED vars
  BY <1>18 DEF vars, tasks, qemu, OneLine, Busy, Owed, Quiet, ReplyMatches
<1>19. ASSUME NEW u \in Tasks \ {t},
              \/ Open(u) \/ Negotiate(u) \/ NegotiateFails(u) \/ Send(u)
              \/ Read(u) \/ Timeout(u) \/ Disconnect(u) \/ Disconnected(u)
       PROVE  OneLine(t)' /\ ReplyMatches'
  <2>1. cmd[u] = 0 /\ cmd'[u] = 0 /\ pc[u] \in {"idle", "closing"}
    BY <1>2 DEF Undisturbed, Silent
  <2>2. ~Send(u) /\ ~Negotiate(u)
    BY <1>3, <2>1, BoundsAssumption DEF Send, Negotiate, Write, TypeOK
  <2>3. ~Open(u) /\ ~NegotiateFails(u) /\ ~Read(u) /\ ~Timeout(u)
    BY <2>1 DEF Open, NegotiateFails, Read, TakeGreeting, TakeReply, Wait,
       ReadFails, Timeout
  <2>4. CASE Disconnect(u)
    <3>1. /\ pc'[t] = IF pc[t] = "waiting" THEN "reading" ELSE pc[t]
          /\ waiter' = NoTask
      BY <1>3, <2>4 DEF Disconnect, Wake, OneLine
    <3>2. stream # <<>> => Busy(t) /\ Owed(t) /\ toQemu = <<>>
      BY <2>4 DEF Disconnect, OneLine, Owed, Quiet, TypeOK
    <3>3. /\ sock' = "eof" /\ toQemu' = <<>>
          /\ UNCHANGED <<connected, stream, greeted, ready, want, cmd, answer>>
      BY <2>4 DEF Disconnect
    <3>4. stream' # <<>> => Busy(t)' /\ Owed(t)'
      BY <3>1, <3>2, <3>3 DEF Busy, Owed
    <3>5. OneLine(t)'
      BY <1>3, <3>1, <3>3, <3>4 DEF OneLine
    <3>6. QED
      BY <3>3, <3>5 DEF ReplyMatches
  <2>5. CASE Disconnected(u)
    <3>1. sock = "eof"
      BY <2>1, <2>5 DEF Silent, Disconnected
    <3>2. QED
      BY <1>3, <2>5, <3>1 DEF Disconnected, Goto, OneLine, Busy, Owed, ReplyMatches, qemu
  <2>6. QED
    BY <1>19, <2>2, <2>3, <2>4, <2>5
<1>20. QED
  BY <1>4, <1>5, <1>6, <1>7, <1>8, <1>9, <1>10, <1>11, <1>12, <1>13, <1>15,
     <1>16, <1>17, <1>18, <1>19 DEF Next, Read

LEMMA QuietInit == Init => IInv
<1>1. Init => TypeOK /\ Silent
  BY TypeInit, TasksAssumption DEF Init, Silent
<1>2. Init => OneLine(Connector) /\ ReplyMatches
  BY TasksAssumption DEF Init, OneLine, Busy, ReplyMatches, NoAnswer, Reply
<1>3. QED
  BY <1>1, <1>2 DEF IInv

\* send() returns the response to its own command until a read times out, an
\* event comes or a second task sends.
THEOREM RepliesMatch == Spec => []OrderlyReplies
<1>1. IInv /\ [Next]_vars => IInv'
  BY QuietStep
<1>2. IInv => OrderlyReplies
  BY DEF IInv, OrderlyReplies
<1>3. QED
  BY QuietInit, <1>1, <1>2, PTL DEF Spec

\* As long, no command overtakes the handshake.
THEOREM HandshakeFirst == Spec => []OrderlyHandshake
<1>1. IInv /\ [Next]_vars => IInv'
  BY QuietStep
<1>2. IInv => OrderlyHandshake
  <2>1. SUFFICES ASSUME IInv, Undisturbed, NEW i \in DOMAIN toQemu,
                        ~toQemu[i].caps
                 PROVE  ready
    BY DEF OrderlyHandshake
  <2> DEFINE t == Connector
  <2>2. /\ toQemu = <<[id |-> cmd[t], caps |-> want[t] = "caps"]>>
        /\ want[t] = "command" => ready
        /\ want[t] # "greeting"
    BY <2>1 DEF IInv, OneLine, Owed, Quiet, TypeOK
  <2>3. i = 1
    BY <2>1, <2>2
  <2>4. toQemu[i].caps <=> want[t] = "caps"
    BY <2>2, <2>3
  <2>5. want[t] \in {"greeting", "caps", "command"}
    BY <2>1, TasksAssumption DEF IInv, TypeOK
  <2>6. QED
    BY <2>1, <2>2, <2>4, <2>5, Zenon
<1>3. QED
  BY QuietInit, <1>1, <1>2, PTL DEF Spec

-----------------------------------------------------------------------------
\* The StreamReader's waiter does wait.
WaiterWaits == waiter # NoTask => waiter \in Tasks /\ pc[waiter] = "waiting"

LEMMA WaiterStep ==
  ASSUME TypeOK, ReaderWakes, WaiterWaits, [Next]_vars
  PROVE  WaiterWaits'
<1> USE TasksAssumption DEF TypeOK, ReaderWakes, WaiterWaits, Goto, qemu
<1>1. ASSUME NEW t \in Tasks, Open(t) \/ NegotiateFails(t) \/ Disconnected(t)
      PROVE  WaiterWaits'
  BY <1>1 DEF Open, NegotiateFails, Disconnected
<1>2. ASSUME NEW t \in Tasks, Negotiate(t) \/ Send(t)
      PROVE  WaiterWaits'
  BY <1>2 DEF Negotiate, Send, Write
<1>3. ASSUME NEW t \in Tasks, TakeGreeting(t) \/ TakeReply(t) \/ ReadFails(t)
      PROVE  WaiterWaits'
  BY <1>3 DEF TakeGreeting, TakeReply, ReadFails
<1>4. ASSUME NEW t \in Tasks, Wait(t)
      PROVE  WaiterWaits'
  BY <1>4 DEF Wait
<1>5. ASSUME NEW t \in Tasks, Timeout(t) \/ Disconnect(t)
      PROVE  WaiterWaits'
  BY <1>5 DEF Timeout, Disconnect, Wake
<1>6. CASE Greet \/ Answer \/ EmitEvent \/ QemuExits
  BY <1>6 DEF Greet, Answer, EmitEvent, QemuExits, Arrive, Wake
<1>7. CASE UNCHANGED vars
  BY <1>7 DEF vars, tasks
<1>8. QED
  BY <1>1, <1>2, <1>3, <1>4, <1>5, <1>6, <1>7 DEF Next, Read

\* How many tasks read, when one begins or ends to.
LEMMA ReadersCount ==
  /\ IsFiniteSet(Reading) /\ Cardinality(Reading) \in Nat
  /\ \A t \in Tasks : /\ t \notin Reading
                         => Cardinality(Reading \cup {t}) = Cardinality(Reading) + 1
                      /\ t \in Reading
                         => Cardinality(Reading \ {t}) = Cardinality(Reading) - 1
<1>1. IsFiniteSet(Reading)
  BY TasksAssumption, FS_Subset DEF Reading
<1>2. QED
  BY <1>1, FS_CardinalityType, FS_AddElement, FS_RemoveElement

\* What comes in wakes a task that reads already.
LEMMA WakeReads ==
  ASSUME TypeOK, WaiterWaits, Wake(pc)
  PROVE  Reading' = Reading
<1>1. CASE waiter = NoTask
  BY <1>1 DEF Wake, Reading
<1>2. CASE waiter # NoTask
  <2>1. waiter \in Tasks /\ pc[waiter] = "waiting" /\ pc' = [pc EXCEPT ![waiter] = "reading"]
    BY <1>2 DEF Wake, WaiterWaits
  <2>2. QED
    BY <2>1 DEF TypeOK, Reading
<1>3. QED
  BY <1>1, <1>2

LEMMA SurplusGrows ==
  ASSUME TypeOK, ReaderWakes, WaiterWaits, [Next]_vars, sock = "open", sock' = "open"
  PROVE  Surplus' >= Surplus
<1> DEFINE in == Len(stream)
           out == Len(toQemu)
           readers == Cardinality(Reading)
           owed == IF greeted THEN 0 ELSE 1
<1>0. in \in Nat /\ out \in Nat /\ readers \in Nat /\ owed \in Nat
  BY ReadersCount DEF TypeOK
<1>1. /\ Surplus = in + out + owed - readers
      /\ Surplus' = in' + out' + owed' - readers'
  BY DEF Surplus
<1>2. ASSUME NEW t \in Tasks, pc[t] \notin {"reading", "waiting"}, pc' = [pc EXCEPT ![t] = "reading"]
      PROVE  readers' = readers + 1
  <2>1. Reading' = Reading \cup {t} /\ t \notin Reading
    BY <1>2 DEF TypeOK, Reading
  <2>2. QED
    BY <2>1, ReadersCount
<1>3. ASSUME NEW t \in Tasks, pc[t] \in {"reading", "waiting"},
             NEW l \in {"idle", "negotiate"}, pc' = [pc EXCEPT ![t] = l]
      PROVE  readers' = readers - 1
  <2>1. Reading' = Reading \ {t} /\ t \in Reading
    BY <1>3 DEF TypeOK, Reading
  <2>2. QED
    BY <2>1, ReadersCount
<1>4. stream # <<>> => Len(Tail(stream)) = in - 1
  BY DEF TypeOK
<1>5. toQemu # <<>> => Len(Tail(toQemu)) = out - 1
  BY DEF TypeOK
<1>6. \A x : Len(Append(stream, x)) = in + 1 /\ Len(Append(toQemu, x)) = out + 1
  BY DEF TypeOK
<1>7. ASSUME NEW t \in Tasks, Negotiate(t) \/ Send(t)
      PROVE  Surplus' >= Surplus
  <2>1. /\ pc[t] \in {"negotiate", "idle"} /\ pc' = [pc EXCEPT ![t] = "reading"]
        /\ \E x : toQemu' = Append(toQemu, x)
        /\ UNCHANGED <<stream, greeted>>
    BY <1>7 DEF Negotiate, Send, Write, Goto
  <2>2. readers' = readers + 1
    BY <1>2, <2>1
  <2>3. in' = in /\ owed' = owed
    BY <2>1
  <2>4. out' = out + 1
    BY <1>6, <2>1
  <2> HIDE DEF in, out, readers, owed
  <2>5. QED
    BY <1>0, <1>1, <2>2, <2>3, <2>4
<1>8. ASSUME NEW t \in Tasks, TakeGreeting(t) \/ TakeReply(t)
      PROVE  Surplus' >= Surplus
  <2>1. /\ pc[t] = "reading" /\ stream # <<>> /\ stream' = Tail(stream)
        /\ \E l \in {"idle", "negotiate"} : pc' = [pc EXCEPT ![t] = l]
        /\ UNCHANGED <<toQemu, greeted>>
    BY <1>8 DEF TakeGreeting, TakeReply, Goto, qemu
  <2>2. readers' = readers - 1
    BY <1>3, <2>1
  <2>3. out' = out /\ owed' = owed
    BY <2>1
  <2>4. in' = in - 1
    BY <1>4, <2>1
  <2> HIDE DEF in, out, readers, owed
  <2>5. QED
    BY <1>0, <1>1, <2>2, <2>3, <2>4
<1>9. ASSUME NEW t \in Tasks, ReadFails(t) \/ Timeout(t)
      PROVE  Surplus' >= Surplus
  <2>1. /\ pc[t] \in {"reading", "waiting"} /\ pc' = [pc EXCEPT ![t] = "idle"]
        /\ UNCHANGED <<stream, toQemu, greeted>>
    BY <1>9 DEF ReadFails, Timeout, Goto, qemu
  <2>2. readers' = readers - 1
    BY <1>3, <2>1
  <2>3. in' = in /\ out' = out /\ owed' = owed
    BY <2>1
  <2> HIDE DEF in, out, readers, owed
  <2>4. QED
    BY <1>0, <1>1, <2>2, <2>3
<1>10. ASSUME Reading' = Reading, UNCHANGED <<stream, toQemu, greeted>>
       PROVE  Surplus' >= Surplus
  BY <1>0, <1>1, <1>10
<1>11. ASSUME NEW t \in Tasks, Wait(t) \/ NegotiateFails(t) \/ Disconnected(t)
       PROVE  Surplus' >= Surplus
  <2>1. UNCHANGED <<stream, toQemu, greeted>>
    BY <1>11 DEF Wait, NegotiateFails, Disconnected, qemu
  <2>2. Reading' = Reading
    BY <1>11 DEF Wait, NegotiateFails, Disconnected, Goto, Reading, TypeOK
  <2>3. QED
    BY <1>10, <2>1, <2>2
<1>12. ASSUME NEW t \in Tasks, Open(t) \/ Disconnect(t)
       PROVE  FALSE
  BY <1>12 DEF Open, Disconnect
<1>13. ASSUME Greet \/ Answer \/ EmitEvent
       PROVE  Surplus' >= Surplus
  <2>1. (\E x : stream' = Append(stream, x)) /\ Wake(pc)
    BY <1>13 DEF Greet, Answer, EmitEvent, Arrive
  <2>2. in' = in + 1
    BY <1>6, <2>1
  <2>3. readers' = readers
    BY <2>1, WakeReads
  <2>4. \/ ~greeted /\ greeted' /\ toQemu' = toQemu
        \/ greeted' = greeted /\ toQemu # <<>> /\ toQemu' = Tail(toQemu)
        \/ greeted' = greeted /\ toQemu' = toQemu
    BY <1>13 DEF Greet, Answer, EmitEvent
  <2>5. \/ owed = 1 /\ owed' = 0 /\ out' = out
        \/ owed' = owed /\ out' = out - 1
        \/ owed' = owed /\ out' = out
    BY <1>5, <2>4
  <2> HIDE DEF in, out, readers, owed
  <2>6. QED
    BY <1>0, <1>1, <2>2, <2>3, <2>5
<1>14. CASE QemuExits
  BY <1>14 DEF QemuExits
<1>15. CASE UNCHANGED vars
  BY <1>10, <1>15 DEF vars, qemu, tasks, Reading
<1>16. QED
  BY <1>7, <1>8, <1>9, <1>11, <1>12, <1>13, <1>14, <1>15 DEF Next, Read

\* A connection that has a line too many never loses it, whatever tasks send,
\* time out, read each other's replies or disconnect (qmp_client.py:118-139), for
\* any number of tasks, commands and events.
THEOREM SurplusStays == Spec => NeverResyncs
<1>1. Init => WaiterWaits
  BY DEF Init, WaiterWaits
<1>2. TypeOK /\ ReaderWakes /\ WaiterWaits /\ [Next]_vars
      => WaiterWaits' /\ [sock = "open" /\ sock' = "open" => Surplus' >= Surplus]_vars
  BY WaiterStep, SurplusGrows
<1>3. QED
  BY <1>1, <1>2, ChannelType, WakeupsKept, PTL DEF Spec, NeverResyncs
=============================================================================
