---------------------------- MODULE KubeWatcher ----------------------------
(***************************************************************************)
(* container/kubernetes/watcher.py: watches that run as tasks of one event *)
(* loop, in a table by watch id.                                           *)
(*                                                                         *)
(* The executor only makes the generator of events.  The loop over its     *)
(* events, and the wait for the next one, then run in the event loop's own *)
(* thread: while a stream is open nothing else runs, and the client        *)
(* library reopens it for as long as it can.  A watch of a resource type   *)
(* the watcher does not know raises before its clean-up is in force, and   *)
(* so does a task cancelled before its first step.                         *)
(***************************************************************************)
EXTENDS Naturals, Sequences, SequencesExt

CONSTANTS
  WatchIds,   \* names of watches
  Callers,    \* coroutines that start and stop watches
  NoTaskYet,  \* the table has no entry
  MaxWatches  \* bound: tasks ever made

ASSUME KubeBounds == WatchIds # {} /\ MaxWatches \in Nat /\ NoTaskYet \notin Nat

VARIABLES
  entry,     \* self._active_watches
  watch,     \* the tasks
  launched,  \* number of tasks made
  asked,     \* where each caller is, the task it awaits, the ids stop_all() has left
  robbed     \* tasks whose entry another task's clean-up has removed

kubeVars == <<entry, watch, launched, asked, robbed>>

Watches == 1..MaxWatches
Kinds   == {"streamed", "refused", "unknown"}
Phases  == {"none", "new", "opening", "streaming", "ended", "raised"}

Watch0    == [id |-> CHOOSE i \in WatchIds : TRUE, kind |-> "streamed",
              phase |-> "none", cancelled |-> FALSE]
Idle0     == [pc |-> "idle", task |-> NoTaskYet, left |-> <<>>]
Alive(t)  == watch[t].phase \in {"new", "opening", "streaming"}

\* A stream is open: the event loop is stuck in it.
Stuck == \E t \in Watches : watch[t].phase = "streaming"

KubeTypeOK ==
  /\ entry \in [WatchIds -> Watches \cup {NoTaskYet}]
  /\ watch \in [Watches -> [id : WatchIds, kind : Kinds, phase : Phases,
                            cancelled : BOOLEAN]]
  /\ launched \in 0..MaxWatches
  /\ asked \in [Callers -> [pc : {"idle", "stopping", "stopping all"},
                            task : Watches \cup {NoTaskYet}, left : Seq(WatchIds)]]
  /\ robbed \subseteq Watches

KubeInit ==
  /\ entry = [i \in WatchIds |-> NoTaskYet]
  /\ watch = [t \in Watches |-> Watch0]
  /\ launched = 0
  /\ asked = [c \in Callers |-> Idle0]
  /\ robbed = {}

\* Fault: an id that is in the table is not refused.
StartWatchAgain(c, i, k) ==
  /\ ~Stuck
  /\ asked[c] = Idle0
  /\ launched < MaxWatches
  /\ launched' = launched + 1
  /\ watch' = [watch EXCEPT ![launched + 1] =
                 [id |-> i, kind |-> k, phase |-> "new", cancelled |-> FALSE]]
  /\ entry' = [entry EXCEPT ![i] = launched + 1]
  /\ UNCHANGED <<asked, robbed>>

\* start_watch(), which refuses an id that is in the table.
StartWatch(c, i, k) ==
  /\ ~Stuck
  /\ asked[c] = Idle0
  /\ entry[i] = NoTaskYet
  /\ launched < MaxWatches
  /\ launched' = launched + 1
  /\ watch' = [watch EXCEPT ![launched + 1] =
                 [id |-> i, kind |-> k, phase |-> "new", cancelled |-> FALSE]]
  /\ entry' = [entry EXCEPT ![i] = launched + 1]
  /\ UNCHANGED <<asked, robbed>>

\* stop_watch() up to its await: the entry goes and the task is cancelled.
Cancel(c, i, p, left) ==
  /\ asked' = [asked EXCEPT ![c] = [pc |-> p, task |-> entry[i], left |-> left]]
  /\ entry' = [entry EXCEPT ![i] = NoTaskYet]
  /\ watch' = [watch EXCEPT ![entry[i]].cancelled = TRUE]

StopWatch(c, i) ==
  /\ ~Stuck
  /\ asked[c] = Idle0
  /\ entry[i] # NoTaskYet
  /\ Cancel(c, i, "stopping", <<>>)
  /\ UNCHANGED <<launched, robbed>>

\* stop_all() passes over the ids that are gone when it comes to them.
StopNext(c, wids) ==
  LET k == SelectInSeq(wids, LAMBDA i : entry[i] # NoTaskYet) IN
  IF k = 0
  THEN asked' = [asked EXCEPT ![c] = Idle0] /\ UNCHANGED <<entry, watch>>
  ELSE Cancel(c, wids[k], "stopping all", SubSeq(wids, k + 1, Len(wids)))

StopAll(c) ==
  /\ ~Stuck
  /\ asked[c] = Idle0
  /\ \E wids \in SetToSeqs({i \in WatchIds : entry[i] # NoTaskYet}) :
       wids # <<>> /\ StopNext(c, wids)
  /\ UNCHANGED <<launched, robbed>>

\* Fault: a task that raised is waited for all the same.
StoppedIfEnded(c) ==
  /\ ~Stuck
  /\ asked[c].pc # "idle"
  /\ watch[asked[c].task].phase = "ended"
  /\ StopNext(c, asked[c].left)
  /\ UNCHANGED <<launched, robbed>>

\* The awaited task is over.  What it raised is raised again, and ends
\* stop_all().
Stopped(c) ==
  LET a == asked[c] IN
  /\ ~Stuck
  /\ a.pc # "idle"
  /\ \/ watch[a.task].phase = "ended" /\ StopNext(c, a.left)
     \/ /\ watch[a.task].phase = "raised"
        /\ asked' = [asked EXCEPT ![c] = Idle0]
        /\ UNCHANGED <<entry, watch>>
  /\ UNCHANGED <<launched, robbed>>

\* The clean-up of _run_watch() removes the entry of its id, whosever it is.
CleanUpWatch(t) ==
  LET i == watch[t].id IN
  /\ watch' = [watch EXCEPT ![t].phase = "ended"]
  /\ robbed' = robbed \cup ({entry[i]} \ {t, NoTaskYet})
  /\ entry' = [entry EXCEPT ![i] = NoTaskYet]
  /\ UNCHANGED <<launched, asked>>

Phase(t, p) == /\ watch' = [watch EXCEPT ![t].phase = p]
               /\ UNCHANGED <<entry, launched, asked, robbed>>

\* The first step of a task.  watch_namespaces() takes no namespace: the call
\* is refused inside the try.
BeginWatch(t) ==
  /\ ~Stuck
  /\ watch[t].phase = "new"
  /\ ~watch[t].cancelled
  /\ \/ watch[t].kind = "unknown"  /\ Phase(t, "raised")
     \/ watch[t].kind = "refused"  /\ CleanUpWatch(t)
     \/ watch[t].kind = "streamed" /\ Phase(t, "opening")

NeverBegins(t) ==
  /\ ~Stuck
  /\ watch[t].phase = "new"
  /\ watch[t].cancelled
  /\ Phase(t, "ended")

\* The executor has made the generator.
OpenStream(t) ==
  /\ ~Stuck
  /\ watch[t].phase = "opening"
  /\ ~watch[t].cancelled
  /\ Phase(t, "streaming")

CancelArrives(t) ==
  /\ ~Stuck
  /\ watch[t].phase = "opening"
  /\ watch[t].cancelled
  /\ CleanUpWatch(t)

\* The stream raises or, if the server lets it, ends.
StreamEnds(t) ==
  /\ watch[t].phase = "streaming"
  /\ CleanUpWatch(t)

LoopStep ==
  \/ \E t \in Watches : \/ BeginWatch(t) \/ NeverBegins(t)
                        \/ OpenStream(t) \/ CancelArrives(t)
  \/ \E c \in Callers : Stopped(c)

KubeNext ==
  \/ \E c \in Callers, i \in WatchIds :
       StopWatch(c, i) \/ \E k \in Kinds : StartWatch(c, i, k)
  \/ \E c \in Callers : StopAll(c)
  \/ LoopStep
  \/ \E t \in Watches : StreamEnds(t)

KubeSpec == KubeInit /\ [][KubeNext]_kubeVars

\* The event loop runs what is ready, in order; nothing says that a stream
\* ends.
KubeFairness == /\ \A t \in Watches : WF_kubeVars(\/ BeginWatch(t) \/ NeverBegins(t)
                                                  \/ OpenStream(t) \/ CancelArrives(t))
                /\ \A c \in Callers : WF_kubeVars(Stopped(c))

KubeFairSpec == KubeSpec /\ KubeFairness

(***************************************************************************)
(* Properties.                                                             *)
(***************************************************************************)

\* A watch that runs can be stopped: it is in the table under its id, or a
\* stop_watch() is already waiting for its end.  The one exception is a watch
\* started under the id of one that is being stopped, whose clean-up then
\* removes the entry of its successor (line 448).
WatchListed == \A t \in Watches : Alive(t) => \/ entry[watch[t].id] = t
                                              \/ watch[t].cancelled
                                              \/ t \in robbed

\* stop_watch() and stop_all() end, whatever they meet, unless a stream is
\* open in the meantime and never ends (lines 404, 411).
StopReturns == \A c \in Callers : asked[c] # Idle0 ~> asked[c] = Idle0 \/ Stuck
=============================================================================
