----------------------------- MODULE UpkeepProofs -----------------------------
(***************************************************************************)
(* What the desktop program keeps in order, for any number of processes,   *)
(* restarts, schedules, snapshots and samples: the guardian's processes,   *)
(* the snapshots of each schedule, the samples of a metric.  The module    *)
(* ends with what all the theorems say of the program in which the         *)
(* components run side by side.                                            *)
(***************************************************************************)
EXTENDS MCDesktop, AtomicStateProofs, DesktopProofs, FiniteSetTheorems, TLAPS

(***************************************************************************)
(* The guardian.                                                           *)
(***************************************************************************)

\* Who can be where, and the room there is for backups.
PlacesFit ==
  /\ thread["monitor"] \in {"test", "poll", "crash", "spare", "over"}
  /\ thread["stop"] \in {"idle", "kill", "wait", "backups", "join", "done"}
  /\ thread["restart"] \in {"idle", "kill", "wait", "start", "done"}
  /\ \A t \in Callers : thread[t] = "wait" => victim[t] \in Procs
  /\ Len(backups) <= Backups
  /\ thread["monitor"] = "spare" => Len(backups) < Backups
  /\ turn <= Backups + 1

\* What stop() has still to kill.
InReach(p) == \/ p = primary /\ ~Late
              \/ \E i \in DOMAIN backups : p = backups[i] /\ Ahead(i)

\* Every process that runs is in stop()'s reach, or slipped.
ReachInv == /\ \A p \in alive \ slipped : InReach(p)
            /\ ~Late => turn = 1

GuardInv == GuardianTypeOK /\ PlacesFit /\ ReachInv

\* A list of processes stays one when its head is taken or one is appended.
LEMMA ListLemma ==
  ASSUME NEW q \in Seq(Procs), NEW p \in Procs
  PROVE  /\ Append(q, p) \in Seq(Procs) /\ Len(Append(q, p)) = Len(q) + 1
         /\ Len(q) \in Nat
         /\ q # <<>> => /\ Head(q) \in Procs /\ Tail(q) \in Seq(Procs)
                        /\ Len(Tail(q)) = Len(q) - 1 /\ Len(q) > 0
OBVIOUS

LEMMA NewIsProcess == ASSUME spawned \in 0..MaxProcs, Popen
                      PROVE  New \in Procs /\ New \in 0..MaxProcs
BY GuardianBounds DEF Popen, New, Procs

\* Every variable of the guardian keeps its type, whoever meets whom.
LEMMA GuardianTypeStep ==
  ASSUME GuardianTypeOK, PlacesFit, [GuardianNext]_guardianVars
  PROVE  GuardianTypeOK' /\ PlacesFit'
<1> USE GuardianBounds DEF GuardianTypeOK, PlacesFit, MovesTo
<1>1. /\ Len(backups) \in Nat /\ NoProc \notin Procs
      /\ Callers = {"stop", "restart"}
  BY ListLemma DEF Procs, Callers
<1> USE <1>1
<1>2. /\ Dropped \subseteq Procs
      /\ \A ps \in SUBSET Procs : Slips(ps) => slipped' \subseteq Procs
  BY DEF Dropped, Slips
<1>3. CASE Test
  BY <1>3 DEF Test
<1>4. CASE Poll
  BY <1>4 DEF Poll
<1>5. CASE GiveUp
  BY <1>5 DEF GiveUp
<1>6. CASE PromoteBackup
  <2>1. /\ backups # <<>> /\ restarts < MaxRestarts /\ restarts' = restarts + 1
        /\ primary' = Head(backups) /\ backups' = Tail(backups)
        /\ thread' = [thread EXCEPT !["monitor"] = "spare"]
        /\ UNCHANGED <<alive, spawned, guarding, victim, turn>>
    BY <1>6 DEF PromoteBackup, Promotes
  <2>2. /\ primary' \in Procs /\ backups' \in Seq(Procs)
        /\ Len(backups') = Len(backups) - 1
        /\ slipped' \subseteq Procs
    <3>1. Skipped \subseteq Procs /\ Head(backups) \in Procs
      BY <2>1, ListLemma DEF Skipped
    <3>2. slipped' \subseteq Procs
      BY <1>2, <1>6, <3>1 DEF PromoteBackup, Promotes
    <3>3. QED
      BY <2>1, <3>2, ListLemma
  <2>3. restarts' \in 0..MaxRestarts
    BY <2>1
  <2>4. QED
    BY <2>1, <2>2, <2>3
<1>7. CASE StartSpare
  <2>1. /\ thread["monitor"] = "spare"
        /\ thread' = [thread EXCEPT !["monitor"] = "test"]
        /\ UNCHANGED <<primary, restarts, guarding, victim, turn>>
    BY <1>7 DEF StartSpare
  <2>2. CASE /\ Popen /\ backups' = Append(backups, New)
             /\ Slips(IF Ahead(Len(backups')) THEN {} ELSE {New})
    <3>1. New \in Procs /\ New \in 0..MaxProcs
      BY <2>2, NewIsProcess
    <3>2. backups' \in Seq(Procs) /\ Len(backups') = Len(backups) + 1
      BY <2>2, <3>1, ListLemma
    <3>3. Len(backups') <= Backups
      BY <2>1, <3>2
    <3>4. slipped' \subseteq Procs
      BY <1>2, <2>2, <3>1
    <3>5. QED
      BY <2>1, <2>2, <3>1, <3>2, <3>3, <3>4 DEF Popen
  <2>3. CASE UNCHANGED <<alive, spawned, backups, slipped>>
    BY <2>1, <2>3
  <2>4. QED
    BY <1>7, <2>2, <2>3 DEF StartSpare
<1>8. CASE RestartPrimary
  <2>1. /\ restarts < MaxRestarts /\ restarts' = restarts + 1
        /\ thread' = [thread EXCEPT !["monitor"] = "test"]
        /\ UNCHANGED <<backups, guarding, victim, turn>>
    BY <1>8 DEF RestartPrimary
  <2>2. restarts' \in 0..MaxRestarts
    BY <2>1
  <2>3. /\ alive' \subseteq Procs /\ spawned' \in 0..MaxProcs
        /\ primary' \in Procs \cup {NoProc} /\ slipped' \subseteq Procs
    <3>1. CASE Popen /\ Installs(New)
      BY <1>2, <3>1, NewIsProcess DEF Popen, Installs
    <3>2. QED
      BY <1>8, <3>1 DEF RestartPrimary
  <2>4. QED
    BY <2>1, <2>2, <2>3
<1>9. CASE WindowPasses
  BY <1>9 DEF WindowPasses
<1>10. CASE BeginStop
  BY <1>10 DEF BeginStop
<1>11. CASE BeginRestart
  BY <1>11 DEF BeginRestart
<1>12. ASSUME NEW t \in Callers, Terminate(t)
       PROVE  GuardianTypeOK' /\ PlacesFit'
  <2>1. /\ thread[t] = "kill"
        /\ UNCHANGED <<alive, spawned, primary, backups, restarts, guarding, turn, slipped>>
    BY <1>12 DEF Terminate
  <2>2. CASE primary = NoProc
    BY <1>12, <2>1, <2>2 DEF Terminate, AfterKill
  <2>3. CASE primary # NoProc
    BY <1>12, <2>1, <2>3 DEF Terminate
  <2>4. QED
    BY <2>2, <2>3
<1>13. ASSUME NEW t \in Callers, Forget(t)
       PROVE  GuardianTypeOK' /\ PlacesFit'
  BY <1>2, <1>13 DEF Forget, AfterKill
<1>14. ASSUME NEW t \in Callers, WaitExpires(t)
       PROVE  GuardianTypeOK' /\ PlacesFit'
  BY <1>2, <1>14 DEF WaitExpires, AfterKill
<1>15. CASE StartAnew
  <2>1. /\ thread' = [thread EXCEPT !["restart"] = "done"]
        /\ UNCHANGED <<backups, restarts, guarding, victim, turn>>
    BY <1>15 DEF StartAnew
  <2>2. /\ alive' \subseteq Procs /\ spawned' \in 0..MaxProcs
        /\ primary' \in Procs \cup {NoProc} /\ slipped' \subseteq Procs
    <3>1. CASE Popen /\ Installs(New)
      BY <1>2, <3>1, NewIsProcess DEF Popen, Installs
    <3>2. QED
      BY <1>15, <3>1 DEF StartAnew
  <2>3. QED
    BY <2>1, <2>2
<1>16. CASE KillBackup
  <2>1. /\ alive' = alive \ {backups[turn]} /\ turn <= Len(backups) /\ turn' = turn + 1
        /\ UNCHANGED <<spawned, primary, backups, restarts, guarding, thread, victim, slipped>>
    BY <1>16 DEF KillBackup
  <2>2. turn' \in 1..(MaxProcs + 1) /\ turn' <= Backups + 1
    BY <2>1
  <2>3. QED
    BY <2>1, <2>2
<1>17. CASE ClearBackups
  <2>1. /\ backups' = <<>>
        /\ thread' = [thread EXCEPT !["stop"] = "join"]
        /\ UNCHANGED <<alive, spawned, primary, restarts, guarding, victim, turn, slipped>>
    BY <1>17 DEF ClearBackups
  <2>2. backups' \in Seq(Procs) /\ Len(backups') = 0
    BY <2>1
  <2>3. QED
    BY <2>1, <2>2
<1>18. CASE Join
  BY <1>18 DEF Join
<1>19. ASSUME NEW p \in Procs, ProcessEnds(p)
       PROVE  GuardianTypeOK' /\ PlacesFit'
  BY <1>19 DEF ProcessEnds
<1>20. CASE UNCHANGED guardianVars
  BY <1>20 DEF guardianVars
<1>21. QED
  BY <1>3, <1>4, <1>5, <1>6, <1>7, <1>8, <1>9, <1>10, <1>11, <1>12, <1>13, <1>14,
     <1>15, <1>16, <1>17, <1>18, <1>19, <1>20
  DEF GuardianNext, Monitor, StopSteps, RestartSteps, Kill

\* Who is in reach stays there until it is killed or ends, when neither the primary,
\* nor the backups, nor stop() has moved.
LEMMA ReachFrame ==
  ASSUME ReachInv, UNCHANGED <<primary, backups, turn, slipped>>,
         alive' \subseteq alive, thread'["stop"] = thread["stop"]
  PROVE  ReachInv'
BY DEF ReachInv, InReach, Late, Ahead

\* A new primary: before stop() has passed it is in reach, and the old one slips
\* if it runs.
LEMMA InstallsKeeps ==
  ASSUME ReachInv, GuardianTypeOK, Popen, Installs(New), UNCHANGED <<backups, turn>>,
         thread'["stop"] = thread["stop"]
  PROVE  ReachInv'
<1>1. alive' = alive \cup {New} /\ primary' = New
  BY DEF Popen, Installs
<1>2. slipped' = slipped \cup Dropped \cup IF Late THEN {New} ELSE {}
  BY DEF Installs, Slips
<1>3. /\ Late' <=> Late
      /\ \A i \in DOMAIN backups : Ahead(i)' <=> Ahead(i)
  BY DEF Late, Ahead
<1>4. ASSUME NEW p \in alive' \ slipped' PROVE InReach(p)'
  <2>1. CASE p = New
    BY <1>1, <1>2, <1>3, <1>4, <2>1 DEF InReach
  <2>2. CASE p # New
    <3>1. p \in alive \ slipped /\ p # primary
      BY <1>1, <1>2, <1>4, <2>2 DEF Dropped
    <3>2. PICK i \in DOMAIN backups : p = backups[i] /\ Ahead(i)
      BY <3>1 DEF ReachInv, InReach
    <3>3. QED
      BY <1>3, <3>2 DEF InReach
  <2>3. QED
    BY <2>1, <2>2
<1>5. QED
  BY <1>3, <1>4 DEF ReachInv

\* No process gets out of stop()'s reach but by a slip.
LEMMA ReachStep ==
  ASSUME GuardInv, [GuardianNext]_guardianVars
  PROVE  ReachInv'
<1> USE GuardianBounds DEF GuardInv, MovesTo
<1>1. /\ Len(backups) \in Nat /\ NoProc \notin Procs
      /\ Callers = {"stop", "restart"}
      /\ backups \in Seq(Procs)
      /\ thread \in [Callers \cup {"monitor"} ->
                       {"idle", "kill", "wait", "start", "backups", "join", "done",
                        "test", "poll", "crash", "spare", "over"}]
      /\ victim \in [Callers -> Procs \cup {NoProc}]
      /\ turn \in Nat
  BY ListLemma DEF Procs, Callers, GuardianTypeOK
<1> USE <1>1
<1>2. NoProc \notin alive
  BY DEF GuardianTypeOK
<1>3. CASE Test \/ Poll \/ GiveUp \/ WindowPasses \/ BeginRestart
  BY <1>3, ReachFrame DEF Test, Poll, GiveUp, WindowPasses, BeginRestart
<1>4. CASE PromoteBackup
  <2>1. /\ backups # <<>> /\ primary' = Head(backups) /\ backups' = Tail(backups)
        /\ slipped' = slipped \cup Dropped
                        \cup IF Late THEN {Head(backups)} \cup Skipped ELSE {}
        /\ thread'["stop"] = thread["stop"]
        /\ UNCHANGED <<alive, turn>>
    BY <1>4 DEF PromoteBackup, Promotes, Slips
  <2>2. /\ primary' = backups[1] /\ DOMAIN backups = 1..Len(backups)
        /\ \A i \in DOMAIN backups : i # 1 => /\ i - 1 \in DOMAIN backups'
                                              /\ backups'[i - 1] = backups[i]
    BY <2>1
  <2>3. /\ Late' <=> Late
        /\ \A i \in Nat : Ahead(i)' <=> Ahead(i)
    BY <2>1 DEF Late, Ahead
  <2>4. ASSUME NEW p \in alive' \ slipped' PROVE InReach(p)'
    <3>1. p \in alive \ slipped /\ p # primary
      BY <2>1, <2>4 DEF Dropped
    <3>2. PICK i \in DOMAIN backups : p = backups[i] /\ Ahead(i)
      BY <3>1 DEF ReachInv, InReach
    <3>3. CASE ~Late
      <4>1. CASE i = 1
        BY <2>2, <2>3, <3>2, <3>3, <4>1 DEF InReach
      <4>2. CASE i # 1
        <5>1. Ahead(i - 1)'
          BY <2>1, <3>3 DEF Late, Ahead
        <5>2. QED
          BY <2>2, <3>2, <4>2, <5>1 DEF InReach
      <4>3. QED
        BY <4>1, <4>2
    <3>4. CASE Late
      <4>1. p # Head(backups) /\ p \notin Skipped
        BY <2>1, <2>4, <3>4
      <4>2. i # 1 /\ i >= turn /\ i \in Nat /\ i \in 1..Len(backups)
        BY <2>1, <2>2, <3>2, <3>4, <4>1 DEF Ahead
      <4>3. i # turn
        BY <3>2, <4>1, <4>2 DEF Skipped
      <4>4. Ahead(i - 1)'
        BY <2>1, <3>2, <4>2, <4>3 DEF Ahead
      <4>5. QED
        BY <2>2, <3>2, <4>2, <4>4 DEF InReach
    <3>5. QED
      BY <3>3, <3>4
  <2>5. QED
    BY <2>1, <2>3, <2>4 DEF ReachInv
<1>5. CASE StartSpare
  <2>1. thread'["stop"] = thread["stop"] /\ UNCHANGED <<primary, turn>>
    BY <1>5 DEF StartSpare
  <2>2. CASE /\ Popen /\ backups' = Append(backups, New)
             /\ Slips(IF Ahead(Len(backups')) THEN {} ELSE {New})
    <3>1. /\ \A i \in DOMAIN backups : i \in DOMAIN backups' /\ backups'[i] = backups[i]
          /\ Len(backups') \in DOMAIN backups' /\ backups'[Len(backups')] = New
      BY <2>2, NewIsProcess DEF GuardianTypeOK
    <3>2. alive' = alive \cup {New}
      BY <2>2 DEF Popen
    <3>3. Late' <=> Late
      BY <2>1 DEF Late
    <3>4. \A i \in Nat : Ahead(i)' <=> Ahead(i)
      BY <2>1 DEF Late, Ahead
    <3>5. ASSUME NEW p \in alive' \ slipped' PROVE InReach(p)'
      <4>1. CASE p = New
        <5>1. Ahead(Len(backups'))
          BY <2>2, <3>5, <4>1 DEF Slips
        <5>2. Len(backups') \in Nat
          BY <2>2, NewIsProcess, ListLemma DEF GuardianTypeOK
        <5>3. QED
          BY <3>1, <3>4, <4>1, <5>1, <5>2 DEF InReach
      <4>2. CASE p # New
        <5>1. InReach(p) /\ p \in alive \ slipped
          BY <2>2, <3>2, <3>5, <4>2 DEF ReachInv, Slips
        <5>2. DOMAIN backups \subseteq Nat
          OBVIOUS
        <5>3. QED
          BY <2>1, <3>1, <3>3, <3>4, <5>1, <5>2 DEF InReach
      <4>3. QED
        BY <4>1, <4>2
    <3>6. QED
      BY <2>1, <3>3, <3>5 DEF ReachInv
  <2>3. CASE UNCHANGED <<alive, spawned, backups, slipped>>
    BY <2>1, <2>3, ReachFrame
  <2>4. QED
    BY <1>5, <2>2, <2>3 DEF StartSpare
<1>6. CASE RestartPrimary \/ StartAnew
  <2>1. thread'["stop"] = thread["stop"] /\ UNCHANGED <<backups, turn>>
    BY <1>6 DEF RestartPrimary, StartAnew
  <2>2. \/ Popen /\ Installs(New)
        \/ UNCHANGED <<alive, spawned, primary, slipped>>
    BY <1>6 DEF RestartPrimary, StartAnew
  <2>3. QED
    BY <2>1, <2>2, InstallsKeeps, ReachFrame
<1>7. CASE BeginStop
  BY <1>7 DEF BeginStop, ReachInv, InReach, Late, Ahead
<1>8. ASSUME NEW t \in Callers, Terminate(t)
      PROVE  ReachInv'
  <2>1. /\ thread[t] = "kill"
        /\ UNCHANGED <<alive, primary, backups, turn, slipped>>
    BY <1>8 DEF Terminate
  <2>2. CASE t = "restart"
    <3>1. thread'["stop"] = thread["stop"]
      BY <1>8, <2>2 DEF Terminate
    <3>2. QED
      BY <2>1, <3>1, ReachFrame
  <2>3. CASE t = "stop" /\ primary # NoProc
    <3>1. thread["stop"] = "kill" /\ thread'["stop"] = "wait"
      BY <1>8, <2>1, <2>3 DEF Terminate
    <3>2. QED
      BY <2>1, <3>1 DEF ReachInv, InReach, Late, Ahead
  <2>4. CASE t = "stop" /\ primary = NoProc
    <3>1. thread["stop"] = "kill" /\ thread'["stop"] = "backups"
      BY <1>8, <2>1, <2>4 DEF Terminate, AfterKill
    <3>2. turn = 1 /\ \A p \in alive \ slipped : \E i \in DOMAIN backups : p = backups[i]
      BY <1>2, <2>4, <3>1 DEF ReachInv, InReach, Late
    <3>3. QED
      BY <2>1, <3>1, <3>2 DEF ReachInv, InReach, Late, Ahead
  <2>5. QED
    BY <2>2, <2>3, <2>4
<1>9. ASSUME NEW t \in Callers, Forget(t) \/ WaitExpires(t)
      PROVE  ReachInv'
  <2>1. /\ thread[t] = "wait" /\ UNCHANGED <<backups, turn>>
        /\ alive' \subseteq alive /\ slipped \subseteq slipped'
        /\ primary \in alive' => primary \in slipped'
    BY <1>9 DEF Forget, WaitExpires, Slips, Dropped
  <2>2. \A p \in alive' \ slipped' : p # primary /\ InReach(p)
    BY <2>1 DEF ReachInv
  <2>3. \A p \in alive' \ slipped' : \E i \in DOMAIN backups : p = backups[i] /\ Ahead(i)
    BY <2>2 DEF InReach
  <2>4. CASE t = "restart"
    <3>1. thread'["stop"] = thread["stop"]
      BY <1>9, <2>4 DEF Forget, WaitExpires
    <3>2. QED
      BY <2>1, <2>3, <3>1 DEF ReachInv, InReach, Late, Ahead
  <2>5. CASE t = "stop"
    <3>1. turn = 1
      BY <2>1, <2>5 DEF ReachInv, Late
    <3>2. CASE thread'["stop"] = "backups"
      BY <2>1, <2>3, <3>1, <3>2 DEF ReachInv, InReach, Late, Ahead
    <3>3. CASE thread'["stop"] = "done" /\ alive' \subseteq slipped'
      BY <3>3 DEF ReachInv, Late
    <3>4. thread'["stop"] = "backups" \/ (thread'["stop"] = "done" /\ alive' \subseteq slipped')
      BY <1>9, <2>5 DEF Forget, WaitExpires, AfterKill, Slips
    <3>5. QED
      BY <3>2, <3>3, <3>4
  <2>6. QED
    BY <2>4, <2>5
<1>10. CASE KillBackup
  <2>1. /\ thread["stop"] = "backups"
        /\ alive' = alive \ {backups[turn]} /\ turn' = turn + 1
        /\ UNCHANGED <<primary, backups, thread, slipped>>
    BY <1>10 DEF KillBackup
  <2>2. ASSUME NEW p \in alive' \ slipped'
        PROVE  \E i \in DOMAIN backups' : p = backups'[i] /\ Ahead(i)'
    <3>1. PICK i \in DOMAIN backups : p = backups[i] /\ i >= turn
      BY <2>1, <2>2 DEF ReachInv, InReach, Late, Ahead
    <3>2. i # turn /\ i \in Nat
      BY <2>1, <2>2, <3>1
    <3>3. i >= turn + 1
      BY <3>1, <3>2
    <3>4. QED
      BY <2>1, <3>1, <3>3 DEF Ahead
  <2>3. QED
    BY <2>1, <2>2 DEF ReachInv, InReach, Late
<1>11. CASE ClearBackups
  <2>1. /\ thread["stop"] = "backups" /\ turn > Len(backups)
        /\ thread'["stop"] = "join"
        /\ UNCHANGED <<alive, slipped>>
    BY <1>11 DEF ClearBackups
  <2>2. \A p \in alive \ slipped : \E i \in 1..Len(backups) : i >= turn
    BY <2>1 DEF ReachInv, InReach, Late, Ahead
  <2>3. alive \subseteq slipped
    BY <2>1, <2>2
  <2>4. QED
    BY <2>1, <2>3 DEF ReachInv, Late
<1>12. CASE Join
  <2>1. /\ thread["stop"] = "join" /\ thread'["stop"] = "done"
        /\ UNCHANGED <<alive, slipped>>
    BY <1>12 DEF Join
  <2>2. alive \subseteq slipped
    BY <2>1 DEF ReachInv, InReach, Late, Ahead
  <2>3. QED
    BY <2>1, <2>2 DEF ReachInv, Late
<1>13. ASSUME NEW p \in Procs, ProcessEnds(p)
       PROVE  ReachInv'
  BY <1>13, ReachFrame DEF ProcessEnds
<1>14. CASE UNCHANGED guardianVars
  BY <1>14, ReachFrame DEF guardianVars
<1>15. QED
  BY <1>3, <1>4, <1>5, <1>6, <1>7, <1>8, <1>9, <1>10, <1>11, <1>12, <1>13, <1>14
  DEF GuardianNext, Monitor, StopSteps, RestartSteps, Kill

LEMMA GuardInit == GuardianInit => GuardInv
<1> SUFFICES ASSUME GuardianInit PROVE GuardInv
  OBVIOUS
<1> USE GuardianBounds DEF GuardianInit, Procs, Callers
<1>1. /\ backups \in Seq(Procs) /\ Len(backups) = Backups
      /\ DOMAIN backups = 1..Backups /\ \A i \in 1..Backups : backups[i] = i + 1
  OBVIOUS
<1>2. GuardianTypeOK
  <2>1. alive \subseteq Procs /\ spawned \in 0..MaxProcs
    OBVIOUS
  <2>2. primary \in Procs /\ turn \in 1..(MaxProcs + 1) /\ restarts \in 0..MaxRestarts
    OBVIOUS
  <2>3. victim \in [Callers -> Procs \cup {NoProc}]
    OBVIOUS
  <2>4. QED
    BY <1>1, <2>1, <2>2, <2>3 DEF GuardianTypeOK
<1>3. PlacesFit
  BY <1>1 DEF PlacesFit
<1>4. \A p \in alive : p = primary \/ \E i \in DOMAIN backups : p = backups[i]
  <2>1. \A p \in alive : p # 1 => p - 1 \in 1..Backups /\ backups[p - 1] = p
    BY <1>1
  <2>2. QED
    BY <1>1, <2>1
<1>5. ReachInv
  BY <1>4 DEF ReachInv, InReach, Ahead, Late
<1>6. QED
  BY <1>2, <1>3, <1>5 DEF GuardInv

LEMMA GuardStep == GuardInv /\ [GuardianNext]_guardianVars => GuardInv'
BY GuardianTypeStep, ReachStep DEF GuardInv

\* The type invariant of the guardian.
THEOREM GuardianType == GuardianSpec => []GuardianTypeOK
<1>1. GuardInv => GuardianTypeOK
  BY DEF GuardInv
<1>2. QED
  BY <1>1, GuardInit, GuardStep, PTL DEF GuardianSpec

\* When stop() has returned, nothing runs that has not slipped in one of the ways
\* that Slips names, however many processes the monitor replaces meanwhile.
THEOREM StopReachesTheRest == GuardianSpec => []OnlySlippedRemain
<1>1. GuardInv => OnlySlippedRemain
  BY DEF GuardInv, ReachInv, InReach, OnlySlippedRemain, Late, Ahead
<1>2. QED
  BY <1>1, GuardInit, GuardStep, PTL DEF GuardianSpec

(***************************************************************************)
(* The snapshots.                                                          *)
(***************************************************************************)

Taken == UNION {ToSet(madeBy[s]) : s \in Schedules}

\* The serial numbers count the snapshots made.
Counted == \E k \in 0..MaxSnaps : Taken = 1..k

\* Each schedule made its snapshots in the order of their serial numbers.
Growing == \A s \in Schedules : \A i, j \in DOMAIN madeBy[s] :
             i < j => madeBy[s][i] < madeBy[s][j]

\* A snapshot on the disk was made by its schedule, once.
Genuine == /\ \A x \in snaps : x.serial \in ToSet(madeBy[x.of])
           /\ \A x, y \in snaps : x.serial = y.serial => x = y

\* Unless the clock was set back, later snapshots have later stamps.
InTime == backs = 0 => /\ \A x \in snaps : x.stamp <= clock
                       /\ \A x, y \in snaps : x.serial < y.serial => x.stamp <= y.stamp

SnapInv == SnapshotTypeOK /\ Counted /\ Growing /\ Genuine /\ InTime /\ KeepsLastApart

\* Serial is the first number that no schedule has used.
LEMMA SerialLemma ==
  ASSUME SnapInv
  PROVE  /\ Serial \in 1..(MaxSnaps + 1)
         /\ Taken = 1..(Serial - 1)
         /\ \A s \in Schedules : \A i \in DOMAIN madeBy[s] :
              madeBy[s][i] \in 1..(Serial - 1)
<1> USE SnapshotBounds
<1>1. PICK k \in 0..MaxSnaps : Taken = 1..k
  BY DEF SnapInv, Counted
<1>2. Cardinality(1..k) = k
  BY FS_Interval
<1>3. Serial = 1 + k
  BY <1>1, <1>2 DEF Serial, Taken
<1>4. ASSUME NEW s \in Schedules, NEW i \in DOMAIN madeBy[s]
      PROVE  madeBy[s][i] \in Taken
  BY DEF Taken, ToSet
<1>5. QED
  BY <1>1, <1>3, <1>4

\* The elements of later have the indices after i, up to n.
ComeAfter(later, place, i, n) ==
  /\ \A y \in later : place[y] \in (i + 1)..n
  /\ \A y, z \in later : place[y] = place[z] => y = z
  /\ \A j \in (i + 1)..n : \E y \in later : place[y] = j

LEMMA CountLemma ==
  ASSUME NEW i \in Nat, NEW n \in Nat, i <= n, NEW later, NEW place,
         ComeAfter(later, place, i, n)
  PROVE  Cardinality(later) = n - i
<1> USE DEF ComeAfter
<1> DEFINE at == [j \in (i + 1)..n |-> CHOOSE y \in later : place[y] = j]
<1>1. \A j \in (i + 1)..n : at[j] \in later /\ place[at[j]] = j
  OBVIOUS
<1>2. at \in Injection((i + 1)..n, later)
  BY <1>1 DEF Injection, IsInjective
<1>3. at \in Surjection((i + 1)..n, later)
  BY <1>1 DEF Surjection
<1>4. ExistsBijection((i + 1)..n, later)
  BY <1>2, <1>3 DEF ExistsBijection, Bijection
<1>5. IsFiniteSet((i + 1)..n) /\ Cardinality((i + 1)..n) = n - i
  <2>1. i + 1 \in Int /\ n \in Int /\ (i + 1 > n => n - i = 0)
    OBVIOUS
  <2>2. QED
    BY <2>1, FS_Interval
<1>6. QED
  BY <1>4, <1>5, FS_Bijection

\* Where larger numbers are in a list that grows.
LEMMA InOrderLemma ==
  ASSUME NEW n \in Nat, NEW m, \A i \in 1..n : m[i] \in Nat,
         \A i, j \in 1..n : i < j => m[i] < m[j],
         NEW i \in 1..n, NEW j \in 1..n, m[i] < m[j]
  PROVE  i < j
<1>1. CASE j < i
  <2>1. m[j] < m[i] /\ m[j] \in Nat /\ m[i] \in Nat
    BY <1>1
  <2>2. QED
    BY <2>1
<1>2. CASE j = i
  <2>1. m[j] < m[j] /\ m[j] \in Nat
    BY <1>2
  <2>2. QED
    BY <2>1
<1>3. QED
  BY <1>1, <1>2

\* One more snapshot is made by s, before retention.
Bigger(s) == snaps \cup {NewSnapshot(s)}

LEMMA BiggerLemma ==
  ASSUME SnapInv, NEW s \in Schedules, Serial <= MaxSnaps
  PROVE  /\ Bigger(s) \subseteq Snapshot
         /\ \A x \in Bigger(s) : /\ x.serial <= Serial
                                 /\ x.serial = Serial => x.of = s
                                 /\ x.serial # Serial => x \in snaps
         /\ \A x, y \in Bigger(s) : x.serial = y.serial => x = y
         /\ backs = 0 => /\ \A x \in Bigger(s) : x.stamp <= clock
                         /\ \A x, y \in Bigger(s) :
                              x.serial < y.serial => x.stamp <= y.stamp
         /\ IsFiniteSet(Bigger(s))
<1> DEFINE new == [of |-> s, stamp |-> clock, serial |-> Serial]
<1>1. new \in Snapshot
  BY SerialLemma, SnapshotBounds DEF SnapInv, SnapshotTypeOK, Snapshot
<1>2. \A x \in snaps : x \in Snapshot /\ x.serial \in 1..(Serial - 1)
  BY SerialLemma DEF SnapInv, SnapshotTypeOK, Genuine, Snapshot, ToSet
<1>3. \A x \in Bigger(s) : x \in snaps \/ x = new
  BY DEF Bigger, NewSnapshot
<1>4. Serial \in Nat /\ clock \in Nat
  BY SerialLemma, SnapshotBounds DEF SnapInv, SnapshotTypeOK
<1>5. new.of = s /\ new.stamp = clock /\ new.serial = Serial
  OBVIOUS
<1> HIDE DEF new
<1>6. \A x \in Bigger(s) : /\ x.serial <= Serial
                           /\ x.serial = Serial => x = new
                           /\ x.serial # Serial => x \in snaps
  BY <1>2, <1>3, <1>4, <1>5
<1>7. \A x, y \in Bigger(s) : x.serial = y.serial => x = y
  BY <1>6 DEF SnapInv, Genuine
<1>8. ASSUME backs = 0
      PROVE  /\ \A x \in Bigger(s) : x.stamp <= clock
             /\ \A x, y \in Bigger(s) : x.serial < y.serial => x.stamp <= y.stamp
  <2>1. \A x \in Bigger(s) : x.stamp <= clock
    BY <1>3, <1>4, <1>5, <1>8 DEF SnapInv, InTime
  <2>2. ASSUME NEW x \in Bigger(s), NEW y \in Bigger(s), x.serial < y.serial
        PROVE  x.stamp <= y.stamp
    <3>1. x.serial # Serial /\ x \in snaps
      BY <1>1, <1>2, <1>3, <1>4, <1>5, <1>6, <2>2
    <3>2. CASE y \in snaps
      BY <1>8, <2>2, <3>1, <3>2 DEF SnapInv, InTime
    <3>3. CASE y = new
      BY <1>5, <2>1, <3>3
    <3>4. QED
      BY <1>2, <1>3, <3>2, <3>3
  <2>3. QED
    BY <2>1, <2>2
<1>9. IsFiniteSet(Bigger(s))
  <2> DEFINE number == [x \in Bigger(s) |-> x.serial]
  <2>1. \A x \in Bigger(s) : x.serial \in 1..MaxSnaps
    BY <1>1, <1>2, <1>3, SnapshotBounds, SerialLemma DEF Snapshot
  <2>2. number \in Injection(Bigger(s), 1..MaxSnaps)
    BY <1>7, <2>1 DEF Injection, IsInjective
  <2>3. IsFiniteSet(1..MaxSnaps)
    BY SnapshotBounds, FS_Interval
  <2>4. QED
    BY <2>2, <2>3, FS_Injection
<1>10. QED
  BY <1>1, <1>2, <1>3, <1>5, <1>6, <1>7, <1>8, <1>9

LEMMA SurplusLemma ==
  ASSUME NEW s, NEW all
  PROVE  \A x \in Surplus(s, all) : x \in all /\ x.of \in Matches[s]
BY DEF Surplus

\* What s has made, with one more.
LEMMA AppendLemma ==
  ASSUME NEW m \in Seq(1..MaxSnaps), NEW n \in 1..MaxSnaps
  PROVE  /\ Append(m, n) \in Seq(1..MaxSnaps)
         /\ Len(m) \in Nat /\ Len(Append(m, n)) = Len(m) + 1
         /\ DOMAIN m = 1..Len(m) /\ DOMAIN Append(m, n) = 1..(Len(m) + 1)
         /\ \A i \in 1..Len(m) : Append(m, n)[i] = m[i]
         /\ Append(m, n)[Len(m) + 1] = n
OBVIOUS

\* Of the snapshots in held those of s have the last numbers in m, and others.
LastKept(s, m, held) ==
  \A i \in DOMAIN m : i + Keep > Len(m) => \E x \in held : x.of = s /\ x.serial = m[i]
NoneBeside(s, m, held) ==
  \A x \in held : x.of = s => \E i \in DOMAIN m : i + Keep > Len(m) /\ x.serial = m[i]

\* Of the snapshots in own, those that come before x, and those whose numbers
\* stand after the place i in m.
Earlier(own, x)     == {y \in own : Before(y, x)}
After(own, m, i, n) == {y \in own : \E j \in (i + 1)..n : y.serial = m[j]}

\* Retention deletes none of the last snapshots of a schedule whose name no other
\* schedule's matches, and takes all others for surplus.
LEMMA RetentionKeepsLast ==
  ASSUME SnapInv, backs = 0, NEW s \in Schedules, Apart(s), s \in Matches[s],
         Serial <= MaxSnaps,
         NEW m \in Seq(1..MaxSnaps), m = Append(madeBy[s], Serial)
  PROVE  /\ LastKept(s, m, Bigger(s) \ Surplus(s, Bigger(s)))
         /\ NoneBeside(s, m, Bigger(s) \ Surplus(s, Bigger(s)))
<1> USE SnapshotBounds
<1> DEFINE own == {x \in Bigger(s) : x.of \in Matches[s]}
           L   == Len(madeBy[s])
<1>1. /\ madeBy[s] \in Seq(1..MaxSnaps) /\ Serial \in 1..MaxSnaps
      /\ Rank \in [Schedules -> Nat]
  BY SerialLemma, NamesAssumption DEF SnapInv, SnapshotTypeOK
<1>2. /\ L \in Nat /\ Len(m) = L + 1
      /\ DOMAIN madeBy[s] = 1..L /\ DOMAIN m = 1..(L + 1)
      /\ \A i \in 1..L : m[i] = madeBy[s][i]
      /\ m[L + 1] = Serial
  BY <1>1, AppendLemma
<1> HIDE DEF L
<1>3. \A i, j \in 1..(L + 1) : i < j => m[i] < m[j]
  <2>1. \A i, j \in 1..L : i < j => m[i] < m[j]
    BY <1>2 DEF SnapInv, Growing
  <2>2. \A i \in 1..L : m[i] \in 1..(Serial - 1)
    BY <1>2, SerialLemma
  <2>3. ASSUME NEW i \in 1..(L + 1), NEW j \in 1..(L + 1), i < j PROVE m[i] < m[j]
    <3>1. i \in 1..L
      BY <1>2, <2>3
    <3>2. CASE j \in 1..L
      BY <2>1, <2>3, <3>1, <3>2
    <3>3. CASE j = L + 1
      BY <1>1, <1>2, <2>2, <3>1, <3>3
    <3>4. QED
      BY <1>2, <3>2, <3>3
  <2>4. QED
    BY <2>3
<1>4. \A x \in own : x \in Snapshot /\ x.of = s /\ x \in Bigger(s)
  <2>1. \A x \in Bigger(s) : x \in Snapshot /\ x.of \in Schedules
    BY BiggerLemma DEF Snapshot
  <2>2. QED
    BY <2>1 DEF Apart
<1>5. \A x \in Bigger(s) : x.of = s => x \in own
  OBVIOUS
<1>6. \A x \in own : \E i \in 1..(L + 1) : x.serial = m[i]
  <2>1. ASSUME NEW x \in own, x.serial # Serial PROVE \E i \in 1..(L + 1) : x.serial = m[i]
    <3>1. x \in snaps /\ x.of = s
      BY <1>4, <2>1, BiggerLemma
    <3>2. x.serial \in ToSet(madeBy[s])
      BY <3>1 DEF SnapInv, Genuine
    <3>3. PICK i \in 1..L : x.serial = madeBy[s][i]
      BY <1>2, <3>2 DEF ToSet
    <3>4. QED
      BY <1>2, <3>3
  <2>2. ASSUME NEW x \in own, x.serial = Serial PROVE \E i \in 1..(L + 1) : x.serial = m[i]
    BY <1>2, <2>2
  <2>3. QED
    BY <2>1, <2>2
<1>7. \A i \in 1..(L + 1) : i + Keep > L => \E x \in own : x.serial = m[i]
  <2>1. LastOf(s) \subseteq Present(s)
    BY DEF SnapInv, KeepsLastApart
  <2>2. ASSUME NEW i \in 1..L, i + Keep > L PROVE \E x \in own : x.serial = m[i]
    <3>1. m[i] \in Present(s)
      BY <1>2, <2>1, <2>2 DEF LastOf, L
    <3>2. QED
      BY <1>5, <3>1 DEF Present, Bigger
  <2>3. \E x \in own : x.serial = Serial
    <3>1. NewSnapshot(s) \in Bigger(s) /\ NewSnapshot(s).of = s /\ NewSnapshot(s).serial = Serial
      BY DEF Bigger, NewSnapshot
    <3>2. QED
      BY <1>5, <3>1
  <2>4. \A i \in 1..(L + 1) : i \in 1..L \/ i = L + 1
    BY <1>2
  <2>5. QED
    BY <1>2, <2>2, <2>3, <2>4
<1>8. \A x, y \in own : Before(y, x) <=> y.serial > x.serial
  <2>1. TAKE x, y \in own
  <2>2. /\ x.of = s /\ y.of = s
        /\ x.stamp \in Nat /\ y.stamp \in Nat /\ x.serial \in Nat /\ y.serial \in Nat
        /\ Rank[s] \in Nat
    BY <1>1, <1>4 DEF Snapshot
  <2>3. /\ x.serial < y.serial => x.stamp <= y.stamp
        /\ y.serial < x.serial => y.stamp <= x.stamp
        /\ x.serial = y.serial => x = y
    BY <1>4, BiggerLemma
  <2>4. QED
    BY <2>2, <2>3 DEF Before
<1>9. \A x, y \in own : x.serial = y.serial => x = y
  BY <1>4, BiggerLemma
<1>10. \A T \in SUBSET own : IsFiniteSet(T)
  BY BiggerLemma, FS_Subset
<1> HIDE DEF own, L
<1>11. \A j \in 1..(L + 1) : m[j] \in Nat
  BY <1>2
\* Those after one of the last places have numbers of their own there.
<1>12. ASSUME NEW i \in Nat, i + Keep > L, i <= L + 1
       PROVE  Cardinality(After(own, m, i, L + 1)) = L + 1 - i
  <2> DEFINE later == After(own, m, i, L + 1)
             place == [y \in later |-> CHOOSE j \in (i + 1)..(L + 1) : y.serial = m[j]]
  <2>1. \A y \in later : place[y] \in (i + 1)..(L + 1) /\ m[place[y]] = y.serial
    BY DEF After
  <2>2. \A y \in later : y \in own
    BY DEF After
  <2>3. \A j \in (i + 1)..(L + 1) : \E y \in later : y.serial = m[j]
    BY <1>2, <1>7, <1>12 DEF After
  <2> HIDE DEF place, later
  <2>4. \A y, z \in later : place[y] = place[z] => y = z
    BY <1>9, <2>1, <2>2
  <2>5. \A j \in (i + 1)..(L + 1) : \E y \in later : place[y] = j
    <3>1. TAKE j \in (i + 1)..(L + 1)
    <3>2. PICK y \in later : y.serial = m[j]
      BY <2>3
    <3>3. PICK l \in (i + 1)..(L + 1) : l = place[y] /\ m[l] = m[j]
      BY <2>1, <3>2
    <3>4. l \in 1..(L + 1) /\ j \in 1..(L + 1)
      BY <1>2
    <3>5. m[l] \in Nat /\ (l < j => m[l] < m[j]) /\ (j < l => m[j] < m[l])
      BY <1>3, <1>11, <3>4
    <3>6. l = j
      BY <1>2, <3>3, <3>4, <3>5
    <3>7. QED
      BY <3>2, <3>3, <3>6
  <2>6. PICK n \in Nat : n = L + 1
    BY <1>2
  <2>7. ComeAfter(later, place, i, n) /\ i <= n
    BY <1>12, <2>1, <2>4, <2>5, <2>6 DEF ComeAfter
  <2>8. Cardinality(later) = n - i
    BY ONLY i \in Nat, <2>7, n \in Nat, CountLemma
  <2>9. Cardinality(later) = L + 1 - i
    BY <1>2, <1>12, <2>6, <2>8
  <2>10. QED
    BY <2>9 DEF later
\* The snapshots before x are those with later places.
<1>13. ASSUME NEW x \in own, NEW i \in 1..(L + 1), x.serial = m[i]
       PROVE  Earlier(own, x) = After(own, m, i, L + 1)
  <2>1. ASSUME NEW y \in own, Before(y, x)
        PROVE  \E j \in (i + 1)..(L + 1) : y.serial = m[j]
    <3>1. PICK j \in 1..(L + 1) : y.serial = m[j]
      BY <1>6
    <3>2. m[i] < m[j]
      BY <1>8, <1>11, <1>13, <2>1, <3>1
    <3>3. PICK n \in Nat : n = L + 1
      BY <1>2
    <3>4. /\ \A k \in 1..n : m[k] \in Nat
          /\ \A k, l \in 1..n : k < l => m[k] < m[l]
          /\ i \in 1..n /\ j \in 1..n
      BY <1>3, <1>11, <3>3
    <3>5. i < j
      BY <3>2, <3>4, InOrderLemma
    <3>6. QED
      BY <1>2, <3>1, <3>5
  <2>2. ASSUME NEW y \in own, NEW j \in (i + 1)..(L + 1), y.serial = m[j]
        PROVE  Before(y, x)
    <3>1. j \in 1..(L + 1) /\ i < j
      BY <1>2
    <3>2. m[i] < m[j]
      BY <1>3, <3>1
    <3>3. QED
      BY <1>8, <1>11, <1>13, <2>2, <3>1, <3>2
  <2>3. QED
    BY <2>1, <2>2 DEF Earlier, After
<1>14. ASSUME NEW x \in own, NEW i \in 1..(L + 1), x.serial = m[i]
       PROVE  x \in Surplus(s, Bigger(s)) <=> i + Keep <= L + 1
  <2>1. x \in Surplus(s, Bigger(s)) <=> Cardinality(Earlier(own, x)) >= Keep
    BY <1>14 DEF Surplus, own, Earlier
  <2>2. CASE i + Keep > L
    <3>1. i \in Nat /\ i <= L + 1
      BY <1>2
    <3>2. Cardinality(Earlier(own, x)) = L + 1 - i
      BY <1>12, <1>13, <1>14, <2>2, <3>1
    <3>3. QED
      BY <1>2, <2>1, <2>2, <3>2
  <2>3. CASE i + Keep <= L
    <3>1. PICK k \in Nat : k + Keep = L + 1 /\ i < k /\ k <= L + 1 /\ k + Keep > L
      <4>1. L + 1 - Keep \in Nat /\ i < L + 1 - Keep
        BY <1>2, <2>3
      <4>2. QED
        BY <1>2, <4>1
    <3>2. Cardinality(After(own, m, k, L + 1)) = L + 1 - k
      BY <1>12, <3>1
    <3>3. L + 1 - k = Keep
      BY <1>2, <3>1
    <3>4. After(own, m, k, L + 1) \subseteq Earlier(own, x)
      <4>1. \A j \in (k + 1)..(L + 1) : j \in (i + 1)..(L + 1)
        BY <1>2, <3>1
      <4>2. After(own, m, k, L + 1) \subseteq After(own, m, i, L + 1)
        BY <4>1 DEF After
      <4>3. QED
        BY <1>13, <1>14, <4>2
    <3>5. IsFiniteSet(Earlier(own, x))
      BY <1>10 DEF Earlier
    <3>6. /\ Cardinality(After(own, m, k, L + 1)) <= Cardinality(Earlier(own, x))
          /\ Cardinality(Earlier(own, x)) \in Nat
      BY <3>4, <3>5, FS_Subset, FS_CardinalityType
    <3>7. Cardinality(Earlier(own, x)) >= Keep
      BY <3>2, <3>3, <3>6
    <3>8. QED
      BY <1>2, <2>1, <2>3, <3>7
  <2>4. QED
    BY <1>2, <2>2, <2>3
<1>15. ASSUME NEW i \in DOMAIN m, i + Keep > Len(m)
       PROVE  \E x \in Bigger(s) \ Surplus(s, Bigger(s)) : x.of = s /\ x.serial = m[i]
  <2>1. i \in 1..(L + 1) /\ i + Keep > L + 1 /\ i + Keep > L
    BY <1>2, <1>15
  <2>2. PICK x \in own : x.serial = m[i]
    BY <1>7, <2>1
  <2>3. x \notin Surplus(s, Bigger(s))
    BY <1>2, <1>14, <2>1, <2>2
  <2>4. QED
    BY <1>4, <2>2, <2>3
<1>16. ASSUME NEW x \in Bigger(s) \ Surplus(s, Bigger(s)), x.of = s
       PROVE  \E i \in DOMAIN m : i + Keep > Len(m) /\ x.serial = m[i]
  <2>1. x \in own
    BY <1>5, <1>16
  <2>2. PICK i \in 1..(L + 1) : x.serial = m[i]
    BY <1>6, <2>1
  <2>3. i + Keep > L + 1
    BY <1>2, <1>14, <1>16, <2>1, <2>2
  <2>4. QED
    BY <1>2, <2>2, <2>3
<1>17. QED
  BY <1>15, <1>16 DEF LastKept, NoneBeside

\* The other steps leave the snapshots alone.
LEMMA OthersKeep ==
  ASSUME SnapInv, UNCHANGED <<snaps, madeBy, behind>>, SnapshotTypeOK',
         \/ UNCHANGED <<clock, backs>>
         \/ backs' = backs /\ clock' = clock + 1
         \/ backs' = backs + 1
  PROVE  SnapInv'
<1>1. Counted' /\ Growing' /\ Genuine'
  BY DEF SnapInv, Counted, Taken, Growing, Genuine
<1>2. backs \in Nat /\ clock \in Nat /\ (backs' = 0 => backs = 0 /\ clock <= clock')
  BY SnapshotBounds DEF SnapInv, SnapshotTypeOK
<1>3. \A x \in snaps : x.stamp \in Nat
  BY SnapshotBounds DEF SnapInv, SnapshotTypeOK, Snapshot
<1>4. InTime'
  <2>1. clock' \in Nat
    BY SnapshotBounds DEF SnapshotTypeOK
  <2>2. QED
    BY <1>2, <1>3, <2>1 DEF SnapInv, InTime
<1>5. KeepsLastApart'
  <2>1. \A s \in Schedules : Present(s)' = Present(s) /\ LastOf(s)' = LastOf(s)
    BY DEF Present, LastOf
  <2>2. QED
    BY <1>2, <2>1 DEF SnapInv, KeepsLastApart, Apart
<1>6. QED
  BY <1>1, <1>4, <1>5 DEF SnapInv

\* One more snapshot of s is made, and of those deleted none is among the last
\* ones of a schedule whose name is apart.
LEMMA MakingKeeps ==
  ASSUME SnapInv, NEW s \in Schedules, Makes(s), SnapshotTypeOK',
         UNCHANGED <<clock, backs>>,
         snaps' \subseteq Bigger(s),
         \A x \in Bigger(s) : x.of \notin Matches[s] => x \in snaps',
         backs = 0 /\ Apart(s) /\ s \in Matches[s]
           => LastKept(s, Append(madeBy[s], Serial), snaps'),
         backs = 0 /\ Apart(s) /\ s \in Matches[s] /\ s \notin behind'
           => NoneBeside(s, Append(madeBy[s], Serial), snaps'),
         \A t \in Schedules \ {s} : t \in behind => t \in behind'
  PROVE  SnapInv'
<1> USE SnapshotBounds
<1>1. /\ Serial \in 1..MaxSnaps
      /\ madeBy' = [madeBy EXCEPT ![s] = Append(@, Serial)]
  BY SerialLemma DEF Makes
<1>2. /\ madeBy \in [Schedules -> Seq(1..MaxSnaps)]
      /\ madeBy[s] \in Seq(1..MaxSnaps) /\ Append(madeBy[s], Serial) \in Seq(1..MaxSnaps)
  BY <1>1, AppendLemma DEF SnapInv, SnapshotTypeOK
<1>3. /\ madeBy'[s] = Append(madeBy[s], Serial)
      /\ \A t \in Schedules \ {s} : madeBy'[t] = madeBy[t]
      /\ madeBy' \in [Schedules -> Seq(1..MaxSnaps)]
  BY <1>1, <1>2
<1>4. snaps' \subseteq Bigger(s) /\ Bigger(s) \subseteq Snapshot
  BY <1>1, BiggerLemma
<1>5. /\ DOMAIN madeBy[s] = 1..Len(madeBy[s])
      /\ DOMAIN madeBy'[s] = 1..(Len(madeBy[s]) + 1)
      /\ Len(madeBy[s]) \in Nat
      /\ \A i \in 1..Len(madeBy[s]) : madeBy'[s][i] = madeBy[s][i]
      /\ madeBy'[s][Len(madeBy[s]) + 1] = Serial
  BY <1>1, <1>2, <1>3, AppendLemma
<1>7. ToSet(madeBy'[s]) = ToSet(madeBy[s]) \cup {Serial}
  <2> DEFINE L == Len(madeBy[s])
  <2>1. 1..(L + 1) = 1..L \cup {L + 1}
    BY <1>5
  <2>2. \A i \in 1..(L + 1) : i \in 1..L \/ i = L + 1
    BY <2>1
  <2>3. \A x \in ToSet(madeBy'[s]) : x \in ToSet(madeBy[s]) \/ x = Serial
    BY <1>5, <2>2 DEF ToSet
  <2>4. \A x \in ToSet(madeBy[s]) : x \in ToSet(madeBy'[s])
    BY <1>5, <2>1 DEF ToSet
  <2>5. Serial \in ToSet(madeBy'[s])
    BY <1>5, <2>1 DEF ToSet
  <2>6. QED
    BY <2>3, <2>4, <2>5
<1>8. Counted'
  <2>1. Taken' = Taken \cup {Serial}
    BY <1>3, <1>7 DEF Taken
  <2>2. Taken' = 1..Serial
    BY <1>1, <2>1, SerialLemma
  <2>3. QED
    BY <1>1, <2>2 DEF Counted
<1>9. Growing'
  <2>1. ASSUME NEW i \in DOMAIN madeBy'[s], NEW j \in DOMAIN madeBy'[s], i < j
        PROVE  madeBy'[s][i] < madeBy'[s][j]
    <3>1. \A l \in 1..Len(madeBy[s]) : madeBy[s][l] \in 1..(Serial - 1)
      BY <1>5, SerialLemma
    <3>2. \A l, n \in 1..Len(madeBy[s]) : l < n => madeBy[s][l] < madeBy[s][n]
      BY <1>5 DEF SnapInv, Growing
    <3>3. QED
      BY <1>1, <1>5, <2>1, <3>1, <3>2
  <2>2. QED
    BY <1>3, <2>1 DEF SnapInv, Growing
<1>10. Genuine'
  <2>1. ASSUME NEW x \in snaps' PROVE x.serial \in ToSet(madeBy'[x.of])
    <3>1. CASE x.serial = Serial
      <4>1. x.of = s
        BY <1>1, <1>4, <2>1, <3>1, BiggerLemma
      <4>2. QED
        BY <1>7, <3>1, <4>1
    <3>2. CASE x.serial # Serial
      <4>1. x \in snaps /\ x.of \in Schedules
        BY <1>1, <1>4, <2>1, <3>2, BiggerLemma DEF Snapshot
      <4>2. x.serial \in ToSet(madeBy[x.of])
        BY <4>1 DEF SnapInv, Genuine
      <4>3. QED
        BY <1>3, <1>7, <4>1, <4>2
    <3>3. QED
      BY <3>1, <3>2
  <2>2. \A x, y \in snaps' : x.serial = y.serial => x = y
    BY <1>4, <1>1, BiggerLemma
  <2>3. QED
    BY <2>1, <2>2 DEF Genuine
<1>11. InTime'
  BY <1>1, <1>4, BiggerLemma DEF InTime
<1> DEFINE m == Append(madeBy[s], Serial)
<1>12. /\ LastOf(s)' = {m[i] : i \in {j \in DOMAIN m : j + Keep > Len(m)}}
       /\ Present(s)' = {x.serial : x \in {y \in snaps' : y.of = s}}
  BY <1>3 DEF LastOf, Present
<1>13. ASSUME backs = 0, Apart(s) PROVE LastOf(s)' \subseteq Present(s)'
  <2>1. CASE s \in Matches[s]
    BY <1>12, <1>13, <2>1 DEF LastKept
  <2>2. CASE s \notin Matches[s]
    <3>1. LastOf(s) \subseteq Present(s)
      BY <1>13 DEF SnapInv, KeepsLastApart
    <3>2. \A x \in Bigger(s) : x.of = s => x \in snaps'
      BY <2>2
    <3>3. Present(s) \cup {Serial} \subseteq Present(s)'
      <4>1. NewSnapshot(s) \in Bigger(s) /\ NewSnapshot(s).of = s /\ NewSnapshot(s).serial = Serial
        BY DEF Bigger, NewSnapshot
      <4>2. \A x \in snaps : x \in Bigger(s)
        BY DEF Bigger
      <4>3. QED
        BY <1>12, <3>2, <4>1, <4>2 DEF Present
    <3>4. LastOf(s)' \subseteq LastOf(s) \cup {Serial}
      <4>1. ASSUME NEW i \in DOMAIN m, i + Keep > Len(m) PROVE m[i] \in LastOf(s) \cup {Serial}
        <5>1. CASE i \in 1..Len(madeBy[s])
          <6>1. i \in DOMAIN madeBy[s] /\ i + Keep > Len(madeBy[s]) /\ m[i] = madeBy[s][i]
            BY <1>2, <1>5, <4>1, <5>1, AppendLemma, <1>1
          <6>2. QED
            BY <6>1 DEF LastOf
        <5>2. CASE i = Len(madeBy[s]) + 1
          BY <1>1, <1>2, <5>2, AppendLemma
        <5>3. QED
          BY <1>1, <1>2, <1>5, <5>1, <5>2, AppendLemma
      <4>2. QED
        BY <1>12, <4>1
    <3>5. QED
      BY <3>1, <3>3, <3>4
  <2>3. QED
    BY <2>1, <2>2
<1>14. ASSUME backs = 0, Apart(s), s \in Matches[s], s \notin behind'
       PROVE  Present(s)' = LastOf(s)'
  <2>1. NoneBeside(s, m, snaps')
    BY <1>14
  <2>2. Present(s)' \subseteq LastOf(s)'
    BY <1>12, <2>1 DEF NoneBeside
  <2>3. QED
    BY <1>13, <1>14, <2>2
<1> HIDE DEF m
<1>15. ASSUME backs = 0, NEW t \in Schedules \ {s}, Apart(t)
       PROVE  /\ LastOf(t)' \subseteq Present(t)'
              /\ (t \in Matches[t] /\ t \notin behind') => Present(t)' = LastOf(t)'
  <2>1. t \notin Matches[s]
    BY <1>15 DEF Apart
  <2>2. \A x : x \in snaps' /\ x.of = t <=> x \in snaps /\ x.of = t
    <3>1. ASSUME NEW x \in snaps, x.of = t PROVE x \in snaps'
      BY <2>1, <3>1 DEF Bigger
    <3>2. ASSUME NEW x \in snaps', x.of = t PROVE x \in snaps
      BY <1>1, <1>4, <1>15, <3>2, BiggerLemma
    <3>3. QED
      BY <3>1, <3>2
  <2>3. Present(t)' = Present(t)
    BY <2>2 DEF Present
  <2>4. LastOf(t)' = LastOf(t)
    BY <1>3 DEF LastOf
  <2>5. t \notin behind' => t \notin behind
    OBVIOUS
  <2>6. /\ LastOf(t) \subseteq Present(t)
        /\ (t \in Matches[t] /\ t \notin behind) => Present(t) = LastOf(t)
    BY <1>15 DEF SnapInv, KeepsLastApart
  <2>7. QED
    BY <2>3, <2>4, <2>5, <2>6
<1>16. KeepsLastApart'
  <2>1. ASSUME backs' = 0, NEW t \in Schedules, Apart(t)
        PROVE  /\ LastOf(t)' \subseteq Present(t)'
               /\ (t \in Matches[t] /\ t \notin behind') => Present(t)' = LastOf(t)'
    BY <1>13, <1>14, <1>15, <2>1
  <2>2. QED
    BY <2>1 DEF KeepsLastApart, Apart
<1>17. QED
  BY <1>8, <1>9, <1>10, <1>11, <1>16 DEF SnapInv

LEMMA ExecuteKeeps ==
  ASSUME SnapInv, NEW s \in Schedules, Execute(s)
  PROVE  SnapInv'
<1> USE SnapshotBounds
<1>1. PICK left \in SUBSET Surplus(s, Bigger(s)) :
        /\ snaps' = (Bigger(s) \ Surplus(s, Bigger(s))) \cup left
        /\ behind' = IF left = {} THEN behind \ {s} ELSE behind \cup {s}
  BY DEF Execute, Bigger
<1>2. /\ Makes(s) /\ lastRun' = [lastRun EXCEPT ![s] = clock]
      /\ due' = due \ {s}
      /\ UNCHANGED <<listed, enabled, clock, backs, vmWas>>
  BY DEF Execute
<1>3. /\ Serial <= MaxSnaps /\ Serial \in 1..MaxSnaps
      /\ madeBy[s] \in Seq(1..MaxSnaps) /\ Append(madeBy[s], Serial) \in Seq(1..MaxSnaps)
      /\ madeBy' \in [Schedules -> Seq(1..MaxSnaps)]
  <2>1. Serial <= MaxSnaps /\ Serial \in 1..MaxSnaps
    BY <1>2, SerialLemma DEF Makes
  <2>2. madeBy[s] \in Seq(1..MaxSnaps) /\ Append(madeBy[s], Serial) \in Seq(1..MaxSnaps)
    BY <2>1, AppendLemma DEF SnapInv, SnapshotTypeOK
  <2>3. QED
    BY <1>2, <2>1, <2>2 DEF Makes, SnapInv, SnapshotTypeOK
<1>4. snaps' \subseteq Bigger(s) /\ Bigger(s) \subseteq Snapshot
  BY <1>1, <1>3, SurplusLemma, BiggerLemma
<1>5. SnapshotTypeOK'
  <2>1. behind' \subseteq Schedules
    BY <1>1 DEF SnapInv, SnapshotTypeOK
  <2>2. lastRun' \in [Schedules -> 0..MaxTime \cup {Never}]
    BY <1>2 DEF SnapInv, SnapshotTypeOK
  <2>3. QED
    BY <1>2, <1>3, <1>4, <2>1, <2>2 DEF SnapInv, SnapshotTypeOK
<1>6. \A x \in Bigger(s) : x.of \notin Matches[s] => x \in snaps'
  BY <1>1, SurplusLemma
<1>7. ASSUME backs = 0, Apart(s), s \in Matches[s]
      PROVE  /\ LastKept(s, Append(madeBy[s], Serial), snaps')
             /\ s \notin behind' => NoneBeside(s, Append(madeBy[s], Serial), snaps')
  <2>1. PICK m \in Seq(1..MaxSnaps) : m = Append(madeBy[s], Serial)
    BY <1>3
  <2>2. /\ LastKept(s, m, Bigger(s) \ Surplus(s, Bigger(s)))
        /\ NoneBeside(s, m, Bigger(s) \ Surplus(s, Bigger(s)))
    BY <1>3, <1>7, <2>1, RetentionKeepsLast
  <2>3. LastKept(s, m, snaps')
    BY <1>1, <2>2 DEF LastKept
  <2>4. s \notin behind' => snaps' = Bigger(s) \ Surplus(s, Bigger(s))
    BY <1>1
  <2>5. QED
    BY <2>1, <2>2, <2>3, <2>4
<1>8. \A t \in Schedules \ {s} : t \in behind => t \in behind'
  BY <1>1
<1>9. QED
  BY <1>2, <1>4, <1>5, <1>6, <1>7, <1>8, MakingKeeps

LEMMA FailureKeeps ==
  ASSUME SnapInv, NEW s \in Schedules, ExecuteFails(s)
  PROVE  SnapInv'
<1> USE SnapshotBounds
<1>1. due' \subseteq Schedules /\ UNCHANGED <<listed, enabled, lastRun, clock, backs, vmWas>>
  BY DEF ExecuteFails, SnapInv, SnapshotTypeOK
<1>2. CASE UNCHANGED <<snaps, madeBy, behind>>
  BY <1>1, <1>2, OthersKeep DEF SnapInv, SnapshotTypeOK
<1>3. CASE Makes(s) /\ snaps' = snaps \cup {NewSnapshot(s)} /\ behind' = behind \cup {s}
  <2>0. Serial <= MaxSnaps /\ snaps' = Bigger(s)
    BY <1>3 DEF Makes, Bigger
  <2>1. Serial \in 1..MaxSnaps /\ Bigger(s) \subseteq Snapshot
    BY <2>0, SerialLemma, BiggerLemma
  <2>2. /\ madeBy[s] \in Seq(1..MaxSnaps) /\ Append(madeBy[s], Serial) \in Seq(1..MaxSnaps)
        /\ madeBy' \in [Schedules -> Seq(1..MaxSnaps)]
    BY <1>3, <2>1, AppendLemma DEF Makes, SnapInv, SnapshotTypeOK
  <2>3. SnapshotTypeOK'
    BY <1>1, <1>3, <2>0, <2>1, <2>2 DEF SnapInv, SnapshotTypeOK
  <2>4. ASSUME backs = 0, Apart(s), s \in Matches[s]
        PROVE  LastKept(s, Append(madeBy[s], Serial), snaps')
    <3>1. PICK m \in Seq(1..MaxSnaps) : m = Append(madeBy[s], Serial)
      BY <2>2
    <3>2. LastKept(s, m, Bigger(s) \ Surplus(s, Bigger(s)))
      BY <2>0, <2>4, <3>1, RetentionKeepsLast
    <3>3. QED
      BY <2>0, <3>1, <3>2 DEF LastKept
  <2>5. QED
    BY <1>1, <1>3, <2>0, <2>3, <2>4, MakingKeeps
<1>4. QED
  BY <1>2, <1>3 DEF ExecuteFails

LEMMA SnapStep == SnapInv /\ [SnapshotNext]_snapshotVars => SnapInv'
<1> SUFFICES ASSUME SnapInv, [SnapshotNext]_snapshotVars PROVE SnapInv'
  OBVIOUS
<1> USE SnapshotBounds, NamesAssumption
<1>1. ASSUME NEW s \in Schedules, Execute(s) PROVE SnapInv'
  BY <1>1, ExecuteKeeps
<1>2. ASSUME NEW s \in Schedules,
             TriggerManual(s) \/ RemoveSchedule(s) \/ UpdateSchedule(s)
      PROVE  SnapInv'
  BY <1>2, OthersKeep
  DEF UpdateSchedule, TriggerManual, RemoveSchedule, SnapInv, SnapshotTypeOK
<1>3. ASSUME NEW s \in Schedules, AddSchedule(s) PROVE SnapInv'
  BY <1>3, OthersKeep DEF AddSchedule, SnapInv, SnapshotTypeOK
<1>9. ASSUME NEW s \in Schedules, ExecuteFails(s) PROVE SnapInv'
  BY <1>9, FailureKeeps
<1>4. CASE IntervalTimer
  BY <1>4, OthersKeep DEF IntervalTimer, SnapInv, SnapshotTypeOK
<1>10. ASSUME NEW isUp \in BOOLEAN, PollVM(isUp) PROVE SnapInv'
  BY <1>10, OthersKeep DEF PollVM, SnapInv, SnapshotTypeOK
<1>5. CASE TimePasses
  BY <1>5, OthersKeep DEF TimePasses, SnapInv, SnapshotTypeOK
<1>6. CASE TimeSetBack
  BY <1>6, OthersKeep DEF TimeSetBack, SnapInv, SnapshotTypeOK
<1>7. CASE UNCHANGED snapshotVars
  BY <1>7, OthersKeep DEF snapshotVars, SnapInv, SnapshotTypeOK
<1>8. QED
  BY <1>1, <1>2, <1>3, <1>4, <1>5, <1>6, <1>7, <1>9, <1>10 DEF SnapshotNext

LEMMA SnapInit == SnapshotInit => SnapInv
<1> SUFFICES ASSUME SnapshotInit PROVE SnapInv
  OBVIOUS
<1> USE SnapshotBounds DEF SnapshotInit
<1>1. \A s \in Schedules : /\ madeBy[s] = <<>> /\ DOMAIN madeBy[s] = {}
                           /\ ToSet(madeBy[s]) = {}
  BY DEF ToSet
<1>2. SnapshotTypeOK
  <2>1. madeBy \in [Schedules -> Seq(1..MaxSnaps)]
    OBVIOUS
  <2>2. lastRun \in [Schedules -> 0..MaxTime \cup {Never}]
    OBVIOUS
  <2>3. clock \in 0..MaxTime /\ backs \in 0..MaxBack
    OBVIOUS
  <2>4. QED
    BY <2>1, <2>2, <2>3 DEF SnapshotTypeOK
<1>3. Counted
  <2>1. Taken = {} /\ 1..0 = {} /\ 0 \in 0..MaxSnaps
    BY <1>1 DEF Taken
  <2>2. QED
    BY <2>1 DEF Counted
<1>4. Growing /\ Genuine /\ InTime
  BY <1>1 DEF Growing, Genuine, InTime
<1>5. KeepsLastApart
  BY <1>1 DEF KeepsLastApart, Present, LastOf
<1>6. QED
  BY <1>2, <1>3, <1>4, <1>5 DEF SnapInv

\* The type invariant of the snapshots.
THEOREM SnapshotType == SnapshotSpec => []SnapshotTypeOK
<1>1. SnapInv => SnapshotTypeOK
  BY DEF SnapInv
<1>2. QED
  BY <1>1, SnapInit, SnapStep, PTL DEF SnapshotSpec

\* "Keep last N snapshots per schedule" (snapshot_scheduler.py:6): while the
\* clock is not set back, the last snapshots of a schedule whose name is no prefix
\* of another's are never deleted, whatever fails, and a retention carried through
\* leaves no others of it, for any schedules, names, N and times.
THEOREM LastAreKept == SnapshotSpec => []KeepsLastApart
<1>1. SnapInv => KeepsLastApart
  BY DEF SnapInv
<1>2. QED
  BY <1>1, SnapInit, SnapStep, PTL DEF SnapshotSpec

(***************************************************************************)
(* The samples of a metric.                                                *)
(***************************************************************************)

\* The buckets of a time, and of the start of its minute.
LEMMA FloorLemma ==
  ASSUME NEW t \in Nat, NEW b \in Nat \ {0}
  PROVE  Floor(t, b) \in Nat /\ Floor(t, b) <= t /\ t < Floor(t, b) + b
<1>1. t % b \in 0..(b - 1)
  OBVIOUS
<1>2. t % b <= t
  <2>1. t = b * (t \div b) + (t % b) /\ t \div b \in Nat
    OBVIOUS
  <2>2. b * (t \div b) \in Nat
    BY <2>1
  <2>3. QED
    BY <1>1, <2>1, <2>2
<1>3. QED
  BY <1>1, <1>2 DEF Floor

LEMMA FloorUnique ==
  ASSUME NEW t \in Nat, NEW b \in Nat \ {0}, NEW q \in Nat, NEW r \in 0..(b - 1), t = b * q + r
  PROVE  Floor(t, b) = b * q
<1>1. t = b * (t \div b) + (t % b) /\ t \div b \in Nat /\ t % b \in 0..(b - 1)
  OBVIOUS
<1>2. PICK p \in Nat, u \in 0..(b - 1) : t = b * p + u /\ u = t % b
  BY <1>1
<1>3. CASE p < q
  <2>1. b * q >= b * (p + 1)
    BY <1>3
  <2>2. b * (p + 1) = b * p + b
    OBVIOUS
  <2>3. QED
    BY <1>2, <2>1, <2>2
<1>4. CASE q < p
  <2>1. b * p >= b * (q + 1)
    BY <1>4
  <2>2. b * (q + 1) = b * q + b
    OBVIOUS
  <2>3. QED
    BY <1>2, <2>1, <2>2
<1>5. CASE p = q
  <2>1. b * p = b * q /\ b * p \in Nat
    BY <1>5
  <2>2. Floor(t, b) = t - u
    BY <1>2 DEF Floor
  <2>3. t - u = b * p
    BY <1>2, <2>1
  <2>4. QED
    BY <2>1, <2>2, <2>3
<1>6. QED
  BY <1>3, <1>4, <1>5

LEMMA FloorTwice ==
  ASSUME NEW t \in Nat
  PROVE  Floor(Floor(t, Minute), Hour) = Floor(t, Hour)
<1>0. Minute \in Nat \ {0} /\ Hour \in Nat \ {0} /\ Hour % Minute = 0
  BY MetricsBounds
<1> USE <1>0
<1>1. PICK k \in Nat : Hour = Minute * k
  <2>1. \A a \in Nat, b \in Nat \ {0} : a = b * (a \div b) + (a % b) /\ a \div b \in Nat
    OBVIOUS
  <2>2. Hour = Minute * (Hour \div Minute) + 0 /\ Hour \div Minute \in Nat
    BY <2>1
  <2>3. Minute * (Hour \div Minute) \in Nat
    BY <2>2
  <2>4. QED
    BY <2>2, <2>3
<1>2. PICK q \in Nat, r \in 0..(Hour - 1) : t = Hour * q + r
  <2>1. t = Hour * (t \div Hour) + (t % Hour) /\ t \div Hour \in Nat /\ t % Hour \in 0..(Hour - 1)
    OBVIOUS
  <2>2. QED
    BY <2>1
<1>3. PICK p \in Nat, u \in 0..(Minute - 1) : r = Minute * p + u
  <2>1. r = Minute * (r \div Minute) + (r % Minute) /\ r \div Minute \in Nat /\ r % Minute \in 0..(Minute - 1)
    OBVIOUS
  <2>2. QED
    BY <2>1
<1>4. Minute * p \in 0..(Hour - 1)
  <2>1. Minute * p \in Nat
    OBVIOUS
  <2>2. QED
    BY <1>3, <2>1
<1>5. Hour * q = Minute * (k * q)
  BY <1>1
<1>6. k * q + p \in Nat /\ Minute * (k * q + p) = Minute * (k * q) + Minute * p
  OBVIOUS
<1>7. t = Minute * (k * q + p) + u
  <2>1. Hour * q \in Nat /\ Minute * p \in Nat
    OBVIOUS
  <2>2. QED
    BY <1>2, <1>3, <1>5, <1>6, <2>1
<1>8. Floor(t, Minute) = Minute * (k * q + p)
  <2>1. PICK l \in Nat : l = k * q + p
    BY <1>6
  <2>2. t = Minute * l + u
    BY <1>7, <2>1
  <2>3. Floor(t, Minute) = Minute * l
    BY <2>2, FloorUnique
  <2>4. QED
    BY <2>1, <2>3
<1>9. Floor(t, Minute) = Hour * q + Minute * p
  BY <1>5, <1>6, <1>8
<1>10. Floor(Floor(t, Minute), Hour) = Hour * q
  <2>1. Floor(t, Minute) \in Nat
    BY FloorLemma
  <2>2. QED
    <3>1. PICK v \in 0..(Hour - 1) : v = Minute * p
      BY <1>4
    <3>2. PICK l \in Nat : l = Floor(t, Minute) /\ l = Hour * q + v
      BY <1>9, <2>1, <3>1
    <3>3. Floor(l, Hour) = Hour * q
      BY <3>2, FloorUnique
    <3>4. QED
      BY <3>2, <3>3
<1>11. Floor(t, Hour) = Hour * q
  BY <1>2, FloorUnique
<1>12. QED
  BY <1>10, <1>11

\* The rows of a table: each stands for samples of one bucket, and no sample
\* is in two.
Bucketed(rows, bucket) ==
  /\ \A r \in rows : r \in Row /\ r.of \subseteq Inserted
  /\ \A r \in rows : \A s \in r.of : r.from = Floor(stamp[s], bucket)
  /\ \A r, q \in rows : \A s \in r.of : s \in q.of => r = q

\* No sample is in both tables.
Disjoint(rows, others) == \A r \in rows, q \in others : \A s \in r.of : s \notin q.of
Without(rows, samples) == \A r \in rows : \A s \in r.of : s \notin samples

\* Whoever is nowhere is older than the month, less an hour.
Somewhere(s) == \/ s \in raw
                \/ \E r \in minutes : s \in r.of
                \/ \E r \in hours : s \in r.of

MetricsInv ==
  /\ MetricsTypeOK
  /\ Bucketed(minutes, Minute) /\ Bucketed(hours, Hour)
  /\ Disjoint(minutes, hours)
  /\ Without(minutes, raw) /\ Without(hours, raw)
  /\ \A s \in Inserted : Somewhere(s) \/ stamp[s] + HourWindow < now + Hour

LEMMA StampType ==
  ASSUME MetricsTypeOK
  PROVE  /\ now \in Nat
         /\ \A s \in Inserted : stamp[s] \in Time /\ s \in 1..MaxSamples
         /\ Time \subseteq Nat
BY MetricsBounds DEF MetricsTypeOK, Time, Inserted

LEMMA FloorInTime ==
  ASSUME NEW t \in Time, NEW b \in Nat \ {0} PROVE Floor(t, b) \in Time
BY FloorLemma, MetricsBounds DEF Time

\* The rows made of raw samples.
LEMMA MinuteRowsLemma ==
  ASSUME MetricsInv, NEW old \in SUBSET raw
  PROVE  /\ Bucketed(minutes \cup MinuteRows(old), Minute)
         /\ Disjoint(minutes \cup MinuteRows(old), hours)
         /\ Without(minutes \cup MinuteRows(old), raw \ old)
         /\ \A s \in old : \E r \in MinuteRows(old) : s \in r.of
<1> USE MetricsBounds
<1>1. old \subseteq Inserted
  BY DEF MetricsInv, MetricsTypeOK
<1>2. \A r \in MinuteRows(old) : /\ r.of = {s \in old : Floor(stamp[s], Minute) = r.from}
                                 /\ r.from \in Time /\ r \in Row
  <2>1. TAKE r \in MinuteRows(old)
  <2>2. PICK m \in {Floor(stamp[s], Minute) : s \in old} :
          r = [from |-> m, of |-> {s \in old : Floor(stamp[s], Minute) = m}]
    BY DEF MinuteRows
  <2>3. m \in Time
    BY <1>1, <2>2, StampType, FloorInTime DEF MetricsInv
  <2>4. {s \in old : Floor(stamp[s], Minute) = m} \subseteq 1..MaxSamples
    BY <1>1, StampType DEF MetricsInv
  <2>5. QED
    BY <2>2, <2>3, <2>4 DEF Row
<1>3. \A r \in MinuteRows(old) : \A s \in r.of : s \in old /\ r.from = Floor(stamp[s], Minute)
  BY <1>2
<1>4. \A r, q \in MinuteRows(old) : \A s \in r.of : s \in q.of => r = q
  <2>1. TAKE r, q \in MinuteRows(old)
  <2>2. TAKE s \in r.of
  <2>3. HAVE s \in q.of
  <2>4. r.from = q.from /\ r.of = q.of
    <3>1. Floor(stamp[s], Minute) = r.from /\ Floor(stamp[s], Minute) = q.from
      BY <1>3, <2>2, <2>3
    <3>2. /\ r.of = {u \in old : Floor(stamp[u], Minute) = r.from}
          /\ q.of = {u \in old : Floor(stamp[u], Minute) = q.from}
      BY <1>2
    <3>3. r.from = q.from
      BY <3>1
    <3>4. QED
      BY <3>2, <3>3
  <2>5. QED
    BY <1>2, <2>4 DEF Row
<1>5. \A r \in minutes \cup hours : \A s \in r.of : s \notin old
  BY DEF MetricsInv, Without
<1>6. \A s \in old : \E r \in MinuteRows(old) : s \in r.of
  <2>1. TAKE s \in old
  <2>2. [from |-> Floor(stamp[s], Minute),
         of |-> {u \in old : Floor(stamp[u], Minute) = Floor(stamp[s], Minute)}]
          \in MinuteRows(old)
    BY DEF MinuteRows
  <2>3. QED
    BY <2>2
<1>7. Bucketed(minutes \cup MinuteRows(old), Minute)
  BY <1>1, <1>2, <1>3, <1>4, <1>5 DEF Bucketed, MetricsInv
<1>8. Disjoint(minutes \cup MinuteRows(old), hours)
  BY <1>3, <1>5 DEF Disjoint, MetricsInv
<1>9. Without(minutes \cup MinuteRows(old), raw \ old)
  BY <1>3 DEF Without, MetricsInv
<1>10. QED
  BY <1>6, <1>7, <1>8, <1>9

\* The rows made of rows of minutes.
LEMMA HourRowsLemma ==
  ASSUME MetricsTypeOK, NEW all, Bucketed(all, Minute), NEW old \in SUBSET all
  PROVE  /\ Bucketed(HourRows(old), Hour)
         /\ \A h \in HourRows(old) : \A s \in h.of : \E r \in old : s \in r.of
         /\ \A r \in old : \A s \in r.of : \E h \in HourRows(old) : s \in h.of
<1> USE MetricsBounds
<1> DEFINE Of(h) == UNION {r.of : r \in {q \in old : Floor(q.from, Hour) = h}}
<1>1. \A h \in HourRows(old) : h.from \in Time /\ h = [from |-> h.from, of |-> Of(h.from)]
  <2>1. TAKE h \in HourRows(old)
  <2>2. PICK q \in old : h = [from |-> Floor(q.from, Hour), of |-> Of(Floor(q.from, Hour))]
    BY DEF HourRows
  <2>3. q.from \in Time
    BY DEF Bucketed, Row
  <2>4. QED
    BY <2>2, <2>3, FloorInTime
<1>2. ASSUME NEW h \in HourRows(old), NEW s \in h.of
      PROVE  \E r \in old : s \in r.of /\ h.from = Floor(r.from, Hour)
  <2>1. s \in Of(h.from)
    BY <1>1, <1>2
  <2>2. QED
    BY <2>1
<1>3. ASSUME NEW h \in HourRows(old), NEW s \in h.of
      PROVE  s \in Inserted /\ h.from = Floor(stamp[s], Hour)
  <2>1. PICK r \in old : s \in r.of /\ h.from = Floor(r.from, Hour)
    BY <1>2, <1>3
  <2>2. s \in Inserted /\ r.from = Floor(stamp[s], Minute)
    BY <2>1 DEF Bucketed
  <2>3. stamp[s] \in Nat
    BY <2>2, StampType
  <2>4. QED
    BY <2>1, <2>2, <2>3, FloorTwice
<1>4. \A h \in HourRows(old) : h \in Row /\ h.of \subseteq Inserted
  <2>1. TAKE h \in HourRows(old)
  <2>2. h.of \subseteq Inserted /\ Inserted \subseteq 1..MaxSamples
    BY <1>3, StampType
  <2>3. QED
    BY <1>1, <2>2 DEF Row
<1>5. ASSUME NEW h \in HourRows(old), NEW g \in HourRows(old), NEW s \in h.of, s \in g.of
      PROVE  h = g
  <2>1. h.from = g.from
    BY <1>3, <1>5
  <2>2. QED
    BY <1>1, <2>1
<1>6. ASSUME NEW r \in old, NEW s \in r.of PROVE \E h \in HourRows(old) : s \in h.of
  <2>1. [from |-> Floor(r.from, Hour), of |-> Of(Floor(r.from, Hour))] \in HourRows(old)
    BY DEF HourRows
  <2>2. s \in Of(Floor(r.from, Hour))
    BY <1>6
  <2>3. QED
    BY <2>1, <2>2
<1> HIDE DEF Of
<1>7. QED
  BY <1>2, <1>3, <1>4, <1>5, <1>6 DEF Bucketed

LEMMA DownsampleKeeps == MetricsInv /\ Downsample => MetricsInv'
<1> SUFFICES ASSUME MetricsInv, Downsample PROVE MetricsInv'
  OBVIOUS
<1> USE MetricsBounds
<1> DEFINE oldRaw  == {s \in raw : Older(stamp[s], RawWindow)}
           all     == minutes \cup MinuteRows(oldRaw)
           oldRows == {r \in all : Older(r.from, MinuteWindow)}
           total   == hours \cup HourRows(oldRows)
<1>1. /\ raw' = raw \ oldRaw
      /\ minutes' = all \ oldRows
      /\ hours' = {r \in total : ~Older(r.from, HourWindow)}
      /\ UNCHANGED <<now, stamp>>
  BY DEF Downsample
<1>2. oldRaw \in SUBSET raw /\ oldRows \in SUBSET all
  OBVIOUS
<1> HIDE DEF oldRaw, oldRows
<1>3. /\ Bucketed(all, Minute) /\ Disjoint(all, hours) /\ Without(all, raw \ oldRaw)
      /\ \A s \in oldRaw : \E r \in all : s \in r.of
  BY <1>2, MinuteRowsLemma
<1>4. minutes \subseteq all
  OBVIOUS
<1> HIDE DEF all
<1>5. /\ Bucketed(HourRows(oldRows), Hour)
      /\ \A h \in HourRows(oldRows) : \A s \in h.of : \E r \in oldRows : s \in r.of
      /\ \A r \in oldRows : \A s \in r.of : \E h \in HourRows(oldRows) : s \in h.of
  BY <1>2, <1>3, HourRowsLemma DEF MetricsInv
<1>6. Disjoint(all \ oldRows, HourRows(oldRows))
  BY <1>2, <1>3, <1>5 DEF Disjoint, Bucketed
<1>7. Disjoint(HourRows(oldRows), hours)
  BY <1>2, <1>3, <1>5 DEF Disjoint
<1>8. Bucketed(total, Hour)
  BY <1>5, <1>7 DEF Bucketed, Disjoint, MetricsInv
<1>9. Without(total, raw \ oldRaw)
  BY <1>2, <1>3, <1>5 DEF Without, MetricsInv
<1>10. Disjoint(all \ oldRows, total)
  BY <1>3, <1>6 DEF Disjoint
<1>11. \A s \in raw \cup {u \in Inserted : \E r \in minutes \cup hours : u \in r.of} :
         s \in raw \ oldRaw \/ (\E r \in all \ oldRows : s \in r.of) \/ (\E r \in total : s \in r.of)
  BY <1>3, <1>4, <1>5
<1> HIDE DEF total
<1>12. hours' \subseteq total /\ minutes' \subseteq all
  BY <1>1
<1>13. MetricsTypeOK'
  BY <1>1, <1>3, <1>8, <1>12 DEF MetricsTypeOK, MetricsInv, Bucketed, Inserted
<1>14. Bucketed(minutes, Minute)' /\ Bucketed(hours, Hour)'
  BY <1>1, <1>3, <1>8, <1>12 DEF Bucketed, Inserted
<1>15. Disjoint(minutes, hours)' /\ Without(minutes, raw)' /\ Without(hours, raw)'
  BY <1>1, <1>3, <1>9, <1>10, <1>12 DEF Disjoint, Without
<1>16. ASSUME NEW s \in Inserted
       PROVE  Somewhere(s)' \/ stamp[s] + HourWindow < now + Hour
  <2>1. CASE Somewhere(s)
    <3>1. CASE \E r \in total : s \in r.of
      <4>1. PICK r \in total : s \in r.of
        BY <3>1
      <4>2. CASE ~Older(r.from, HourWindow)
        BY <1>1, <4>1, <4>2 DEF Somewhere
      <4>3. CASE Older(r.from, HourWindow)
        <5>1. r.from = Floor(stamp[s], Hour) /\ stamp[s] \in Nat /\ now \in Nat
          BY <1>8, <4>1, StampType DEF Bucketed, MetricsInv
        <5>2. r.from \in Nat /\ stamp[s] < r.from + Hour
          BY <5>1, FloorLemma
        <5>3. QED
          BY <4>3, <5>1, <5>2 DEF Older
      <4>4. QED
        BY <4>2, <4>3
    <3>2. CASE s \in raw \ oldRaw \/ \E r \in all \ oldRows : s \in r.of
      BY <1>1, <3>2 DEF Somewhere
    <3>3. QED
      BY <1>11, <2>1, <3>1, <3>2 DEF Somewhere
  <2>2. CASE ~Somewhere(s)
    BY <2>2 DEF MetricsInv
  <2>3. QED
    BY <2>1, <2>2
<1>17. QED
  BY <1>1, <1>13, <1>14, <1>15, <1>16 DEF MetricsInv, Inserted

LEMMA InsertKeeps ==
  ASSUME MetricsInv, NEW lag \in 0..MaxLag, InsertSample(lag)
  PROVE  MetricsInv'
<1> USE MetricsBounds
<1>1. PICK n \in 0..MaxSamples : stamp \in [1..n -> Time] /\ Inserted = 1..n
  BY DEF MetricsInv, MetricsTypeOK, Inserted
<1>2. Cardinality(Inserted) = n
  BY <1>1, FS_Interval
<1>3. /\ n < MaxSamples /\ lag <= now
      /\ stamp' = [i \in 1..(n + 1) |-> IF i = n + 1 THEN now - lag ELSE stamp[i]]
      /\ raw' = raw \cup {n + 1}
      /\ UNCHANGED <<now, minutes, hours>>
  BY <1>2 DEF InsertSample
<1>4. now - lag \in Time /\ now \in Time
  BY <1>3 DEF MetricsInv, MetricsTypeOK, Time
<1>5. /\ n + 1 \in 0..MaxSamples /\ stamp' \in [1..(n + 1) -> Time]
      /\ Inserted' = 1..(n + 1)
      /\ \A s \in 1..n : stamp'[s] = stamp[s]
      /\ n + 1 \notin 1..n /\ 1..(n + 1) = 1..n \cup {n + 1}
  BY <1>1, <1>3, <1>4 DEF Inserted
<1>6. MetricsTypeOK'
  <2>1. raw \subseteq Inserted /\ minutes \subseteq Row /\ hours \subseteq Row
    BY DEF MetricsInv, MetricsTypeOK
  <2>2. QED
    BY <1>1, <1>3, <1>4, <1>5, <2>1 DEF MetricsTypeOK
<1>7. \A r \in minutes \cup hours : \A s \in r.of : s \in 1..n
  BY <1>1 DEF MetricsInv, Bucketed
<1>8. Bucketed(minutes, Minute)' /\ Bucketed(hours, Hour)'
  BY <1>1, <1>3, <1>5, <1>7 DEF MetricsInv, Bucketed
<1>9. Disjoint(minutes, hours)' /\ Without(minutes, raw)' /\ Without(hours, raw)'
  BY <1>3, <1>5, <1>7 DEF MetricsInv, Disjoint, Without
<1>10. \A s \in Inserted' : Somewhere(s)' \/ stamp'[s] + HourWindow < now' + Hour
  BY <1>1, <1>3, <1>5 DEF MetricsInv, Somewhere
<1>11. QED
  BY <1>6, <1>8, <1>9, <1>10 DEF MetricsInv

LEMMA MetricsStep == MetricsInv /\ [MetricsNext]_metricsVars => MetricsInv'
<1> SUFFICES ASSUME MetricsInv, [MetricsNext]_metricsVars PROVE MetricsInv'
  OBVIOUS
<1> USE MetricsBounds
<1>1. CASE ClockTicks
  <2>1. /\ now \in Nat /\ now' = now + 1 /\ now' \in Time
        /\ UNCHANGED <<stamp, raw, minutes, hours>>
    BY <1>1 DEF ClockTicks, MetricsInv, MetricsTypeOK, Time
  <2>2. MetricsTypeOK'
    BY <2>1 DEF MetricsInv, MetricsTypeOK, Inserted
  <2>3. \A s \in Inserted : stamp[s] \in Nat
    BY StampType DEF MetricsInv
  <2>4. \A s \in Inserted' : Somewhere(s)' \/ stamp'[s] + HourWindow < now' + Hour
    BY <2>1, <2>3 DEF MetricsInv, Somewhere, Inserted
  <2>5. QED
    BY <2>1, <2>2, <2>4 DEF MetricsInv, Bucketed, Disjoint, Without, Inserted
<1>2. CASE UNCHANGED metricsVars
  BY <1>2 DEF metricsVars, MetricsInv, MetricsTypeOK, Bucketed, Disjoint, Without,
              Somewhere, Inserted
<1>3. QED
  BY <1>1, <1>2, InsertKeeps, DownsampleKeeps DEF MetricsNext

LEMMA MetricsStart == MetricsInit => MetricsInv
<1> SUFFICES ASSUME MetricsInit PROVE MetricsInv
  OBVIOUS
<1> USE MetricsBounds DEF MetricsInit
<1>1. Inserted = {} /\ 1..0 = {}
  BY DEF Inserted
<1>2. MetricsTypeOK
  <2>1. 0 \in 0..MaxSamples /\ stamp \in [1..0 -> Time]
    OBVIOUS
  <2>2. QED
    BY <2>1 DEF MetricsTypeOK, Time
<1>3. QED
  BY <1>1, <1>2 DEF MetricsInv, Bucketed, Disjoint, Without

\* What the invariant says of the number of copies.
With(rows, s) == {r \in rows : s \in r.of}

LEMMA CopiesLemma ==
  ASSUME NEW rows, NEW s, \A r, q \in With(rows, s) : r = q
  PROVE  Cardinality(With(rows, s)) = IF \E r \in rows : s \in r.of THEN 1 ELSE 0
<1> USE DEF With
<1>1. CASE \E r \in rows : s \in r.of
  <2>1. PICK r \in rows : s \in r.of
    BY <1>1
  <2>2. With(rows, s) = {r}
    BY <2>1 DEF With
  <2>3. Cardinality({r}) = 1
    BY FS_Singleton
  <2>4. QED
    BY <2>1, <2>2, <2>3
<1>2. CASE ~\E r \in rows : s \in r.of
  <2>1. With(rows, s) = {}
    BY <1>2 DEF With
  <2>2. QED
    BY <1>2, <2>1, FS_EmptySet
<1>3. QED
  BY <1>1, <1>2

LEMMA OnceLemma == MetricsInv => SampleOnce
<1> SUFFICES ASSUME MetricsInv, NEW s \in Inserted
             PROVE  /\ Copies(s) <= 1
                    /\ Copies(s) = 0 => stamp[s] + HourWindow < now + Hour
  BY DEF SampleOnce
<1> DEFINE m == Cardinality(With(minutes, s))
           h == Cardinality(With(hours, s))
<1>1. /\ m = IF \E r \in minutes : s \in r.of THEN 1 ELSE 0
      /\ h = IF \E r \in hours : s \in r.of THEN 1 ELSE 0
  <2>1. \A r, q \in With(minutes, s) : r = q
    BY DEF MetricsInv, Bucketed, With
  <2>2. \A r, q \in With(hours, s) : r = q
    BY DEF MetricsInv, Bucketed, With
  <2>3. m = IF \E r \in minutes : s \in r.of THEN 1 ELSE 0
    BY <2>1, CopiesLemma
  <2>4. h = IF \E r \in hours : s \in r.of THEN 1 ELSE 0
    BY <2>2, CopiesLemma
  <2>5. QED
    BY <2>3, <2>4
<1>2. Copies(s) = m + h + IF s \in raw THEN 1 ELSE 0
  BY DEF Copies, With
<1> HIDE DEF m, h
<1>3. ~(\E r \in minutes : s \in r.of) \/ ~(\E r \in hours : s \in r.of)
  BY DEF MetricsInv, Disjoint
<1>4. s \in raw => ~(\E r \in minutes : s \in r.of) /\ ~(\E r \in hours : s \in r.of)
  BY DEF MetricsInv, Without
<1>5. Somewhere(s) \/ stamp[s] + HourWindow < now + Hour
  BY DEF MetricsInv
<1>6. QED
  BY <1>1, <1>2, <1>3, <1>4, <1>5 DEF Somewhere

\* The type invariant of the store.
THEOREM MetricsType == MetricsSpec => []MetricsTypeOK
<1>1. MetricsInv => MetricsTypeOK
  BY DEF MetricsInv
<1>2. QED
  BY <1>1, MetricsStart, MetricsStep, PTL DEF MetricsSpec

\* However often and irregularly the store is downsampled and however late a
\* sample comes, no sample is counted twice, and none is lost early
\* (metrics_store.py:372-434), for any windows and buckets that nest.
THEOREM SamplesCountOnce == MetricsSpec => []SampleOnce
<1>1. QED
  BY OnceLemma, MetricsStart, MetricsStep, PTL DEF MetricsSpec

(***************************************************************************)
(* The components side by side.                                            *)
(***************************************************************************)

\* A step of one component is a step of it and none of the others, so that what
\* is true of a component by itself is true of it here.
LEMMA DesktopParts ==
  DesktopSpec => /\ Spec /\ GuardianSpec /\ SnapshotSpec
                 /\ ManagerSpec /\ TableSpec /\ MetricsSpec
<1>1. DesktopInit => /\ Init /\ GuardianInit /\ SnapshotInit
                     /\ ManagerInit /\ TableInit /\ MetricsInit
  BY DEF DesktopInit
<1>2. [DesktopNext]_desktopVars => [Next]_vars
  BY DEF DesktopNext, Next, Step, desktopVars, InState, InGuardian, InSnapshot, InManager,
         InTable, InMetrics
<1>3. [DesktopNext]_desktopVars => [GuardianNext]_guardianVars
  BY DEF DesktopNext, GuardianNext, Monitor, StopSteps, RestartSteps, Kill, Callers, desktopVars,
         InState, InGuardian, InSnapshot, InManager, InTable, InMetrics
<1>4. [DesktopNext]_desktopVars => [SnapshotNext]_snapshotVars
  BY DEF DesktopNext, SnapshotNext, desktopVars, InState, InGuardian, InSnapshot, InManager,
         InTable, InMetrics
<1>5. [DesktopNext]_desktopVars => [ManagerNext]_managerVars
  BY DEF DesktopNext, ManagerNext, desktopVars, InState, InGuardian, InSnapshot, InManager,
         InTable, InMetrics
<1>6. [DesktopNext]_desktopVars => [TableNext]_tableVars
  BY DEF DesktopNext, TableNext, desktopVars, InState, InGuardian, InSnapshot, InManager,
         InTable, InMetrics
<1>7. [DesktopNext]_desktopVars => [MetricsNext]_metricsVars
  BY DEF DesktopNext, MetricsNext, desktopVars, InState, InGuardian, InSnapshot, InManager,
         InTable, InMetrics
<1>8. QED
  BY <1>1, <1>2, <1>3, <1>4, <1>5, <1>6, <1>7, PTL
  DEF DesktopSpec, Spec, GuardianSpec, SnapshotSpec, ManagerSpec, TableSpec, MetricsSpec

\* Every variable of the desktop program's components keeps its type.
THEOREM DesktopType == DesktopSpec => []DesktopTypeOK
<1>1. /\ TypeOK /\ GuardianTypeOK /\ SnapshotTypeOK
      /\ ManagerTypeOK /\ TableTypeOK /\ MetricsTypeOK
      => DesktopTypeOK
  BY DEF DesktopTypeOK
<1>2. QED
  BY <1>1, DesktopParts, TypeCorrect, GuardianType, SnapshotType, ManagerType, TableType,
     MetricsType, PTL

\* What the run checks of the components beside their types and the liveness
\* holds of every behaviour of them together: what a crash leaves of the saved
\* state, the processes stop() ends, the snapshots a schedule keeps, the ports,
\* processes and statuses of the machines, the bridges, and the samples.
THEOREM DesktopSafe ==
  DesktopSpec => /\ [](FirstCrashSafe /\ OnlySlippedRemain /\ KeepsLastApart)
                 /\ [](FreshPortsApart /\ LaunchedTracked /\ StatusBacked)
                 /\ [](LoopsOwned /\ SampleOnce)
BY DesktopParts, FirstCrashLosesNothing, StopReachesTheRest, LastAreKept, PortsAreApart,
   NoneIsLost, StatusIsBacked, LoopsAreOwned, SamplesCountOnce, PTL
=============================================================================
