------------------------- MODULE ManagedHostProofs -------------------------
(***************************************************************************)
(* Theorems about ManagedHost, for any number of users, processes, ports,  *)
(* snapshots kept and writes.  The inductive invariant says whose each     *)
(* process is (ProcInv, OwnInv), that no two of them hold one port         *)
(* (PortInv), what an operation has in its hands at each place (PlaceInv)  *)
(* and where the directories are then (FileInv).  Each part has a lemma:   *)
(* the steps keep it, given the parts before it.                           *)
(***************************************************************************)
EXTENDS ManagedHost, FiniteSetTheorems, SequenceTheorems, TLAPS

(* The host starts with nothing: no process, no operation, no file. *)
LEMMA InitIInv == Init => IInv
<1> SUFFICES ASSUME Init PROVE IInv
  OBVIOUS
<1>1. TypeOK
  BY HostAssumption, EmptySeq DEF Init, TypeOK, OpTypes, HostTypes, FileTypes, Processes, Labels, Kinds, NoProc
<1>2. PlaceInv /\ ProcInv /\ OwnInv /\ PortInv /\ AliveInv /\ FileInv /\ DigestInv
  BY DEF Init, PlaceInv, ProcInv, OwnInv, PortInv, AliveInv, FileInv, DigestInv, NoProc, Present,
         Live, Spawned, HasPort, Starting, OnFiles
<1>3. CountInv
  <2>1. InUse = {}
    BY DEF Init, InUse, Starting
  <2>2. QED
    BY <2>1, FS_EmptySet, HostAssumption DEF CountInv
<1>4. ListInv
  <2>1. ASSUME NEW u \in Users PROVE DOMAIN snapshots[u] = {}
    BY DEF Init
  <2>2. QED
    BY <2>1 DEF Init, SnapshotIntact, ListInv
<1>5. QED
  BY <1>1, <1>2, <1>3, <1>4 DEF IInv

-----------------------------------------------------------------------------
(* Types *)

(* The end of an operation leaves it well typed. *)
LEMMA ClearTypes ==
  ASSUME OpTypes, NEW u \in Users, NEW label \in Labels, Clear(u, label)
  PROVE  OpTypes'
BY HostAssumption DEF OpTypes, Clear, Goto, Kinds

(* The same when the operation is over. *)
LEMMA EndTypes ==
  ASSUME OpTypes, NEW u \in Users, End(u)
  PROVE  OpTypes'
<1>1. "idle" \in Labels
  BY DEF Labels
<1>2. QED
  BY <1>1, ClearTypes DEF End

(* The same when the node an operation asked for is there. *)
LEMMA EnsuredTypes ==
  ASSUME OpTypes, NEW u \in Users, Ensured(u)
  PROVE  OpTypes'
<1>1. {"forward", "check", "idle"} \subseteq Labels
  BY DEF Labels
<1>2. QED
  BY <1>1, ClearTypes DEF Ensured

(* An operation that goes on and keeps all it has is well typed. *)
LEMMA GotoTypes ==
  ASSUME OpTypes, NEW u \in Users, NEW label \in Labels, Goto(u, label), UNCHANGED opRest
  PROVE  OpTypes'
BY DEF OpTypes, Goto, opRest

(* Every step keeps the types of what the operations have. *)
LEMMA StepOpTypes == OpTypes /\ HostTypes /\ FileTypes /\ PlaceInv /\ [Next]_vars => OpTypes'
<1> SUFFICES ASSUME OpTypes /\ HostTypes /\ FileTypes /\ PlaceInv, [Next]_vars PROVE OpTypes'
  OBVIOUS
<1> USE HostAssumption DEF opRest, opVars, fileVars
<1>a. ASSUME UNCHANGED <<opVars>> PROVE OpTypes'
  BY <1>a DEF OpTypes
<1>1. ASSUME NEW u \in Users, NEW k \in Asks[u], Begin(u, k) PROVE OpTypes'
  <2>1. {"ensure", "stop", "purge"} \subseteq Labels
    BY DEF Labels, Starting, OnFiles
  <2>2. QED
    BY <1>1, <2>1, EndTypes, EnsuredTypes DEF Begin, AfterStop, FirstLabel, OpTypes, Goto, Kinds, PlaceInv,
       HostTypes, FileTypes, Nodes, SpawnIn, opRest
<1>2. ASSUME NEW u \in Users, Restart(u) PROVE OpTypes'
  <2>1. {"ensure"} \subseteq Labels
    BY DEF Labels, Starting, OnFiles
  <2>2. QED
    BY <1>2, <2>1, EndTypes, EnsuredTypes DEF Restart, AfterStop, FirstLabel, OpTypes, Goto, Kinds, PlaceInv,
       HostTypes, FileTypes, Nodes, SpawnIn, opRest
<1>3. ASSUME NEW u \in Users, Ensure(u) PROVE OpTypes'
  <2>1. {"port"} \subseteq Labels
    BY DEF Labels, Starting, OnFiles
  <2>2. CASE End(u)
    BY <2>2, EndTypes
  <2>3. CASE Ensured(u)
    BY <2>3, EnsuredTypes
  <2>4. ASSUME NEW label \in Labels, Goto(u, label), UNCHANGED opRest PROVE OpTypes'
    BY <2>4, GotoTypes
  <2>5. QED
    BY <1>3, <2>1, <2>2, <2>3, <2>4 DEF Ensure
<1>4. ASSUME NEW u \in Users, PickPort(u) PROVE OpTypes'
  <2>1. {"spawn"} \subseteq Labels
    BY DEF Labels, Starting, OnFiles
  <2>2. QED
    BY <1>4, <2>1, EndTypes, EnsuredTypes DEF PickPort, AfterStop, FirstLabel, OpTypes, Goto, Kinds, PlaceInv,
       HostTypes, FileTypes, Nodes, SpawnIn, opRest
<1>5. ASSUME NEW u \in Users, Spawn(u) PROVE OpTypes'
  <2>1. {"poll"} \subseteq Labels
    BY DEF Labels, Starting, OnFiles
  <2>2. CASE End(u)
    BY <2>2, EndTypes
  <2>3. CASE SpawnIn(u)
    <3>1. /\ pc' = [pc EXCEPT ![u] = "poll"] /\ UNCHANGED <<kind, port, was, seen>>
          /\ \E p \in Procs : child' = [child EXCEPT ![u] = p]
      BY <2>3 DEF SpawnIn, Goto
    <3>2. QED
      BY <2>1, <3>1 DEF OpTypes
  <2>4. QED
    BY <1>5, <2>2, <2>3 DEF Spawn
<1>6. ASSUME NEW u \in Users, Poll(u) PROVE OpTypes'
  <2>1. {"answered"} \subseteq Labels
    BY DEF Labels, Starting, OnFiles
  <2>2. CASE End(u)
    BY <2>2, EndTypes
  <2>4. ASSUME NEW label \in Labels, Goto(u, label), UNCHANGED opRest PROVE OpTypes'
    BY <2>4, GotoTypes
  <2>5. QED
    BY <1>6, <2>1, <2>2, <2>4 DEF Poll
<1>7. ASSUME NEW u \in Users, Register(u) PROVE OpTypes'
  BY <1>7, EnsuredTypes DEF Register
<1>8. ASSUME NEW u \in Users, Answer(u) PROVE OpTypes'
  BY <1>8, EndTypes DEF Answer
<1>9. ASSUME NEW u \in Users, Stop(u) PROVE OpTypes'
  <2>1. {"digest", "load", "stopped", "exiting"} \subseteq Labels
    BY DEF Labels, Starting, OnFiles
  <2>2. AfterStop(u) \in Labels
    BY <1>9, <2>1 DEF Stop, AfterStop, PlaceInv
  <2>3. CASE node[u] = None
    BY <1>9, <2>2, <2>3 DEF Stop, OpTypes, Goto
  <2>4. CASE node[u] # None
    <3>1. node[u].proc \in Procs
      BY <2>4 DEF HostTypes, Nodes
    <3>2. QED
      BY <1>9, <2>1, <2>4, <3>1 DEF Stop, OpTypes, Goto
  <2>5. QED
    BY <2>3, <2>4
<1>10. ASSUME NEW u \in Users, Exited(u) PROVE OpTypes'
  <2>1. {"digest", "load", "stopped"} \subseteq Labels
    BY DEF Labels, Starting, OnFiles
  <2>2. QED
    BY <1>10, <2>1, EndTypes, EnsuredTypes DEF Exited, AfterStop, FirstLabel, OpTypes, Goto, Kinds, PlaceInv,
       HostTypes, FileTypes, Nodes, SpawnIn, opRest
<1>11. ASSUME NEW u \in Users, StopFails(u) PROVE OpTypes'
  BY <1>11, EndTypes DEF StopFails
<1>12. ASSUME NEW u \in Users, Digest(u) PROVE OpTypes'
  <2>1. {"resume", "archive"} \subseteq Labels
    BY DEF Labels, Starting, OnFiles
  <2>2. QED
    BY <1>12, <2>1, EndTypes, EnsuredTypes DEF Digest, AfterStop, FirstLabel, OpTypes, Goto, Kinds, PlaceInv,
       HostTypes, FileTypes, Nodes, SpawnIn, opRest
<1>13. ASSUME NEW u \in Users, Archive(u) PROVE OpTypes'
  <2>1. {"prune", "resume"} \subseteq Labels
    BY DEF Labels
  <2>2. UNCHANGED <<kind, child, port, was>> /\ (Goto(u, "prune") \/ Goto(u, "resume"))
        /\ seen' = [seen EXCEPT ![u] = None]
    BY <1>13 DEF Archive
  <2>3. QED
    BY <2>1, <2>2 DEF OpTypes, Goto
<1>31. ASSUME NEW u \in Users, Prune(u) PROVE OpTypes'
  <2>1. {"unlist", "resume"} \subseteq Labels
    BY DEF Labels
  <2>2. UNCHANGED opRest /\ (Goto(u, "unlist") \/ Goto(u, "resume"))
    BY <1>31 DEF Prune
  <2>3. QED
    BY <2>1, <2>2, GotoTypes
<1>32. ASSUME NEW u \in Users, Unlist(u) PROVE OpTypes'
  <2>1. {"prune", "resume"} \subseteq Labels
    BY DEF Labels
  <2>2. UNCHANGED opRest /\ (Goto(u, "prune") \/ Goto(u, "resume"))
    BY <1>32 DEF Unlist
  <2>3. QED
    BY <2>1, <2>2, GotoTypes
<1>14. ASSUME NEW u \in Users, Load(u) PROVE OpTypes'
  <2>1. {"swapOut", "resume"} \subseteq Labels
    BY DEF Labels, Starting, OnFiles
  <2>2. /\ UNCHANGED <<kind, child, port, was>>
        /\ Goto(u, "swapOut") \/ Goto(u, "resume")
    BY <1>14 DEF Load
  <2>3. seen' \in [Users -> States \cup {None}]
    <3>1. CASE UNCHANGED seen
      BY <3>1 DEF OpTypes
    <3>2. ASSUME NEW s \in ToSet(snapshots[u]), seen' = [seen EXCEPT ![u] = s.content]
          PROVE  seen' \in [Users -> States \cup {None}]
      <4>1. s \in Snapshots
        BY <3>2 DEF FileTypes, ToSet
      <4>2. QED
        BY <3>2, <4>1 DEF OpTypes, Snapshots
    <3>3. QED
      BY <1>14, <3>1, <3>2 DEF Load
  <2>4. QED
    BY <2>1, <2>2, <2>3 DEF OpTypes, Goto
<1>15. ASSUME NEW u \in Users, SwapOut(u) PROVE OpTypes'
  <2>1. {"swapIn"} \subseteq Labels
    BY DEF Labels, Starting, OnFiles
  <2>2. QED
    BY <1>15, <2>1, EndTypes, EnsuredTypes DEF SwapOut, AfterStop, FirstLabel, OpTypes, Goto, Kinds, PlaceInv,
       HostTypes, FileTypes, Nodes, SpawnIn, opRest
<1>16. ASSUME NEW u \in Users, SwapIn(u) PROVE OpTypes'
  <2>1. {"resume", "drop"} \subseteq Labels
    BY DEF Labels, Starting, OnFiles
  <2>2. UNCHANGED <<kind, child, port, was>> /\ (Goto(u, "drop") \/ Goto(u, "resume"))
        /\ seen' = [seen EXCEPT ![u] = None]
    BY <1>16 DEF SwapIn
  <2>3. QED
    BY <2>1, <2>2 DEF OpTypes, Goto
<1>17. ASSUME NEW u \in Users, Drop(u) PROVE OpTypes'
  <2>1. {"resume"} \subseteq Labels
    BY DEF Labels, Starting, OnFiles
  <2>2. QED
    BY <1>17, <2>1, EndTypes, EnsuredTypes DEF Drop, AfterStop, FirstLabel, OpTypes, Goto, Kinds, PlaceInv,
       HostTypes, FileTypes, Nodes, SpawnIn, opRest
<1>18. ASSUME NEW u \in Users, Resume(u) PROVE OpTypes'
  <2>1. {"ensure"} \subseteq Labels
    BY DEF Labels, Starting, OnFiles
  <2>2. CASE End(u)
    BY <2>2, EndTypes
  <2>4. ASSUME NEW label \in Labels, Goto(u, label), UNCHANGED opRest PROVE OpTypes'
    BY <2>4, GotoTypes
  <2>5. QED
    BY <1>18, <2>1, <2>2, <2>4 DEF Resume
<1>19. ASSUME NEW u \in Users, Check(u) PROVE OpTypes'
  <2>1. {"stop"} \subseteq Labels
    BY DEF Labels, Starting, OnFiles
  <2>2. CASE End(u)
    BY <2>2, EndTypes
  <2>4. ASSUME NEW label \in Labels, Goto(u, label), UNCHANGED opRest PROVE OpTypes'
    BY <2>4, GotoTypes
  <2>5. QED
    BY <1>19, <2>1, <2>2, <2>4 DEF Check
<1>20. ASSUME NEW u \in Users, Purge(u) PROVE OpTypes'
  BY <1>20, EndTypes DEF Purge
<1>21. ASSUME NEW p \in Procs, Open(p) \/ Write(p) \/ Exit(p) \/ ExitEvent(p) \/ Forget(p) PROVE OpTypes'
  BY <1>a, <1>21 DEF Open, Write, Exit, ExitEvent, Forget
<1>22. CASE Reboot
  BY <1>22 DEF Reboot, OpTypes, Labels, Kinds
<1>23. CASE UNCHANGED vars
  BY <1>a, <1>23 DEF vars
<1>99. QED
  BY <1>1, <1>2, <1>3, <1>4, <1>5, <1>6, <1>7, <1>8, <1>9, <1>10, <1>11, <1>12, <1>13, <1>14, <1>15, <1>16,
     <1>31, <1>32, <1>17, <1>18, <1>19, <1>20, <1>21, <1>22, <1>23 DEF Next, OperationStep

(* A process that changes how it lives is a process. *)
LEMMA LifeTypes ==
  ASSUME HostTypes, NEW p \in Procs, NEW l \in {"open", "dead", "gone"}
  PROVE  [proc EXCEPT ![p].life = l] \in [Procs -> Processes]
<1>1. proc[p] \in Processes
  BY DEF HostTypes
<1>2. [proc[p] EXCEPT !.life = l] \in Processes
  BY <1>1 DEF Processes
<1>3. QED
  BY <1>2 DEF HostTypes

(* Every step keeps the types of the registry and the processes. *)
LEMMA StepHostTypes == TypeOK /\ PlaceInv /\ ProcInv /\ [Next]_vars => HostTypes'
<1> SUFFICES ASSUME TypeOK /\ PlaceInv /\ ProcInv, [Next]_vars PROVE HostTypes'
  OBVIOUS
<1> USE HostAssumption DEF opRest, opVars, fileVars, TypeOK
<1>a. ASSUME UNCHANGED <<node, proc, orphans, timer>> PROVE HostTypes'
  BY <1>a DEF HostTypes
<1>1. ASSUME NEW u \in Users, Restart(u) PROVE HostTypes'
  BY <1>1 DEF Restart, HostTypes
<1>2. ASSUME NEW u \in Users, Spawn(u) PROVE HostTypes'
  <2>1. CASE UNCHANGED proc
    BY <1>2, <2>1 DEF Spawn, SpawnIn, HostTypes
  <2>2. CASE SpawnIn(u)
    <3>1. PICK p \in Procs : proc' = [proc EXCEPT ![p] = [user |-> u, port |-> port[u], life |-> "spawned"]]
      BY <2>2 DEF SpawnIn
    <3>2. [user |-> u, port |-> port[u], life |-> "spawned"] \in Processes
      BY DEF Processes, OpTypes
    <3>3. QED
      BY <1>2, <3>1, <3>2 DEF Spawn, HostTypes
  <2>3. QED
    BY <1>2, <2>1, <2>2 DEF Spawn
<1>3. ASSUME NEW u \in Users, Poll(u) PROVE HostTypes'
  BY <1>3 DEF Poll, HostTypes, PlaceInv, Spawned
<1>4. ASSUME NEW u \in Users, Register(u) PROVE HostTypes'
  <2>1. [proc |-> child[u], port |-> port[u], stopping |-> FALSE] \in Nodes
    BY <1>4 DEF Register, PlaceInv, Spawned, HasPort, Nodes
  <2>2. QED
    BY <1>4, <2>1 DEF Register, HostTypes
<1>5. ASSUME NEW u \in Users, Stop(u) PROVE HostTypes'
  <2>1. CASE node[u] # None
    <3>1. [node[u] EXCEPT !.stopping = TRUE] \in Nodes
      BY <2>1 DEF HostTypes, Nodes
    <3>2. QED
      BY <1>5, <2>1, <3>1 DEF Stop, HostTypes
  <2>2. QED
    BY <1>5, <2>1 DEF Stop, HostTypes
<1>6. ASSUME NEW u \in Users, Exited(u) PROVE HostTypes'
  BY <1>6 DEF Exited, HostTypes
<1>7. ASSUME NEW p \in Procs, Open(p) PROVE HostTypes'
  BY <1>7, LifeTypes DEF Open, HostTypes
<1>8. ASSUME NEW p \in Procs, Exit(p) PROVE HostTypes'
  BY <1>8, LifeTypes DEF Exit, HostTypes
<1>9. ASSUME NEW p \in Procs, ExitEvent(p) PROVE HostTypes'
  <2>1. proc[p].user \in Users
    BY <1>9 DEF ExitEvent, ProcInv
  <2>3. proc' \in [Procs -> Processes]
    BY <1>9, LifeTypes DEF ExitEvent
  <2>2. QED
    BY <1>9, <2>1, <2>3 DEF ExitEvent, HostTypes
<1>10. ASSUME NEW p \in Procs, Forget(p) PROVE HostTypes'
  <2>1. NoProc \in Processes
    BY DEF NoProc, Processes
  <2>2. QED
    BY <1>10, <2>1 DEF Forget, HostTypes
<1>11. ASSUME NEW u \in Users,
          \/ Ensure(u) \/ PickPort(u) \/ Answer(u) \/ StopFails(u) \/ Digest(u) \/ Archive(u) \/ Prune(u)
          \/ Unlist(u) \/ Load(u) \/ SwapOut(u) \/ SwapIn(u) \/ Drop(u) \/ Resume(u) \/ Check(u) \/ Purge(u)
          \/ (\E k \in Asks[u] : Begin(u, k))
     PROVE HostTypes'
  BY <1>a, <1>11 DEF Begin, Ensure, PickPort, Answer, StopFails, Digest, Archive, Prune, Unlist, Load, SwapOut,
     SwapIn, Drop, Resume, Check, Purge
<1>12. ASSUME NEW p \in Procs, Write(p) PROVE HostTypes'
  BY <1>a, <1>12 DEF Write
<1>13. CASE Reboot
  <2>1. NoProc \in Processes
    BY DEF NoProc, Processes
  <2>2. QED
    BY <1>13, <2>1 DEF Reboot, HostTypes
<1>14. CASE UNCHANGED vars
  BY <1>a, <1>14 DEF vars
<1>99. QED
  BY <1>1, <1>2, <1>3, <1>4, <1>5, <1>6, <1>7, <1>8, <1>9, <1>10, <1>11, <1>12, <1>13, <1>14 DEF Next, OperationStep

(* A snapshot just taken is one, and one that was cut. *)
LEMMA TakenType ==
  ASSUME TypeOK, NEW u \in Users
  PROVE  Taken(u) \in Snapshots /\ Cut \in Snapshots
BY HostAssumption DEF Taken, Cut, Snapshots, TypeOK, FileTypes

(* A list whose first entry is replaced, and one that lost it. *)
LEMMA ListCut ==
  ASSUME NEW S, NEW list \in Seq(S), NEW e \in S, list # <<>>
  PROVE  /\ [list EXCEPT ![1] = e] \in Seq(S) /\ Len([list EXCEPT ![1] = e]) = Len(list)
         /\ Tail(list) \in Seq(S) /\ Len(Tail(list)) = Len(list) - 1
BY ExceptSeq, HeadTailProperties, LenProperties

(* Every step keeps the types of the directories and snapshots. *)
LEMMA StepFileTypes == TypeOK /\ ProcInv /\ FileInv /\ ListInv /\ [Next]_vars => FileTypes'
<1> SUFFICES ASSUME TypeOK /\ ProcInv /\ FileInv /\ ListInv, [Next]_vars PROVE FileTypes'
  OBVIOUS
<1> USE HostAssumption DEF opRest, opVars, fileVars, TypeOK
<1>a. ASSUME UNCHANGED <<dir, previous, snapshots, retired, known>> PROVE FileTypes'
  BY <1>a DEF FileTypes
<1>1. ASSUME NEW u \in Users, Spawn(u) PROVE FileTypes'
  <2>1. 0 \in States
    BY DEF States
  <2>2. QED
    BY <1>1, <2>1 DEF Spawn, SpawnIn, FileTypes
<1>2. ASSUME NEW u \in Users, Archive(u) PROVE FileTypes'
  <2>1. Append(snapshots[u], Taken(u)) \in Seq(Snapshots)
    BY TakenType, AppendProperties DEF FileTypes
  <2>2. QED
    BY <1>2, <2>1 DEF Archive, FileTypes
<1>31. ASSUME NEW u \in Users, Prune(u) PROVE FileTypes'
  <2>1. CASE UNCHANGED snapshots
    BY <1>31, <2>1 DEF Prune, FileTypes
  <2>2. CASE Len(snapshots[u]) > Keep /\ snapshots' = [snapshots EXCEPT ![u][1] = Cut]
    <3>1. snapshots[u] \in Seq(Snapshots) /\ snapshots[u] # <<>>
      BY <2>2, EmptySeq DEF FileTypes
    <3>2. [snapshots[u] EXCEPT ![1] = Cut] \in Seq(Snapshots)
      BY <3>1, TakenType, ListCut
    <3>3. QED
      BY <1>31, <2>2, <3>2 DEF Prune, FileTypes
  <2>3. QED
    BY <1>31, <2>1, <2>2 DEF Prune
<1>32. ASSUME NEW u \in Users, Unlist(u) PROVE FileTypes'
  <2>1. CASE UNCHANGED snapshots
    BY <1>32, <2>1 DEF Unlist, FileTypes
  <2>2. CASE snapshots' = [snapshots EXCEPT ![u] = Tail(@)]
    <3>1. snapshots[u] \in Seq(Snapshots) /\ snapshots[u] # <<>>
      BY <1>32 DEF FileTypes, ListInv, Unlist
    <3>2. Tail(snapshots[u]) \in Seq(Snapshots)
      BY <3>1, TakenType, ListCut
    <3>3. QED
      BY <1>32, <2>2, <3>2 DEF Unlist, FileTypes
  <2>3. QED
    BY <1>32, <2>1, <2>2 DEF Unlist
<1>3. ASSUME NEW u \in Users, SwapOut(u) PROVE FileTypes'
  BY <1>3 DEF SwapOut, FileTypes
<1>4. ASSUME NEW u \in Users, SwapIn(u) PROVE FileTypes'
  BY <1>4 DEF SwapIn, FileTypes, OpTypes, FileInv
<1>5. ASSUME NEW u \in Users, Drop(u) PROVE FileTypes'
  BY <1>5 DEF Drop, FileTypes
<1>6. ASSUME NEW u \in Users, Check(u) PROVE FileTypes'
  BY <1>6 DEF Check, FileTypes
<1>7. ASSUME NEW u \in Users, Purge(u) PROVE FileTypes'
  <2>1. <<>> \in Seq(Snapshots)
    BY EmptySeq
  <2>2. QED
    BY <1>7, <2>1 DEF Purge, FileTypes
<1>8. ASSUME NEW p \in Procs, Write(p) PROVE FileTypes'
  <2>1. dir[proc[p].user] \in States => dir[proc[p].user] + 1 \in States \/ dir[proc[p].user] = MaxState
    BY DEF States
  <2>2. proc[p].user \in Users
    BY <1>8 DEF Write, ProcInv
  <2>3. dir[proc[p].user] + 1 \in States
    BY <1>8, <2>1, <2>2 DEF Write, FileTypes, States
  <2>4. QED
    BY <1>8, <2>2, <2>3 DEF Write, FileTypes
<1>9. ASSUME NEW u \in Users,
          \/ Restart(u) \/ Ensure(u) \/ PickPort(u) \/ Poll(u) \/ Register(u) \/ Answer(u) \/ Stop(u)
          \/ Exited(u) \/ StopFails(u) \/ Digest(u) \/ Load(u) \/ Resume(u)
          \/ (\E k \in Asks[u] : Begin(u, k))
     PROVE FileTypes'
  BY <1>a, <1>9 DEF Begin, Restart, Ensure, PickPort, Poll, Register, Answer, Stop, Exited, StopFails, Digest,
     Load, Resume
<1>10. ASSUME NEW p \in Procs, Open(p) \/ Exit(p) \/ ExitEvent(p) \/ Forget(p) PROVE FileTypes'
  BY <1>a, <1>10 DEF Open, Exit, ExitEvent, Forget
<1>11. CASE Reboot
  BY <1>11 DEF Reboot, FileTypes
<1>12. CASE UNCHANGED vars
  BY <1>a, <1>12 DEF vars
<1>99. QED
  BY <1>1, <1>2, <1>3, <1>4, <1>5, <1>6, <1>7, <1>8, <1>9, <1>10, <1>11, <1>12,
     <1>31, <1>32 DEF Next, OperationStep

(* What changes when only the life of a process does. *)
LEMMA LifeSet ==
  ASSUME HostTypes, NEW p \in Procs, NEW l, proc' = [proc EXCEPT ![p].life = l], NEW q \in Procs
  PROVE  /\ proc'[q].user = proc[q].user /\ proc'[q].port = proc[q].port
         /\ proc'[q].life = IF q = p THEN l ELSE proc[q].life
<1>1. proc[p] \in Processes /\ proc[q] \in Processes
  BY DEF HostTypes
<1>2. QED
  BY <1>1 DEF HostTypes, Processes

(* SpawnIn takes a free process name, for the user and the port of the operation. *)
LEMMA NewProc ==
  ASSUME HostTypes, OpTypes, NEW u \in Users, SpawnIn(u)
  PROVE  \E p \in Procs :
           /\ proc[p].life = "none"
           /\ proc'[p].user = u /\ proc'[p].port = port[u] /\ proc'[p].life = "spawned"
           /\ \A q \in Procs : q # p => proc'[q] = proc[q]
           /\ child'[u] = p /\ \A v \in Users : v # u => child'[v] = child[v] /\ pc'[v] = pc[v]
           /\ pc'[u] = "poll" /\ UNCHANGED <<port, kind>>
BY DEF HostTypes, OpTypes, SpawnIn, Goto

(* At each place an operation has in its hands what PlaceInv says: a process, a port, no registered node. *)
LEMMA StepPlaceInv == TypeOK /\ PlaceInv /\ ProcInv /\ [Next]_vars => PlaceInv'
<1> SUFFICES ASSUME TypeOK /\ PlaceInv /\ ProcInv, [Next]_vars PROVE PlaceInv'
  OBVIOUS
<1> USE HostAssumption DEF opRest, opVars, fileVars, TypeOK, OpTypes, HostTypes, PlaceInv, ProcInv, Spawned,
   HasPort, Starting, OnFiles, Goto
<1>a. ASSUME UNCHANGED <<pc, kind, port, child, node>> PROVE PlaceInv'
  BY <1>a
<1>1. ASSUME NEW u \in Users, NEW k \in Asks[u], Begin(u, k) PROVE PlaceInv'
  BY <1>1 DEF Begin, FirstLabel
<1>2. ASSUME NEW u \in Users, Restart(u) PROVE PlaceInv'
  BY <1>2 DEF Restart
<1>3. ASSUME NEW u \in Users, Ensure(u) PROVE PlaceInv'
  BY <1>3 DEF Ensure, End, Ensured, Clear
<1>4. ASSUME NEW u \in Users, PickPort(u) PROVE PlaceInv'
  BY <1>4 DEF PickPort
<1>5. ASSUME NEW u \in Users, Spawn(u) PROVE PlaceInv'
  BY <1>5 DEF Spawn, SpawnIn, End, Clear
<1>6. ASSUME NEW u \in Users, Poll(u) PROVE PlaceInv'
  BY <1>6 DEF Poll, End, Clear
<1>7. ASSUME NEW u \in Users, Register(u) PROVE PlaceInv'
  BY <1>7 DEF Register, Ensured, Clear
<1>8. ASSUME NEW u \in Users, Answer(u) PROVE PlaceInv'
  BY <1>8 DEF Answer, End, Clear
<1>9. ASSUME NEW u \in Users, Stop(u) PROVE PlaceInv'
  <2>1. CASE node[u] = None
    BY <1>9, <2>1 DEF Stop, AfterStop
  <2>2. CASE node[u] # None
    <3>1. node[u] \in Nodes /\ pc' = [pc EXCEPT ![u] = "exiting"] /\ child' = [child EXCEPT ![u] = node[u].proc]
          /\ node' = [node EXCEPT ![u].stopping = TRUE] /\ UNCHANGED <<kind, port>>
      BY <1>9, <2>2 DEF Stop
    <3>2. node[u].proc \in Procs /\ node'[u].proc = node[u].proc
      BY <3>1 DEF Nodes
    <3>3. \A v \in Users : v # u => pc'[v] = pc[v] /\ child'[v] = child[v] /\ node'[v] = node[v]
      BY <3>1
    <3>4. kind[u] \in {"snapshot", "restore", "retire"}
      BY <1>9 DEF Stop
    <3>5. QED
      BY <3>1, <3>2, <3>3, <3>4
  <2>3. QED
    BY <2>1, <2>2
<1>10. ASSUME NEW u \in Users, Exited(u) PROVE PlaceInv'
  BY <1>10 DEF Exited, AfterStop
<1>11. ASSUME NEW u \in Users, StopFails(u) PROVE PlaceInv'
  BY <1>11 DEF StopFails, End, Clear
<1>12. ASSUME NEW u \in Users, Digest(u) PROVE PlaceInv'
  BY <1>12 DEF Digest
<1>13. ASSUME NEW u \in Users, Archive(u) PROVE PlaceInv'
  BY <1>13 DEF Archive
<1>31. ASSUME NEW u \in Users, Prune(u) PROVE PlaceInv'
  BY <1>31 DEF Prune
<1>32. ASSUME NEW u \in Users, Unlist(u) PROVE PlaceInv'
  BY <1>32 DEF Unlist
<1>14. ASSUME NEW u \in Users, Load(u) PROVE PlaceInv'
  BY <1>14 DEF Load
<1>15. ASSUME NEW u \in Users, SwapOut(u) PROVE PlaceInv'
  BY <1>15 DEF SwapOut
<1>16. ASSUME NEW u \in Users, SwapIn(u) PROVE PlaceInv'
  BY <1>16 DEF SwapIn
<1>17. ASSUME NEW u \in Users, Drop(u) PROVE PlaceInv'
  BY <1>17 DEF Drop
<1>18. ASSUME NEW u \in Users, Resume(u) PROVE PlaceInv'
  BY <1>18 DEF Resume, End, Clear
<1>19. ASSUME NEW u \in Users, Check(u) PROVE PlaceInv'
  BY <1>19 DEF Check, End, Clear
<1>20. ASSUME NEW u \in Users, Purge(u) PROVE PlaceInv'
  BY <1>20 DEF Purge, End, Clear
<1>21. ASSUME NEW p \in Procs, ExitEvent(p) PROVE PlaceInv'
  BY <1>21 DEF ExitEvent
<1>22. ASSUME NEW p \in Procs, Open(p) \/ Write(p) \/ Exit(p) \/ Forget(p) PROVE PlaceInv'
  BY <1>a, <1>22 DEF Open, Write, Exit, Forget
<1>23. CASE Reboot
  BY <1>23 DEF Reboot
<1>24. CASE UNCHANGED vars
  BY <1>a, <1>24 DEF vars
<1>99. QED
  BY <1>1, <1>2, <1>3, <1>4, <1>5, <1>6, <1>7, <1>8, <1>9, <1>10, <1>11, <1>12, <1>13, <1>14, <1>15, <1>16,
     <1>31, <1>32, <1>17, <1>18, <1>19, <1>20, <1>21, <1>22, <1>23, <1>24 DEF Next, OperationStep

(* A process has a user and a port while it has a name, those of the node or the operation it is of. *)
LEMMA StepProcInv == TypeOK /\ PlaceInv /\ ProcInv /\ [Next]_vars => ProcInv'
<1> SUFFICES ASSUME TypeOK /\ PlaceInv /\ ProcInv, [Next]_vars PROVE ProcInv'
  OBVIOUS
<1> USE HostAssumption DEF opRest, opVars, fileVars, TypeOK, OpTypes, HostTypes, PlaceInv, ProcInv, Spawned,
   HasPort, Starting, OnFiles, Goto
<1>a. ASSUME UNCHANGED <<pc, port, child, node, proc, orphans>> PROVE ProcInv'
  BY <1>a
<1>1. ASSUME NEW u \in Users, NEW k \in Asks[u], Begin(u, k) PROVE ProcInv'
  BY <1>1 DEF Begin, FirstLabel
<1>2. ASSUME NEW u \in Users, Restart(u) PROVE ProcInv'
  BY <1>2 DEF Restart
<1>3. ASSUME NEW u \in Users, Ensure(u) PROVE ProcInv'
  BY <1>3 DEF Ensure, End, Ensured, Clear
<1>4. ASSUME NEW u \in Users, PickPort(u) PROVE ProcInv'
  BY <1>4 DEF PickPort
<1>5. ASSUME NEW u \in Users, Spawn(u) PROVE ProcInv'
  <2>1. CASE End(u) /\ UNCHANGED proc
    BY <1>5, <2>1 DEF Spawn, End, Clear
  <2>2. CASE SpawnIn(u)
    <3>1. UNCHANGED <<node, orphans>> /\ node[u] = None /\ port[u] \in Ports
      BY <1>5 DEF Spawn
    <3>2. PICK p \in Procs :
             /\ proc[p].life = "none"
             /\ proc'[p].user = u /\ proc'[p].port = port[u] /\ proc'[p].life = "spawned"
             /\ \A q \in Procs : q # p => proc'[q] = proc[q]
             /\ child'[u] = p /\ \A v \in Users : v # u => child'[v] = child[v] /\ pc'[v] = pc[v]
             /\ pc'[u] = "poll" /\ UNCHANGED <<port, kind>>
      BY <2>2, NewProc
    <3>3. \A v \in Users : node[v] # None => node[v].proc \in Procs /\ node[v].proc # p
      BY <3>2 DEF Nodes
    <3>4. \A q \in Procs : proc'[q].life # "none" => proc'[q].user \in Users /\ proc'[q].port \in Ports
      BY <3>1, <3>2
    <3>5. \A q \in orphans' : proc'[q].life # "none"
      BY <3>1, <3>2
    <3>6. \A v \in Users : pc'[v] \in {"poll", "answered"} =>
             LET c == proc'[child'[v]] IN c.user = v /\ c.port = port'[v] /\ c.life # "none"
      BY <3>1, <3>2
    <3>7. QED
      BY <3>1, <3>2, <3>3, <3>4, <3>5, <3>6
  <2>3. QED
    BY <1>5, <2>1, <2>2 DEF Spawn
<1>6. ASSUME NEW u \in Users, Poll(u) PROVE ProcInv'
  BY <1>6 DEF Poll, End, Clear
<1>7. ASSUME NEW u \in Users, Register(u) PROVE ProcInv'
  BY <1>7 DEF Register, Ensured, Clear
<1>8. ASSUME NEW u \in Users, Answer(u) PROVE ProcInv'
  BY <1>8 DEF Answer, End, Clear
<1>9. ASSUME NEW u \in Users, Stop(u) PROVE ProcInv'
  <2>1. CASE node[u] = None
    BY <1>9, <2>1 DEF Stop, AfterStop
  <2>2. CASE node[u] # None
    <3>1. node[u] \in Nodes /\ pc' = [pc EXCEPT ![u] = "exiting"]
          /\ node' = [node EXCEPT ![u].stopping = TRUE] /\ UNCHANGED <<port, proc, orphans>>
      BY <1>9, <2>2 DEF Stop
    <3>2. node'[u].proc = node[u].proc /\ node'[u].port = node[u].port
      BY <3>1 DEF Nodes
    <3>3. \A v \in Users : v # u => pc'[v] = pc[v] /\ node'[v] = node[v] /\ child'[v] = child[v]
      BY <1>9, <2>2, <3>1 DEF Stop
    <3>4. QED
      BY <2>2, <3>1, <3>2, <3>3
  <2>3. QED
    BY <2>1, <2>2
<1>10. ASSUME NEW u \in Users, Exited(u) PROVE ProcInv'
  BY <1>10 DEF Exited, AfterStop
<1>11. ASSUME NEW u \in Users, StopFails(u) PROVE ProcInv'
  BY <1>11 DEF StopFails, End, Clear
<1>12. ASSUME NEW u \in Users, Digest(u) PROVE ProcInv'
  BY <1>12 DEF Digest
<1>13. ASSUME NEW u \in Users, Archive(u) PROVE ProcInv'
  BY <1>13 DEF Archive
<1>31. ASSUME NEW u \in Users, Prune(u) PROVE ProcInv'
  BY <1>31 DEF Prune
<1>32. ASSUME NEW u \in Users, Unlist(u) PROVE ProcInv'
  BY <1>32 DEF Unlist
<1>14. ASSUME NEW u \in Users, Load(u) PROVE ProcInv'
  BY <1>14 DEF Load
<1>15. ASSUME NEW u \in Users, SwapOut(u) PROVE ProcInv'
  BY <1>15 DEF SwapOut
<1>16. ASSUME NEW u \in Users, SwapIn(u) PROVE ProcInv'
  BY <1>16 DEF SwapIn
<1>17. ASSUME NEW u \in Users, Drop(u) PROVE ProcInv'
  BY <1>17 DEF Drop
<1>18. ASSUME NEW u \in Users, Resume(u) PROVE ProcInv'
  BY <1>18 DEF Resume, End, Clear
<1>19. ASSUME NEW u \in Users, Check(u) PROVE ProcInv'
  BY <1>19 DEF Check, End, Clear
<1>20. ASSUME NEW u \in Users, Purge(u) PROVE ProcInv'
  BY <1>20 DEF Purge, End, Clear
<1>21. ASSUME NEW p \in Procs, Open(p) PROVE ProcInv'
  BY <1>21 DEF Open
<1>22. ASSUME NEW p \in Procs, Exit(p) PROVE ProcInv'
  <2>1. \A q \in Procs : /\ proc'[q].user = proc[q].user /\ proc'[q].port = proc[q].port
                         /\ proc'[q].life = IF q = p THEN "dead" ELSE proc[q].life
    BY <1>22, LifeSet DEF Exit
  <2>2. proc[p].life # "none"
    BY <1>22 DEF Exit, Live
  <2>3. UNCHANGED <<pc, port, child, node, orphans>>
    BY <1>22 DEF Exit
  <2>4. \A u \in Users : node[u] # None => node[u].proc \in Procs
    BY DEF Nodes
  <2>5. QED
    BY <2>1, <2>2, <2>3, <2>4
<1>23. ASSUME NEW p \in Procs, ExitEvent(p) PROVE ProcInv'
  BY <1>23 DEF ExitEvent
<1>24. ASSUME NEW p \in Procs, Forget(p) PROVE ProcInv'
  <2>1. UNCHANGED <<pc, port, child, node>> /\ orphans' \subseteq orphans \ {p}
    BY <1>24 DEF Forget
  <2>2. \A q \in Procs : q # p => proc'[q] = proc[q]
    BY <1>24 DEF Forget
  <2>3. proc'[p].life = "none"
    BY <1>24 DEF Forget, NoProc
  <2>4. \A u \in Users : child[u] # p /\ (node[u] # None => node[u].proc # p /\ node[u].proc \in Procs)
    BY <1>24 DEF Forget, Nodes
  <2>5. QED
    BY <2>1, <2>2, <2>3, <2>4
<1>25. ASSUME NEW p \in Procs, Write(p) PROVE ProcInv'
  BY <1>a, <1>25 DEF Write
<1>26. CASE Reboot
  <2>1. \A p \in Procs : proc'[p].life = "none"
    BY <1>26 DEF Reboot, NoProc
  <2>2. \A u \in Users : pc'[u] = "idle" /\ node'[u] = None
    BY <1>26 DEF Reboot
  <2>3. orphans' = {}
    BY <1>26 DEF Reboot
  <2>4. QED
    BY <2>1, <2>2, <2>3
<1>27. CASE UNCHANGED vars
  BY <1>a, <1>27 DEF vars
<1>99. QED
  BY <1>1, <1>2, <1>3, <1>4, <1>5, <1>6, <1>7, <1>8, <1>9, <1>10, <1>11, <1>12, <1>13, <1>14, <1>15, <1>16,
     <1>31, <1>32, <1>17, <1>18, <1>19, <1>20, <1>21, <1>22, <1>23, <1>24, <1>25, <1>26, <1>27 DEF Next, OperationStep

(* Every process is registered, being started, or given up. *)
LEMMA StepOwnInv == TypeOK /\ PlaceInv /\ ProcInv /\ OwnInv /\ [Next]_vars => OwnInv'
<1> SUFFICES ASSUME TypeOK /\ PlaceInv /\ ProcInv /\ OwnInv, [Next]_vars PROVE OwnInv'
  OBVIOUS
<1> USE HostAssumption DEF opRest, opVars, fileVars, TypeOK, OpTypes, HostTypes, PlaceInv, ProcInv, OwnInv,
   Present, Spawned, HasPort, Starting, OnFiles, Goto
<1>a. ASSUME UNCHANGED <<pc, child, node, proc, orphans>> PROVE OwnInv'
  BY <1>a
<1>1. ASSUME NEW u \in Users, NEW k \in Asks[u], Begin(u, k) PROVE OwnInv'
  BY <1>1 DEF Begin, FirstLabel
<1>2. ASSUME NEW u \in Users, Restart(u) PROVE OwnInv'
  BY <1>2 DEF Restart
<1>3. ASSUME NEW u \in Users, Ensure(u) PROVE OwnInv'
  BY <1>3 DEF Ensure, End, Ensured, Clear
<1>4. ASSUME NEW u \in Users, PickPort(u) PROVE OwnInv'
  BY <1>4 DEF PickPort
<1>5. ASSUME NEW u \in Users, Spawn(u) PROVE OwnInv'
  <2>1. CASE End(u) /\ UNCHANGED <<proc, dir, known>>
    BY <1>5, <2>1 DEF Spawn, End, Clear
  <2>2. CASE SpawnIn(u)
    <3>1. PICK p \in Procs :
             /\ proc[p].life = "none"
             /\ proc'[p].user = u /\ proc'[p].port = port[u] /\ proc'[p].life = "spawned"
             /\ \A q \in Procs : q # p => proc'[q] = proc[q]
             /\ child'[u] = p /\ \A v \in Users : v # u => child'[v] = child[v] /\ pc'[v] = pc[v]
             /\ pc'[u] = "poll" /\ UNCHANGED <<port, kind>>
      BY <2>2, NewProc
    <3>2. pc[u] = "spawn" /\ UNCHANGED <<node, orphans>>
      BY <1>5 DEF Spawn
    <3>3. QED
      BY <3>1, <3>2
  <2>3. QED
    BY <1>5, <2>1, <2>2 DEF Spawn
<1>6. ASSUME NEW u \in Users, Poll(u) PROVE OwnInv'
  BY <1>6 DEF Poll, End, Clear
<1>7. ASSUME NEW u \in Users, Register(u) PROVE OwnInv'
  <2>1. /\ node[u] = None /\ node' = [node EXCEPT ![u] = [proc |-> child[u], port |-> port[u], stopping |-> FALSE]]
        /\ UNCHANGED <<proc, orphans>> /\ child[u] \in Procs
    BY <1>7 DEF Register
  <2>2. node'[u] \in Nodes /\ node'[u].proc = child[u]
    BY <2>1, <1>7 DEF Register, Nodes
  <2>3. \A v \in Users : v # u => pc'[v] = pc[v] /\ child'[v] = child[v] /\ node'[v] = node[v]
    BY <1>7 DEF Register, Ensured, Clear
  <2>4. node[u] = None /\ node'[u] # None /\ UNCHANGED <<proc, orphans>>
    BY <2>1, <2>2
  <2>5. ASSUME NEW p \in Procs, Present(p), p \notin orphans
        PROVE  \/ node'[proc[p].user] # None /\ node'[proc[p].user].proc = p
               \/ pc'[proc[p].user] \in Spawned /\ child'[proc[p].user] = p
    <3>1. CASE proc[p].user = u
      BY <2>2, <2>4, <2>5, <3>1
    <3>2. CASE proc[p].user # u
      <4>1. proc[p].user \in Users
        BY <2>5
      <4>2. QED
        BY <2>3, <2>5, <3>2, <4>1
    <3>3. QED
      BY <3>1, <3>2
  <2>6. QED
    BY <2>4, <2>5
<1>8. ASSUME NEW u \in Users, Answer(u) PROVE OwnInv'
  BY <1>8 DEF Answer, End, Clear
<1>9. ASSUME NEW u \in Users, Stop(u) PROVE OwnInv'
  <2>1. UNCHANGED <<proc, orphans>> /\ pc[u] = "stop"
    BY <1>9 DEF Stop
  <2>2. \A v \in Users : v # u => pc'[v] = pc[v] /\ child'[v] = child[v] /\ node'[v] = node[v]
    BY <1>9 DEF Stop
  <2>3. CASE node[u] = None
    <3>1. UNCHANGED <<node, child>>
      BY <1>9, <2>3 DEF Stop
    <3>2. QED
      BY <2>1, <2>2, <2>3, <3>1
  <2>4. CASE node[u] # None
    <3>1. node[u] \in Nodes /\ node' = [node EXCEPT ![u].stopping = TRUE]
      BY <1>9, <2>4 DEF Stop
    <3>2. [node[u] EXCEPT !.stopping = TRUE] \in Nodes /\ [node[u] EXCEPT !.stopping = TRUE].proc = node[u].proc
      BY <3>1 DEF Nodes
    <3>3. node'[u] = [node[u] EXCEPT !.stopping = TRUE]
      BY <3>1
    <3>4. node'[u] \in Nodes
      BY <3>2, <3>3
    <3>5. node'[u].proc = node[u].proc
      BY <3>2, <3>3
    <3>6. node'[u] # None
      BY <3>4
    <3>7. QED
      BY <2>1, <2>2, <2>4, <3>5, <3>6
  <2>5. QED
    BY <2>3, <2>4
<1>10. ASSUME NEW u \in Users, Exited(u) PROVE OwnInv'
  BY <1>10 DEF Exited, AfterStop
<1>11. ASSUME NEW u \in Users, StopFails(u) PROVE OwnInv'
  BY <1>11 DEF StopFails, End, Clear
<1>12. ASSUME NEW u \in Users, Digest(u) PROVE OwnInv'
  BY <1>12 DEF Digest
<1>13. ASSUME NEW u \in Users, Archive(u) PROVE OwnInv'
  BY <1>13 DEF Archive
<1>31. ASSUME NEW u \in Users, Prune(u) PROVE OwnInv'
  BY <1>31 DEF Prune
<1>32. ASSUME NEW u \in Users, Unlist(u) PROVE OwnInv'
  BY <1>32 DEF Unlist
<1>14. ASSUME NEW u \in Users, Load(u) PROVE OwnInv'
  BY <1>14 DEF Load
<1>15. ASSUME NEW u \in Users, SwapOut(u) PROVE OwnInv'
  BY <1>15 DEF SwapOut
<1>16. ASSUME NEW u \in Users, SwapIn(u) PROVE OwnInv'
  BY <1>16 DEF SwapIn
<1>17. ASSUME NEW u \in Users, Drop(u) PROVE OwnInv'
  BY <1>17 DEF Drop
<1>18. ASSUME NEW u \in Users, Resume(u) PROVE OwnInv'
  BY <1>18 DEF Resume, End, Clear
<1>19. ASSUME NEW u \in Users, Check(u) PROVE OwnInv'
  BY <1>19 DEF Check, End, Clear
<1>20. ASSUME NEW u \in Users, Purge(u) PROVE OwnInv'
  BY <1>20 DEF Purge, End, Clear
<1>21. ASSUME NEW p \in Procs, Open(p) PROVE OwnInv'
  BY <1>21 DEF Open
<1>22. ASSUME NEW p \in Procs, Exit(p) PROVE OwnInv'
  <2>1. \A q \in Procs : /\ proc'[q].user = proc[q].user /\ proc'[q].port = proc[q].port
                         /\ proc'[q].life = IF q = p THEN "dead" ELSE proc[q].life
    BY <1>22, LifeSet DEF Exit
  <2>2. UNCHANGED <<pc, child, node, orphans>> /\ Present(p)
    BY <1>22 DEF Exit, Live
  <2>3. QED
    BY <2>1, <2>2
<1>23. ASSUME NEW p \in Procs, ExitEvent(p) PROVE OwnInv'
  BY <1>23 DEF ExitEvent
<1>24. ASSUME NEW p \in Procs, Forget(p) PROVE OwnInv'
  <2>1. /\ UNCHANGED <<pc, child, node>> /\ orphans' = orphans \ {p}
        /\ \A q \in Procs : q # p => proc'[q] = proc[q]
    BY <1>24 DEF Forget
  <2>2. proc'[p].life = "none"
    BY <1>24 DEF Forget, NoProc
  <2>3. QED
    BY <2>1, <2>2
<1>25. ASSUME NEW p \in Procs, Write(p) PROVE OwnInv'
  BY <1>a, <1>25 DEF Write
<1>26. CASE Reboot
  <2>1. \A p \in Procs : proc'[p].life = "none"
    BY <1>26 DEF Reboot, NoProc
  <2>2. QED
    BY <2>1
<1>27. CASE UNCHANGED vars
  BY <1>a, <1>27 DEF vars
<1>99. QED
  BY <1>1, <1>2, <1>3, <1>4, <1>5, <1>6, <1>7, <1>8, <1>9, <1>10, <1>11, <1>12, <1>13, <1>14, <1>15, <1>16,
     <1>31, <1>32, <1>17, <1>18, <1>19, <1>20, <1>21, <1>22, <1>23, <1>24, <1>25, <1>26, <1>27 DEF Next, OperationStep

(* No two processes or starting operations hold one port: PickPort takes one nobody has or is promised. *)
LEMMA StepPortInv == TypeOK /\ PlaceInv /\ ProcInv /\ PortInv /\ [Next]_vars => PortInv'
<1> SUFFICES ASSUME TypeOK /\ PlaceInv /\ ProcInv /\ PortInv, [Next]_vars PROVE PortInv'
  OBVIOUS
<1> USE HostAssumption DEF opRest, opVars, fileVars, TypeOK, OpTypes, HostTypes, PlaceInv, ProcInv, PortInv,
   Live, Spawned, HasPort, Starting, OnFiles, Goto
<1>a. ASSUME UNCHANGED <<pc, child, port, proc>> PROVE PortInv'
  BY <1>a
<1>1. ASSUME NEW u \in Users, NEW k \in Asks[u], Begin(u, k) PROVE PortInv'
  BY <1>1 DEF Begin, FirstLabel
<1>2. ASSUME NEW u \in Users, Restart(u) PROVE PortInv'
  BY <1>2 DEF Restart
<1>3. ASSUME NEW u \in Users, Ensure(u) PROVE PortInv'
  BY <1>3 DEF Ensure, End, Ensured, Clear
<1>4. ASSUME NEW u \in Users, PickPort(u) PROVE PortInv'
  <2>1. PICK n \in Ports : /\ n \in Promised => "samePort" \in Faults
                           /\ port' = [port EXCEPT ![u] = n]
    BY <1>4 DEF PickPort
  <2>2. UNCHANGED <<child, proc>> /\ pc[u] = "port" /\ pc' = [pc EXCEPT ![u] = "spawn"]
    BY <1>4 DEF PickPort
  <2> SUFFICES ASSUME "samePort" \notin Faults PROVE PortInv'
    OBVIOUS
  <2>3. /\ \A v \in Users : pc[v] \in HasPort => port[v] # n
        /\ \A q \in Procs : Live(q) => proc[q].port # n
    BY <2>1 DEF Promised
  <2>4. port'[u] = n /\ \A v \in Users : v # u => port'[v] = port[v] /\ pc'[v] = pc[v]
    BY <2>1, <2>2
  <2>5. (\A v, x \in Users : v # x /\ pc[v] \in HasPort /\ pc[x] \in HasPort => port[v] # port[x])'
    BY <2>2, <2>3, <2>4
  <2>6. (\A v \in Users, p \in Procs :
           pc[v] \in HasPort /\ Live(p) /\ (pc[v] \in Spawned => child[v] # p) => port[v] # proc[p].port)'
    BY <2>2, <2>3, <2>4
  <2>7. QED
    BY <2>2, <2>5, <2>6
<1>5. ASSUME NEW u \in Users, Spawn(u) PROVE PortInv'
  <2>1. CASE End(u) /\ UNCHANGED <<proc, dir, known>>
    BY <1>5, <2>1 DEF Spawn, End, Clear
  <2>2. CASE SpawnIn(u)
    <3>1. PICK p \in Procs :
             /\ proc[p].life = "none"
             /\ proc'[p].user = u /\ proc'[p].port = port[u] /\ proc'[p].life = "spawned"
             /\ \A q \in Procs : q # p => proc'[q] = proc[q]
             /\ child'[u] = p /\ \A v \in Users : v # u => child'[v] = child[v] /\ pc'[v] = pc[v]
             /\ pc'[u] = "poll" /\ UNCHANGED <<port, kind>>
      BY <2>2, NewProc
    <3>2. pc[u] = "spawn" /\ UNCHANGED <<node, orphans>>
      BY <1>5 DEF Spawn
    <3>3. QED
      BY <3>1, <3>2
  <2>3. QED
    BY <1>5, <2>1, <2>2 DEF Spawn
<1>6. ASSUME NEW u \in Users, Poll(u) PROVE PortInv'
  BY <1>6 DEF Poll, End, Clear
<1>7. ASSUME NEW u \in Users, Register(u) PROVE PortInv'
  BY <1>7 DEF Register, Ensured, Clear
<1>8. ASSUME NEW u \in Users, Answer(u) PROVE PortInv'
  BY <1>8 DEF Answer, End, Clear
<1>9. ASSUME NEW u \in Users, Stop(u) PROVE PortInv'
  BY <1>9 DEF Stop, AfterStop
<1>10. ASSUME NEW u \in Users, Exited(u) PROVE PortInv'
  BY <1>10 DEF Exited, AfterStop
<1>11. ASSUME NEW u \in Users, StopFails(u) PROVE PortInv'
  BY <1>11 DEF StopFails, End, Clear
<1>12. ASSUME NEW u \in Users, Digest(u) PROVE PortInv'
  BY <1>12 DEF Digest
<1>13. ASSUME NEW u \in Users, Archive(u) PROVE PortInv'
  BY <1>13 DEF Archive
<1>31. ASSUME NEW u \in Users, Prune(u) PROVE PortInv'
  BY <1>31 DEF Prune
<1>32. ASSUME NEW u \in Users, Unlist(u) PROVE PortInv'
  BY <1>32 DEF Unlist
<1>14. ASSUME NEW u \in Users, Load(u) PROVE PortInv'
  BY <1>14 DEF Load
<1>15. ASSUME NEW u \in Users, SwapOut(u) PROVE PortInv'
  BY <1>15 DEF SwapOut
<1>16. ASSUME NEW u \in Users, SwapIn(u) PROVE PortInv'
  BY <1>16 DEF SwapIn
<1>17. ASSUME NEW u \in Users, Drop(u) PROVE PortInv'
  BY <1>17 DEF Drop
<1>18. ASSUME NEW u \in Users, Resume(u) PROVE PortInv'
  BY <1>18 DEF Resume, End, Clear
<1>19. ASSUME NEW u \in Users, Check(u) PROVE PortInv'
  BY <1>19 DEF Check, End, Clear
<1>20. ASSUME NEW u \in Users, Purge(u) PROVE PortInv'
  BY <1>20 DEF Purge, End, Clear
<1>21. ASSUME NEW p \in Procs, Open(p) PROVE PortInv'
  BY <1>21 DEF Open
<1>22. ASSUME NEW p \in Procs, Exit(p) PROVE PortInv'
  BY <1>22 DEF Exit
<1>23. ASSUME NEW p \in Procs, ExitEvent(p) PROVE PortInv'
  BY <1>23 DEF ExitEvent
<1>24. ASSUME NEW p \in Procs, Forget(p) PROVE PortInv'
  <2>1. /\ UNCHANGED <<pc, child, port>>
        /\ \A q \in Procs : q # p => proc'[q] = proc[q]
    BY <1>24 DEF Forget
  <2>2. proc'[p].life = "none"
    BY <1>24 DEF Forget, NoProc
  <2>3. QED
    BY <2>1, <2>2
<1>25. ASSUME NEW p \in Procs, Write(p) PROVE PortInv'
  BY <1>a, <1>25 DEF Write
<1>26. CASE Reboot
  <2>1. \A p \in Procs : proc'[p].life = "none"
    BY <1>26 DEF Reboot, NoProc
  <2>2. \A u \in Users : pc'[u] = "idle"
    BY <1>26 DEF Reboot
  <2>3. QED
    BY <2>1, <2>2
<1>27. CASE UNCHANGED vars
  BY <1>a, <1>27 DEF vars
<1>99. QED
  BY <1>1, <1>2, <1>3, <1>4, <1>5, <1>6, <1>7, <1>8, <1>9, <1>10, <1>11, <1>12, <1>13, <1>14, <1>15, <1>16,
     <1>31, <1>32, <1>17, <1>18, <1>19, <1>20, <1>21, <1>22, <1>23, <1>24, <1>25, <1>26, <1>27 DEF Next, OperationStep

(* The exit of a registered node was not handled: ExitEvent forgets the node with it. *)
LEMMA StepAliveInv == TypeOK /\ PlaceInv /\ ProcInv /\ PortInv /\ AliveInv /\ [Next]_vars => AliveInv'
<1> SUFFICES ASSUME TypeOK /\ PlaceInv /\ ProcInv /\ PortInv /\ AliveInv, [Next]_vars PROVE AliveInv'
  OBVIOUS
<1> USE HostAssumption DEF opRest, opVars, fileVars, TypeOK, OpTypes, HostTypes, PlaceInv, ProcInv, PortInv,
   AliveInv, Present, Live, Spawned, HasPort, Starting, OnFiles, Goto
<1>a. ASSUME UNCHANGED <<pc, child, node, proc>> PROVE AliveInv'
  BY <1>a
<1>1. ASSUME NEW u \in Users, NEW k \in Asks[u], Begin(u, k) PROVE AliveInv'
  BY <1>1 DEF Begin, FirstLabel
<1>2. ASSUME NEW u \in Users, Restart(u) PROVE AliveInv'
  BY <1>2 DEF Restart
<1>3. ASSUME NEW u \in Users, Ensure(u) PROVE AliveInv'
  BY <1>3 DEF Ensure, End, Ensured, Clear
<1>4. ASSUME NEW u \in Users, PickPort(u) PROVE AliveInv'
  BY <1>4 DEF PickPort
<1>5. ASSUME NEW u \in Users, Spawn(u) PROVE AliveInv'
  <2>1. CASE End(u) /\ UNCHANGED proc
    BY <1>5, <2>1 DEF Spawn, End, Clear
  <2>2. CASE SpawnIn(u)
    <3>1. PICK p \in Procs :
             /\ proc[p].life = "none"
             /\ proc'[p].user = u /\ proc'[p].port = port[u] /\ proc'[p].life = "spawned"
             /\ \A q \in Procs : q # p => proc'[q] = proc[q]
             /\ child'[u] = p /\ \A v \in Users : v # u => child'[v] = child[v] /\ pc'[v] = pc[v]
             /\ pc'[u] = "poll" /\ UNCHANGED <<port, kind>>
      BY <2>2, NewProc
    <3>2. UNCHANGED node
      BY <1>5 DEF Spawn
    <3>3. \A v \in Users : node[v] # None => node[v].proc \in Procs /\ node[v].proc # p
      BY <3>1 DEF Nodes
    <3>4. QED
      BY <3>1, <3>2, <3>3
  <2>3. QED
    BY <1>5, <2>1, <2>2 DEF Spawn
<1>6. ASSUME NEW u \in Users, Poll(u) PROVE AliveInv'
  <2>1. UNCHANGED <<node, proc>> /\ \A v \in Users : v # u => pc'[v] = pc[v] /\ child'[v] = child[v]
    BY <1>6 DEF Poll, End, Clear
  <2>2. ASSUME Faults = {}, pc'[u] = "answered"
        PROVE  Present(child[u]) /\ child'[u] = child[u]
    <3>1. Listening(port[u]) # {} /\ child' = child /\ pc[u] = "poll"
      BY <1>6, <2>2 DEF Poll, End, Clear
    <3>2. PICK p \in Procs : proc[p].life = "open" /\ proc[p].port = port[u]
      BY <3>1 DEF Listening
    <3>3. p = child[u]
      BY <2>2, <3>1, <3>2
    <3>4. QED
      BY <3>1, <3>2, <3>3
  <2>3. QED
    BY <2>1, <2>2
<1>7. ASSUME NEW u \in Users, Register(u) PROVE AliveInv'
  BY <1>7 DEF Register, Ensured, Clear
<1>8. ASSUME NEW u \in Users, Answer(u) PROVE AliveInv'
  BY <1>8 DEF Answer, End, Clear
<1>9. ASSUME NEW u \in Users, Stop(u) PROVE AliveInv'
  <2>1. UNCHANGED proc /\ pc[u] = "stop" /\ pc'[u] # "answered"
    BY <1>9 DEF Stop, AfterStop
  <2>2. \A v \in Users : v # u => pc'[v] = pc[v] /\ child'[v] = child[v] /\ node'[v] = node[v]
    BY <1>9 DEF Stop
  <2>3. node'[u] # None => node[u] # None /\ node'[u].proc = node[u].proc
    BY <1>9 DEF Stop, Nodes
  <2>4. QED
    BY <2>1, <2>2, <2>3
<1>10. ASSUME NEW u \in Users, Exited(u) PROVE AliveInv'
  BY <1>10 DEF Exited, AfterStop
<1>11. ASSUME NEW u \in Users, StopFails(u) PROVE AliveInv'
  BY <1>11 DEF StopFails, End, Clear
<1>12. ASSUME NEW u \in Users, Digest(u) PROVE AliveInv'
  BY <1>12 DEF Digest
<1>13. ASSUME NEW u \in Users, Archive(u) PROVE AliveInv'
  BY <1>13 DEF Archive
<1>31. ASSUME NEW u \in Users, Prune(u) PROVE AliveInv'
  BY <1>31 DEF Prune
<1>32. ASSUME NEW u \in Users, Unlist(u) PROVE AliveInv'
  BY <1>32 DEF Unlist
<1>14. ASSUME NEW u \in Users, Load(u) PROVE AliveInv'
  BY <1>14 DEF Load
<1>15. ASSUME NEW u \in Users, SwapOut(u) PROVE AliveInv'
  BY <1>15 DEF SwapOut
<1>16. ASSUME NEW u \in Users, SwapIn(u) PROVE AliveInv'
  BY <1>16 DEF SwapIn
<1>17. ASSUME NEW u \in Users, Drop(u) PROVE AliveInv'
  BY <1>17 DEF Drop
<1>18. ASSUME NEW u \in Users, Resume(u) PROVE AliveInv'
  BY <1>18 DEF Resume, End, Clear
<1>19. ASSUME NEW u \in Users, Check(u) PROVE AliveInv'
  BY <1>19 DEF Check, End, Clear
<1>20. ASSUME NEW u \in Users, Purge(u) PROVE AliveInv'
  BY <1>20 DEF Purge, End, Clear
<1>21. ASSUME NEW p \in Procs, Open(p) PROVE AliveInv'
  BY <1>21 DEF Open
<1>22. ASSUME NEW p \in Procs, Exit(p) PROVE AliveInv'
  BY <1>22 DEF Exit
<1>23. ASSUME NEW p \in Procs, ExitEvent(p) PROVE AliveInv'
  <2>1. \A q \in Procs : /\ proc'[q].user = proc[q].user /\ proc'[q].port = proc[q].port
                         /\ proc'[q].life = IF q = p THEN "gone" ELSE proc[q].life
    BY <1>23, LifeSet DEF ExitEvent
  <2>2. UNCHANGED <<pc, child>> /\ proc[p].user \in Users
    BY <1>23 DEF ExitEvent, opVars, opRest
  <2>3. Faults = {} => \A u \in Users : pc[u] = "answered" => child[u] # p
    BY <1>23 DEF ExitEvent, Answering
  <2>4. \A u \in Users : node'[u] # None => node'[u] = node[u] /\ node[u].proc # p /\ node[u].proc \in Procs
    BY <1>23, <2>2 DEF ExitEvent, Nodes
  <2>5. QED
    BY <2>1, <2>2, <2>3, <2>4
<1>24. ASSUME NEW p \in Procs, Forget(p) PROVE AliveInv'
  BY <1>24 DEF Forget
<1>25. ASSUME NEW p \in Procs, Write(p) PROVE AliveInv'
  BY <1>a, <1>25 DEF Write
<1>26. CASE Reboot
  BY <1>26 DEF Reboot
<1>27. CASE UNCHANGED vars
  BY <1>a, <1>27 DEF vars
<1>99. QED
  BY <1>1, <1>2, <1>3, <1>4, <1>5, <1>6, <1>7, <1>8, <1>9, <1>10, <1>11, <1>12, <1>13, <1>14, <1>15, <1>16,
     <1>31, <1>32, <1>17, <1>18, <1>19, <1>20, <1>21, <1>22, <1>23, <1>24, <1>25, <1>26, <1>27 DEF Next, OperationStep

(* Where a user's directories are, at each place of a restore. *)
LEMMA StepFileInv == TypeOK /\ PlaceInv /\ ProcInv /\ FileInv /\ [Next]_vars => FileInv'
<1> SUFFICES ASSUME TypeOK /\ PlaceInv /\ ProcInv /\ FileInv, [Next]_vars PROVE FileInv'
  OBVIOUS
<1> USE HostAssumption DEF opRest, opVars, fileVars, TypeOK, OpTypes, FileTypes, PlaceInv, ProcInv, FileInv,
   Spawned, Starting, OnFiles, Goto
<1>a. ASSUME UNCHANGED <<pc, seen, dir, previous, known>> PROVE FileInv'
  BY <1>a
<1>1. ASSUME NEW u \in Users, NEW k \in Asks[u], Begin(u, k) PROVE FileInv'
  BY <1>1 DEF Begin, FirstLabel
<1>2. ASSUME NEW u \in Users, Restart(u) PROVE FileInv'
  BY <1>2 DEF Restart
<1>3. ASSUME NEW u \in Users, Ensure(u) PROVE FileInv'
  BY <1>3 DEF Ensure, End, Ensured, Clear
<1>4. ASSUME NEW u \in Users, PickPort(u) PROVE FileInv'
  BY <1>4 DEF PickPort
<1>5. ASSUME NEW u \in Users, Spawn(u) PROVE FileInv'
  <2>1. CASE previous[u] # None
    BY <1>5, <2>1 DEF Spawn, End, Clear
  <2>2. CASE SpawnIn(u) /\ previous[u] = None
    <3>1. /\ pc' = [pc EXCEPT ![u] = "poll"] /\ UNCHANGED <<seen, previous>>
          /\ dir' = [dir EXCEPT ![u] = IF dir[u] = None THEN 0 ELSE dir[u]] /\ known' = known \cup {u}
      BY <1>5, <2>2 DEF Spawn, SpawnIn
    <3>2. dir'[u] # None /\ \A v \in Users : v # u => dir'[v] = dir[v] /\ pc'[v] = pc[v]
      BY <3>1
    <3>3. QED
      BY <2>2, <3>1, <3>2
  <2>3. QED
    BY <1>5, <2>1, <2>2 DEF Spawn
<1>6. ASSUME NEW u \in Users, Poll(u) PROVE FileInv'
  BY <1>6 DEF Poll, End, Clear
<1>7. ASSUME NEW u \in Users, Register(u) PROVE FileInv'
  BY <1>7 DEF Register, Ensured, Clear
<1>8. ASSUME NEW u \in Users, Answer(u) PROVE FileInv'
  BY <1>8 DEF Answer, End, Clear
<1>9. ASSUME NEW u \in Users, Stop(u) PROVE FileInv'
  BY <1>9 DEF Stop, AfterStop
<1>10. ASSUME NEW u \in Users, Exited(u) PROVE FileInv'
  BY <1>10 DEF Exited, AfterStop
<1>11. ASSUME NEW u \in Users, StopFails(u) PROVE FileInv'
  BY <1>11 DEF StopFails, End, Clear
<1>12. ASSUME NEW u \in Users, Digest(u) PROVE FileInv'
  BY <1>12 DEF Digest
<1>13. ASSUME NEW u \in Users, Archive(u) PROVE FileInv'
  BY <1>13 DEF Archive
<1>31. ASSUME NEW u \in Users, Prune(u) PROVE FileInv'
  BY <1>31 DEF Prune
<1>32. ASSUME NEW u \in Users, Unlist(u) PROVE FileInv'
  BY <1>32 DEF Unlist
<1>14. ASSUME NEW u \in Users, Load(u) PROVE FileInv'
  <2>1. UNCHANGED <<dir, previous, known>> /\ \A v \in Users : v # u => pc'[v] = pc[v] /\ seen'[v] = seen[v]
    BY <1>14 DEF Load
  <2>2. pc'[u] = "resume" \/ (pc'[u] = "swapOut" /\ previous[u] = None /\ seen'[u] \in States)
    <3>1. ASSUME NEW s \in ToSet(snapshots[u]) PROVE s.content \in States \cup {None}
      <4>1. s \in Snapshots
        BY DEF ToSet
      <4>2. QED
        BY <4>1 DEF Snapshots
    <3>2. QED
      BY <1>14, <3>1 DEF Load
  <2>3. None \notin States
    BY DEF States
  <2>4. QED
    BY <2>1, <2>2, <2>3
<1>15. ASSUME NEW u \in Users, SwapOut(u) PROVE FileInv'
  BY <1>15 DEF SwapOut
<1>16. ASSUME NEW u \in Users, SwapIn(u) PROVE FileInv'
  <2>1. UNCHANGED known /\ pc[u] = "swapIn" /\ seen[u] # None
        /\ \A v \in Users : v # u => /\ pc'[v] = pc[v] /\ seen'[v] = seen[v]
                                       /\ dir'[v] = dir[v] /\ previous'[v] = previous[v]
    BY <1>16 DEF SwapIn
  <2>2. \/ dir'[u] = seen[u] /\ pc'[u] \in {"resume", "drop"} /\ previous' = previous
        \/ dir'[u] = previous[u] /\ pc'[u] = "resume"
    BY <1>16 DEF SwapIn
  <2>3. u \in known => dir'[u] # None \/ previous'[u] # None
    BY <2>1, <2>2
  <2>4. pc'[u] = "drop" => dir'[u] # None
    BY <2>1, <2>2
  <2>5. QED
    BY <2>1, <2>2, <2>3, <2>4
<1>17. ASSUME NEW u \in Users, Drop(u) PROVE FileInv'
  BY <1>17 DEF Drop
<1>18. ASSUME NEW u \in Users, Resume(u) PROVE FileInv'
  BY <1>18 DEF Resume, End, Clear
<1>19. ASSUME NEW u \in Users, Check(u) PROVE FileInv'
  BY <1>19 DEF Check, End, Clear
<1>20. ASSUME NEW u \in Users, Purge(u) PROVE FileInv'
  BY <1>20 DEF Purge, End, Clear
<1>21. ASSUME NEW p \in Procs, Write(p) PROVE FileInv'
  <2>1. UNCHANGED <<pc, seen, previous, known>>
    BY <1>21 DEF Write, opVars, opRest
  <2>2. proc[p].user \in Users /\ dir[proc[p].user] \in States
    BY <1>21 DEF Write
  <2>3. \A u \in Users : dir'[u] = None <=> dir[u] = None
    <3>1. dir[proc[p].user] + 1 # None /\ dir[proc[p].user] # None
      BY <2>2 DEF States
    <3>2. QED
      BY <1>21, <2>2, <3>1 DEF Write
  <2>4. QED
    BY <2>1, <2>3
<1>22. ASSUME NEW p \in Procs, Open(p) \/ Exit(p) \/ ExitEvent(p) \/ Forget(p) PROVE FileInv'
  BY <1>a, <1>22 DEF Open, Exit, ExitEvent, Forget
<1>23. CASE Reboot
  BY <1>23 DEF Reboot
<1>24. CASE UNCHANGED vars
  BY <1>a, <1>24 DEF vars
<1>99. QED
  BY <1>1, <1>2, <1>3, <1>4, <1>5, <1>6, <1>7, <1>8, <1>9, <1>10, <1>11, <1>12, <1>13, <1>14, <1>15, <1>16,
     <1>31, <1>32, <1>17, <1>18, <1>19, <1>20, <1>21, <1>22, <1>23, <1>24 DEF Next, OperationStep

(* A set with at most one element more. *)
LEMMA OneMore ==
  ASSUME NEW S, IsFiniteSet(S), NEW x, NEW T, T \subseteq S \cup {x}
  PROVE  /\ IsFiniteSet(T) /\ Cardinality(T) \in Nat /\ Cardinality(S) \in Nat
         /\ Cardinality(T) <= Cardinality(S) + 1
<1>1. IsFiniteSet(S \cup {x}) /\ Cardinality(S) \in Nat
  BY FS_AddElement, FS_CardinalityType
<1>2. Cardinality(S \cup {x}) <= Cardinality(S) + 1
  BY <1>1, FS_AddElement
<1>3. IsFiniteSet(T) /\ Cardinality(T) <= Cardinality(S \cup {x})
  BY <1>1, FS_Subset
<1>4. Cardinality(T) \in Nat /\ Cardinality(S \cup {x}) \in Nat
  BY <1>1, <1>3, FS_CardinalityType
<1>5. QED
  BY <1>1, <1>2, <1>3, <1>4

(* The nodes running and starting: only Ensure adds one, when there is room for it. *)
LEMMA StepCountInv == TypeOK /\ PlaceInv /\ CountInv /\ [Next]_vars => CountInv'
<1> SUFFICES ASSUME TypeOK /\ PlaceInv /\ CountInv, [Next]_vars PROVE CountInv'
  OBVIOUS
<1> USE HostAssumption DEF opRest, opVars, fileVars, TypeOK, OpTypes, HostTypes, PlaceInv, InUse, Spawned,
   Starting, OnFiles, Goto
<1>a. ASSUME InUse' \subseteq InUse PROVE CountInv'
  <2>1. Cardinality(InUse) \in Nat /\ IsFiniteSet(InUse') /\ Cardinality(InUse') <= Cardinality(InUse)
        /\ Cardinality(InUse') \in Nat
    BY <1>a, FS_Subset, FS_CardinalityType DEF CountInv
  <2>2. QED
    BY <2>1 DEF CountInv
<1>1. ASSUME NEW u \in Users, NEW k \in Asks[u], Begin(u, k) PROVE CountInv'
  <2>1. InUse' \subseteq InUse
    BY <1>1 DEF Begin, FirstLabel
  <2>2. QED
    BY <1>a, <2>1
<1>2. ASSUME NEW u \in Users, Restart(u) PROVE CountInv'
  <2>1. InUse' \subseteq InUse
    BY <1>2 DEF Restart
  <2>2. QED
    BY <1>a, <2>1
<1>3. ASSUME NEW u \in Users, Ensure(u) PROVE CountInv'
  <2>1. CASE InUse' \subseteq InUse
    BY <1>a, <2>1
  <2>2. CASE Cardinality(InUse) < MaxNodes /\ InUse' \subseteq InUse \cup {u}
    <3>1. IsFiniteSet(InUse)
      BY DEF CountInv
    <3>2. IsFiniteSet(InUse') /\ Cardinality(InUse') \in Nat /\ Cardinality(InUse) \in Nat
          /\ Cardinality(InUse') <= Cardinality(InUse) + 1
      BY <2>2, <3>1, OneMore
    <3>3. QED
      BY <2>2, <3>2 DEF CountInv
  <2>3. InUse' \subseteq InUse \/ (~(Cardinality(InUse) >= MaxNodes) /\ InUse' \subseteq InUse \cup {u})
    BY <1>3 DEF Ensure, End, Ensured, Clear
  <2>4. Cardinality(InUse) \in Nat
    BY FS_CardinalityType DEF CountInv
  <2>5. QED
    BY <2>1, <2>2, <2>3, <2>4
<1>4. ASSUME NEW u \in Users, PickPort(u) PROVE CountInv'
  <2>1. InUse' \subseteq InUse
    BY <1>4 DEF PickPort
  <2>2. QED
    BY <1>a, <2>1
<1>5. ASSUME NEW u \in Users, Spawn(u) PROVE CountInv'
  <2>1. InUse' \subseteq InUse
    BY <1>5 DEF Spawn, SpawnIn, End, Clear
  <2>2. QED
    BY <1>a, <2>1
<1>6. ASSUME NEW u \in Users, Poll(u) PROVE CountInv'
  <2>1. InUse' \subseteq InUse
    BY <1>6 DEF Poll, End, Clear
  <2>2. QED
    BY <1>a, <2>1
<1>7. ASSUME NEW u \in Users, Register(u) PROVE CountInv'
  <2>1. InUse' \subseteq InUse
    BY <1>7 DEF Register, Ensured, Clear
  <2>2. QED
    BY <1>a, <2>1
<1>8. ASSUME NEW u \in Users, Answer(u) PROVE CountInv'
  <2>1. InUse' \subseteq InUse
    BY <1>8 DEF Answer, End, Clear
  <2>2. QED
    BY <1>a, <2>1
<1>9. ASSUME NEW u \in Users, Stop(u) PROVE CountInv'
  <2>1. InUse' \subseteq InUse
    BY <1>9 DEF Stop, AfterStop
  <2>2. QED
    BY <1>a, <2>1
<1>10. ASSUME NEW u \in Users, Exited(u) PROVE CountInv'
  <2>1. InUse' \subseteq InUse
    BY <1>10 DEF Exited, AfterStop
  <2>2. QED
    BY <1>a, <2>1
<1>11. ASSUME NEW u \in Users, StopFails(u) PROVE CountInv'
  <2>1. InUse' \subseteq InUse
    BY <1>11 DEF StopFails, End, Clear
  <2>2. QED
    BY <1>a, <2>1
<1>12. ASSUME NEW u \in Users, Digest(u) PROVE CountInv'
  <2>1. InUse' \subseteq InUse
    BY <1>12 DEF Digest
  <2>2. QED
    BY <1>a, <2>1
<1>13. ASSUME NEW u \in Users, Archive(u) PROVE CountInv'
  <2>1. InUse' \subseteq InUse
    BY <1>13 DEF Archive
  <2>2. QED
    BY <1>a, <2>1
<1>31. ASSUME NEW u \in Users, Prune(u) PROVE CountInv'
  <2>1. InUse' \subseteq InUse
    BY <1>31 DEF Prune
  <2>2. QED
    BY <1>a, <2>1
<1>32. ASSUME NEW u \in Users, Unlist(u) PROVE CountInv'
  <2>1. InUse' \subseteq InUse
    BY <1>32 DEF Unlist
  <2>2. QED
    BY <1>a, <2>1
<1>14. ASSUME NEW u \in Users, Load(u) PROVE CountInv'
  <2>1. InUse' \subseteq InUse
    BY <1>14 DEF Load
  <2>2. QED
    BY <1>a, <2>1
<1>15. ASSUME NEW u \in Users, SwapOut(u) PROVE CountInv'
  <2>1. InUse' \subseteq InUse
    BY <1>15 DEF SwapOut
  <2>2. QED
    BY <1>a, <2>1
<1>16. ASSUME NEW u \in Users, SwapIn(u) PROVE CountInv'
  <2>1. InUse' \subseteq InUse
    BY <1>16 DEF SwapIn
  <2>2. QED
    BY <1>a, <2>1
<1>17. ASSUME NEW u \in Users, Drop(u) PROVE CountInv'
  <2>1. InUse' \subseteq InUse
    BY <1>17 DEF Drop
  <2>2. QED
    BY <1>a, <2>1
<1>18. ASSUME NEW u \in Users, Resume(u) PROVE CountInv'
  <2>1. InUse' \subseteq InUse
    BY <1>18 DEF Resume, End, Clear
  <2>2. QED
    BY <1>a, <2>1
<1>19. ASSUME NEW u \in Users, Check(u) PROVE CountInv'
  <2>1. InUse' \subseteq InUse
    BY <1>19 DEF Check, End, Clear
  <2>2. QED
    BY <1>a, <2>1
<1>20. ASSUME NEW u \in Users, Purge(u) PROVE CountInv'
  <2>1. InUse' \subseteq InUse
    BY <1>20 DEF Purge, End, Clear
  <2>2. QED
    BY <1>a, <2>1
<1>21. ASSUME NEW p \in Procs, Open(p) PROVE CountInv'
  <2>1. InUse' \subseteq InUse
    BY <1>21 DEF Open
  <2>2. QED
    BY <1>a, <2>1
<1>22. ASSUME NEW p \in Procs, Write(p) PROVE CountInv'
  <2>1. InUse' \subseteq InUse
    BY <1>22 DEF Write
  <2>2. QED
    BY <1>a, <2>1
<1>23. ASSUME NEW p \in Procs, Exit(p) PROVE CountInv'
  <2>1. InUse' \subseteq InUse
    BY <1>23 DEF Exit
  <2>2. QED
    BY <1>a, <2>1
<1>24. ASSUME NEW p \in Procs, ExitEvent(p) PROVE CountInv'
  <2>1. InUse' \subseteq InUse
    BY <1>24 DEF ExitEvent
  <2>2. QED
    BY <1>a, <2>1
<1>25. ASSUME NEW p \in Procs, Forget(p) PROVE CountInv'
  <2>1. InUse' \subseteq InUse
    BY <1>25 DEF Forget
  <2>2. QED
    BY <1>a, <2>1
<1>26. CASE Reboot
  <2>1. InUse' \subseteq InUse
    BY <1>26 DEF Reboot
  <2>2. QED
    BY <1>a, <2>1
<1>27. CASE UNCHANGED vars
  <2>1. InUse' \subseteq InUse
    BY <1>27 DEF vars
  <2>2. QED
    BY <1>a, <2>1
<1>99. QED
  BY <1>1, <1>2, <1>3, <1>4, <1>5, <1>6, <1>7, <1>8, <1>9, <1>10, <1>11, <1>12, <1>13, <1>14, <1>15, <1>16,
     <1>31, <1>32, <1>17, <1>18, <1>19, <1>20, <1>21, <1>22, <1>23, <1>24, <1>25, <1>26, <1>27 DEF Next, OperationStep

(* What DigestInv says of the snapshots being taken stays true if they, and the processes given up, stay. *)
LEMMA DigestKept ==
  ASSUME DigestInv,
         \A u \in Users : pc'[u] = "archive" => pc[u] = "archive" /\ seen'[u] = seen[u] /\ dir'[u] = dir[u],
         \A p \in orphans : p \in orphans' /\ proc'[p].user = proc[p].user
  PROVE  DigestInv'
BY DEF DigestInv

(* While a snapshot is taken, only a process that was given up can write: every other one of the user is gone. *)
LEMMA StepDigestInv == TypeOK /\ PlaceInv /\ ProcInv /\ OwnInv /\ FileInv /\ DigestInv /\ [Next]_vars => DigestInv'
<1> SUFFICES ASSUME TypeOK /\ PlaceInv /\ ProcInv /\ OwnInv /\ FileInv /\ DigestInv, [Next]_vars PROVE DigestInv'
  OBVIOUS
<1> USE HostAssumption DEF opRest, opVars, fileVars, TypeOK, OpTypes, HostTypes, FileTypes, PlaceInv, ProcInv,
   OwnInv, FileInv, DigestInv, Present, Spawned, HasPort, Starting, OnFiles, Goto
<1>a. ASSUME UNCHANGED <<pc, seen, dir, orphans, proc>> PROVE DigestInv'
  BY <1>a
<1>1. ASSUME NEW u \in Users, NEW k \in Asks[u], Begin(u, k) PROVE DigestInv'
  BY <1>1 DEF Begin, FirstLabel
<1>2. ASSUME NEW u \in Users, Restart(u) PROVE DigestInv'
  BY <1>2 DEF Restart
<1>3. ASSUME NEW u \in Users, Ensure(u) PROVE DigestInv'
  <2>1. UNCHANGED <<dir, proc, orphans>>
    BY <1>3 DEF Ensure
  <2>2. pc'[u] # "archive" /\ \A v \in Users : v # u => pc'[v] = pc[v] /\ seen'[v] = seen[v]
    BY <1>3 DEF Ensure, End, Ensured, Clear
  <2>3. QED
    BY <2>1, <2>2, DigestKept
<1>4. ASSUME NEW u \in Users, PickPort(u) PROVE DigestInv'
  BY <1>4 DEF PickPort
<1>5. ASSUME NEW u \in Users, Spawn(u) PROVE DigestInv'
  <2>1. CASE End(u) /\ UNCHANGED <<proc, dir, known>>
    BY <1>5, <2>1 DEF Spawn, End, Clear
  <2>2. CASE SpawnIn(u)
    <3>1. PICK p \in Procs :
             /\ proc[p].life = "none"
             /\ proc'[p].user = u /\ proc'[p].port = port[u] /\ proc'[p].life = "spawned"
             /\ \A q \in Procs : q # p => proc'[q] = proc[q]
             /\ child'[u] = p /\ \A v \in Users : v # u => child'[v] = child[v] /\ pc'[v] = pc[v]
             /\ pc'[u] = "poll" /\ UNCHANGED <<port, kind>>
      BY <2>2, NewProc
    <3>2. UNCHANGED <<orphans, seen>> /\ \A v \in Users : v # u => dir'[v] = dir[v]
      BY <1>5, <2>2 DEF Spawn, SpawnIn
    <3>3. \A q \in orphans : q \in Procs /\ q # p
      BY <3>1
    <3>4. QED
      BY <3>1, <3>2, <3>3, DigestKept
  <2>3. QED
    BY <1>5, <2>1, <2>2 DEF Spawn
<1>6. ASSUME NEW u \in Users, Poll(u) PROVE DigestInv'
  <2>1. orphans \subseteq orphans' /\ proc' = proc /\ dir' = dir
    BY <1>6 DEF Poll
  <2>2. \A v \in Users : pc'[v] = "archive" => pc[v] = "archive" /\ seen'[v] = seen[v]
    BY <1>6 DEF Poll, End, Clear
  <2> QED
    BY <2>1, <2>2
<1>7. ASSUME NEW u \in Users, Register(u) PROVE DigestInv'
  <2>1. UNCHANGED <<dir, proc, orphans>>
    BY <1>7 DEF Register
  <2>2. pc'[u] # "archive" /\ \A v \in Users : v # u => pc'[v] = pc[v] /\ seen'[v] = seen[v]
    BY <1>7 DEF Register, Ensured, Clear
  <2>3. QED
    BY <2>1, <2>2, DigestKept
<1>8. ASSUME NEW u \in Users, Answer(u) PROVE DigestInv'
  <2>1. UNCHANGED <<dir, proc, orphans>>
    BY <1>8 DEF Answer
  <2>2. pc'[u] # "archive" /\ \A v \in Users : v # u => pc'[v] = pc[v] /\ seen'[v] = seen[v]
    BY <1>8 DEF Answer, End, Clear
  <2>3. QED
    BY <2>1, <2>2, DigestKept
<1>9. ASSUME NEW u \in Users, Stop(u) PROVE DigestInv'
  <2>1. UNCHANGED <<dir, proc, orphans, seen>>
    BY <1>9 DEF Stop
  <2>2. pc'[u] # "archive" /\ \A v \in Users : v # u => pc'[v] = pc[v]
    BY <1>9 DEF Stop, AfterStop
  <2>3. QED
    BY <2>1, <2>2, DigestKept
<1>10. ASSUME NEW u \in Users, Exited(u) PROVE DigestInv'
  BY <1>10 DEF Exited, AfterStop
<1>11. ASSUME NEW u \in Users, StopFails(u) PROVE DigestInv'
  <2>1. UNCHANGED <<dir, proc, orphans>>
    BY <1>11 DEF StopFails
  <2>2. pc'[u] # "archive" /\ \A v \in Users : v # u => pc'[v] = pc[v] /\ seen'[v] = seen[v]
    BY <1>11 DEF StopFails, End, Clear
  <2>3. QED
    BY <2>1, <2>2, DigestKept
<1>12. ASSUME NEW u \in Users, Digest(u) PROVE DigestInv'
  BY <1>12 DEF Digest
<1>13. ASSUME NEW u \in Users, Archive(u) PROVE DigestInv'
  BY <1>13 DEF Archive
<1>31. ASSUME NEW u \in Users, Prune(u) PROVE DigestInv'
  BY <1>31 DEF Prune
<1>32. ASSUME NEW u \in Users, Unlist(u) PROVE DigestInv'
  <2>1. UNCHANGED <<seen, dir, proc, orphans>> /\ pc'[u] \in {"prune", "resume"}
        /\ \A v \in Users : v # u => pc'[v] = pc[v]
    BY <1>32 DEF Unlist
  <2>2. QED
    BY <2>1, DigestKept
<1>14. ASSUME NEW u \in Users, Load(u) PROVE DigestInv'
  <2>1. UNCHANGED <<dir, proc, orphans>>
    BY <1>14 DEF Load
  <2>2. pc'[u] # "archive" /\ \A v \in Users : v # u => pc'[v] = pc[v] /\ seen'[v] = seen[v]
    BY <1>14 DEF Load
  <2>3. QED
    BY <2>1, <2>2, DigestKept
<1>15. ASSUME NEW u \in Users, SwapOut(u) PROVE DigestInv'
  BY <1>15 DEF SwapOut
<1>16. ASSUME NEW u \in Users, SwapIn(u) PROVE DigestInv'
  BY <1>16 DEF SwapIn
<1>17. ASSUME NEW u \in Users, Drop(u) PROVE DigestInv'
  BY <1>17 DEF Drop
<1>18. ASSUME NEW u \in Users, Resume(u) PROVE DigestInv'
  <2>1. UNCHANGED <<dir, proc, orphans>>
    BY <1>18 DEF Resume
  <2>2. pc'[u] # "archive" /\ \A v \in Users : v # u => pc'[v] = pc[v] /\ seen'[v] = seen[v]
    BY <1>18 DEF Resume, End, Clear
  <2>3. QED
    BY <2>1, <2>2, DigestKept
<1>19. ASSUME NEW u \in Users, Check(u) PROVE DigestInv'
  <2>1. UNCHANGED <<dir, proc, orphans>>
    BY <1>19 DEF Check
  <2>2. pc'[u] # "archive" /\ \A v \in Users : v # u => pc'[v] = pc[v] /\ seen'[v] = seen[v]
    BY <1>19 DEF Check, End, Clear
  <2>3. QED
    BY <2>1, <2>2, DigestKept
<1>20. ASSUME NEW u \in Users, Purge(u) PROVE DigestInv'
  <2>1. UNCHANGED <<proc, orphans>> /\ \A v \in Users : v # u => dir'[v] = dir[v]
    BY <1>20 DEF Purge
  <2>2. pc'[u] # "archive" /\ \A v \in Users : v # u => pc'[v] = pc[v] /\ seen'[v] = seen[v]
    BY <1>20 DEF Purge, End, Clear
  <2>3. QED
    BY <2>1, <2>2, DigestKept
<1>21. ASSUME NEW p \in Procs, Open(p) PROVE DigestInv'
  <2>1. \A q \in Procs : proc'[q].user = proc[q].user
    BY <1>21, LifeSet DEF Open
  <2>2. UNCHANGED <<pc, seen, dir, orphans>>
    BY <1>21 DEF Open
  <2>3. QED
    BY <2>1, <2>2, DigestKept
<1>22. ASSUME NEW p \in Procs, Write(p) PROVE DigestInv'
  BY <1>22 DEF Write
<1>23. ASSUME NEW p \in Procs, Exit(p) PROVE DigestInv'
  <2>1. \A q \in Procs : proc'[q].user = proc[q].user
    BY <1>23, LifeSet DEF Exit
  <2>2. UNCHANGED <<pc, seen, dir, orphans>>
    BY <1>23 DEF Exit
  <2>3. QED
    BY <2>1, <2>2, DigestKept
<1>24. ASSUME NEW p \in Procs, ExitEvent(p) PROVE DigestInv'
  BY <1>24 DEF ExitEvent
<1>25. ASSUME NEW p \in Procs, Forget(p) PROVE DigestInv'
  BY <1>25 DEF Forget
<1>26. CASE Reboot
  BY <1>26 DEF Reboot
<1>27. CASE UNCHANGED vars
  BY <1>a, <1>27 DEF vars
<1>99. QED
  BY <1>1, <1>2, <1>3, <1>4, <1>5, <1>6, <1>7, <1>8, <1>9, <1>10, <1>11, <1>12, <1>13, <1>14, <1>15, <1>16,
     <1>31, <1>32, <1>17, <1>18, <1>19, <1>20, <1>21, <1>22, <1>23, <1>24, <1>25, <1>26, <1>27 DEF Next, OperationStep

(* What ListInv says stays true if the lists do, no user comes back from retirement and nobody comes to "unlist". *)
LEMMA ListKept ==
  ASSUME ListInv, snapshots' = snapshots, retired \subseteq retired',
         \A u \in Users : pc'[u] = "unlist" => pc[u] = "unlist"
  PROVE  ListInv'
BY DEF ListInv, SnapshotIntact

(* One user's list changes: it is enough that its newest entries are intact. *)
LEMMA ListChanged ==
  ASSUME ListInv, TypeOK, NEW u \in Users, retired' = retired,
         \A v \in Users : v # u => snapshots'[v] = snapshots[v] /\ pc'[v] = pc[v],
         u \notin retired => \A i \in DOMAIN snapshots'[u] :
             i > Len(snapshots'[u]) - Keep /\ ~snapshots'[u][i].torn => snapshots'[u][i].content # None,
         pc'[u] = "unlist" => snapshots'[u] # <<>>
  PROVE  ListInv'
BY DEF ListInv, SnapshotIntact

(* A snapshot just taken is intact or torn; of the newest Keep listed none is cut. *)
LEMMA StepListInv == TypeOK /\ PlaceInv /\ FileInv /\ DigestInv /\ ListInv /\ [Next]_vars => ListInv'
<1> SUFFICES ASSUME TypeOK /\ PlaceInv /\ FileInv /\ DigestInv /\ ListInv, [Next]_vars PROVE ListInv'
  OBVIOUS
<1> DEFINE intact(list) == \A i \in DOMAIN list : i > Len(list) - Keep /\ ~list[i].torn => list[i].content # None
<1>t. /\ snapshots \in [Users -> Seq(Snapshots)]
      /\ \A v \in Users : snapshots[v] \in Seq(Snapshots) /\ Len(snapshots[v]) \in Nat
                           /\ DOMAIN snapshots[v] = 1 .. Len(snapshots[v])
      /\ pc \in [Users -> Labels] /\ Keep \in Nat \ {0}
  BY HostAssumption, LenProperties DEF TypeOK, FileTypes, OpTypes
<1>i. ASSUME NEW v \in Users, v \notin retired PROVE intact(snapshots[v])
  BY <1>i DEF ListInv, SnapshotIntact
<1>1. ASSUME NEW u \in Users, Archive(u) PROVE ListInv'
  <2>1. CASE UNCHANGED snapshots
    BY <1>1, <2>1, <1>t, ListKept DEF Archive, Goto
  <2>2. CASE snapshots' = [snapshots EXCEPT ![u] = Append(@, Taken(u))]
    <3> DEFINE l == snapshots[u]
               n == Append(l, Taken(u))
    <3>1. snapshots'[u] = n /\ \A v \in Users : v # u => snapshots'[v] = snapshots[v]
      BY <2>2, <1>t
    <3>2. Taken(u) \in Snapshots /\ l \in Seq(Snapshots) /\ Len(l) \in Nat
      BY <1>t, TakenType
    <3>3. Len(n) = Len(l) + 1 /\ n[Len(l) + 1] = Taken(u) /\ \A i \in 1 .. Len(l) : n[i] = l[i]
      BY <3>2, AppendProperties
    <3>4. DOMAIN n = 1 .. Len(l) + 1 /\ DOMAIN l = 1 .. Len(l)
      BY <3>2, <3>3, AppendProperties, LenProperties
    <3>5. ~Taken(u).torn => Taken(u).content # None
      BY <1>1 DEF Taken, Archive, DigestInv, FileInv
    <3>6. ASSUME u \notin retired PROVE intact(n)
      <4> SUFFICES ASSUME NEW i \in DOMAIN n, i > Len(n) - Keep, ~n[i].torn PROVE n[i].content # None
        OBVIOUS
      <4>1. CASE i = Len(l) + 1
        BY <4>1, <3>3, <3>5
      <4>2. CASE i \in 1 .. Len(l)
        <5>1. i > Len(l) - Keep /\ n[i] = l[i] /\ i \in DOMAIN l
          BY <4>2, <3>2, <3>3, <3>4, <1>t
        <5>2. QED
          BY <5>1, <3>6, <1>i
      <4>3. QED
        BY <4>1, <4>2, <3>2, <3>4
    <3>7. retired' = retired /\ pc'[u] # "unlist" /\ \A v \in Users : v # u => pc'[v] = pc[v]
      BY <1>1, <1>t DEF Archive, Goto
    <3>8. QED
      BY <3>1, <3>6, <3>7, ListChanged
  <2>3. QED
    BY <1>1, <2>1, <2>2 DEF Archive
<1>2. ASSUME NEW u \in Users, Prune(u) PROVE ListInv'
  <2>1. CASE UNCHANGED snapshots /\ Goto(u, "resume")
    BY <1>2, <2>1, <1>t, ListKept DEF Prune, Goto
  <2>2. CASE Len(snapshots[u]) > Keep /\ snapshots' = [snapshots EXCEPT ![u][1] = Cut]
    <3> DEFINE l == snapshots[u]
               n == [l EXCEPT ![1] = Cut]
    <3>1. snapshots'[u] = n /\ \A v \in Users : v # u => snapshots'[v] = snapshots[v]
      BY <2>2, <1>t
    <3>2. l \in Seq(Snapshots) /\ Len(l) \in Nat /\ DOMAIN l = 1 .. Len(l) /\ l # <<>>
      BY <2>2, <1>t, EmptySeq
    <3>3. n \in Seq(Snapshots) /\ Len(n) = Len(l) /\ DOMAIN n = DOMAIN l
      BY <3>2, TakenType, ListCut
    <3>4. ASSUME u \notin retired PROVE intact(n)
      <4> SUFFICES ASSUME NEW i \in DOMAIN n, i > Len(n) - Keep, ~n[i].torn PROVE n[i].content # None
        OBVIOUS
      <4>1. i # 1 /\ i \in DOMAIN l /\ i > Len(l) - Keep
        BY <2>2, <3>2, <3>3, <1>t
      <4>2. n[i] = l[i]
        BY <4>1
      <4>3. QED
        BY <4>1, <4>2, <3>4, <1>i
    <3>5. n # <<>>
      BY <3>2, <3>3, EmptySeq
    <3>6. retired' = retired /\ \A v \in Users : v # u => pc'[v] = pc[v]
      BY <1>2, <1>t DEF Prune, Goto
    <3>7. QED
      BY <3>1, <3>4, <3>5, <3>6, ListChanged
  <2>3. QED
    BY <1>2, <2>1, <2>2 DEF Prune
<1>3. ASSUME NEW u \in Users, Unlist(u) PROVE ListInv'
  <2>1. CASE UNCHANGED snapshots
    BY <1>3, <2>1, <1>t, ListKept DEF Unlist, Goto
  <2>2. CASE snapshots' = [snapshots EXCEPT ![u] = Tail(@)]
    <3> DEFINE l == snapshots[u]
               n == Tail(l)
    <3>1. snapshots'[u] = n /\ \A v \in Users : v # u => snapshots'[v] = snapshots[v]
      BY <2>2, <1>t
    <3>2. l \in Seq(Snapshots) /\ Len(l) \in Nat /\ DOMAIN l = 1 .. Len(l) /\ l # <<>>
      BY <1>3, <1>t DEF ListInv, Unlist
    <3>3. n \in Seq(Snapshots) /\ Len(n) = Len(l) - 1 /\ \A i \in 1 .. Len(n) : n[i] = l[i + 1]
      BY <3>2, HeadTailProperties
    <3>4. Len(n) \in Nat /\ DOMAIN n = 1 .. Len(n)
      BY <3>3, LenProperties
    <3>5. ASSUME u \notin retired PROVE intact(n)
      <4> SUFFICES ASSUME NEW i \in DOMAIN n, i > Len(n) - Keep, ~n[i].torn PROVE n[i].content # None
        OBVIOUS
      <4>1. n[i] = l[i + 1] /\ i + 1 \in DOMAIN l /\ i + 1 > Len(l) - Keep
        BY <3>2, <3>3, <3>4, <1>t
      <4>2. QED
        BY <4>1, <3>5, <1>i
    <3>6. retired' = retired /\ pc'[u] # "unlist" /\ \A v \in Users : v # u => pc'[v] = pc[v]
      BY <1>3, <1>t DEF Unlist, Goto
    <3>7. QED
      BY <3>1, <3>5, <3>6, ListChanged
  <2>3. QED
    BY <1>3, <2>1, <2>2 DEF Unlist
<1>4. ASSUME NEW u \in Users, Purge(u) PROVE ListInv'
  <2>1. UNCHANGED retired /\ pc'[u] = "idle" /\ \A v \in Users : v # u => pc'[v] = pc[v]
    BY <1>4, <1>t DEF Purge, End, Clear, Goto
  <2>2. CASE UNCHANGED snapshots
    BY <2>1, <2>2, ListKept
  <2>3. CASE u \in retired /\ snapshots' = [snapshots EXCEPT ![u] = <<>>]
    <3>1. \A v \in Users : v # u => snapshots'[v] = snapshots[v]
      BY <2>3, <1>t
    <3>2. QED
      BY <2>1, <2>3, <3>1, ListChanged
  <2>4. QED
    BY <1>4, <2>2, <2>3 DEF Purge
<1>5. ASSUME NEW u \in Users, Ensure(u) \/ Spawn(u) \/ Poll(u) \/ Register(u) \/ Answer(u) \/ StopFails(u)
                \/ Resume(u) \/ Check(u)
      PROVE ListInv'
  <2>1. UNCHANGED snapshots /\ retired \subseteq retired'
    BY <1>5 DEF fileVars, Ensure, Spawn, Poll, Register, Answer, StopFails, Resume, Check
  <2>2. pc'[u] # "unlist" /\ \A v \in Users : v # u => pc'[v] = pc[v]
    BY <1>5, <1>t DEF Ensure, Spawn, SpawnIn, Poll, Register, Ensured, Answer, StopFails, Resume, Check, End,
       Clear, Goto
  <2>3. QED
    BY <2>1, <2>2, ListKept
<1>6. ASSUME NEW u \in Users, Restart(u) \/ PickPort(u) \/ Digest(u) \/ Load(u) \/ SwapOut(u) \/ SwapIn(u)
                \/ Drop(u) \/ (\E k \in Asks[u] : Begin(u, k))
      PROVE ListInv'
  <2>1. UNCHANGED <<snapshots, retired>>
    BY <1>6 DEF fileVars, Restart, PickPort, Digest, Load, SwapOut, SwapIn, Drop, Begin
  <2>2. pc'[u] # "unlist" /\ \A v \in Users : v # u => pc'[v] = pc[v]
    BY <1>6, <1>t, HostAssumption DEF Restart, PickPort, Digest, Load, SwapOut, SwapIn, Drop, Begin, FirstLabel, Goto
  <2>3. QED
    BY <2>1, <2>2, ListKept
<1>7. ASSUME NEW u \in Users, Stop(u) \/ Exited(u) PROVE ListInv'
  <2>1. UNCHANGED <<snapshots, retired>>
    BY <1>7 DEF fileVars, Stop, Exited
  <2>2. \A v \in Users : v # u => pc'[v] = pc[v]
    BY <1>7, <1>t DEF Stop, Exited, Goto
  <2>3. pc'[u] # "unlist"
    BY <1>7, <1>t DEF Stop, Exited, AfterStop, Goto, PlaceInv
  <2>4. QED
    BY <2>1, <2>2, <2>3, ListKept
<1>8. ASSUME NEW p \in Procs, Open(p) \/ Write(p) \/ Exit(p) \/ ExitEvent(p) \/ Forget(p) PROVE ListInv'
  <2>1. UNCHANGED <<snapshots, retired, pc>>
    BY <1>8 DEF fileVars, opVars, Open, Write, Exit, ExitEvent, Forget
  <2>2. QED
    BY <2>1, ListKept
<1>9. CASE Reboot
  BY <1>9, ListKept DEF Reboot, fileVars
<1>10. CASE UNCHANGED vars
  BY <1>10, ListKept DEF vars, fileVars, opVars
<1>11. QED
  BY <1>1, <1>2, <1>3, <1>4, <1>5, <1>6, <1>7, <1>8, <1>9, <1>10 DEF Next, OperationStep

-----------------------------------------------------------------------------
(* The invariant, and what follows from it.                                *)

\* Every step keeps the whole of it.
LEMMA StepIInv == IInv /\ [Next]_vars => IInv'
<1> SUFFICES ASSUME IInv, [Next]_vars PROVE IInv'
  OBVIOUS
<1>1. TypeOK /\ PlaceInv /\ ProcInv /\ OwnInv /\ PortInv /\ AliveInv /\ CountInv /\ FileInv /\ DigestInv
      /\ ListInv
  BY DEF IInv
<1>2. TypeOK'
  <2>1. OpTypes'
    BY <1>1, StepOpTypes DEF TypeOK
  <2>2. HostTypes'
    BY <1>1, StepHostTypes
  <2>3. FileTypes'
    BY <1>1, StepFileTypes
  <2>4. QED
    BY <2>1, <2>2, <2>3 DEF TypeOK
<1>3. PlaceInv' /\ ProcInv' /\ OwnInv'
  BY <1>1, StepPlaceInv, StepProcInv, StepOwnInv
<1>4. PortInv' /\ AliveInv' /\ CountInv'
  BY <1>1, StepPortInv, StepAliveInv, StepCountInv
<1>5. FileInv' /\ DigestInv' /\ ListInv'
  BY <1>1, StepFileInv, StepDigestInv, StepListInv
<1>6. QED
  BY <1>2, <1>3, <1>4, <1>5 DEF IInv

\* The inductive invariant holds in every reachable state: from here on the theorems only read it.
LEMMA HostInvariant == Spec => []IInv
BY InitIInv, StepIInv, PTL DEF Spec

\* The variables keep their types, whatever the host and the operating system do.
THEOREM HostTypesOK == Spec => []TypeOK
<1>1. IInv => TypeOK
  BY DEF IInv
<1>2. QED
  BY <1>1, HostInvariant, PTL

\* While a snapshot is taken or a restore swaps directories (index.mjs, withUserOperation), no process of the user
\* runs but one that was given up: by OwnInv any other would be registered or being started, and at those places
\* the user has neither.
THEOREM NobodyElseWrites == Spec => []AloneWithData
<1>1. IInv => AloneWithData
  BY DEF IInv, AloneWithData, OwnInv, PlaceInv, Present, Live, OnFiles, Spawned, Starting
<1>2. QED
  BY <1>1, HostInvariant, PTL

\* The registry is right: a registered node's exit was not handled and nobody else listens on its port, if the host
\* loses no race with the operating system; and it never counts more nodes than allowed, even if it does.
THEOREM RegistryIsRight == Spec => []RegistryHolds
<1>1. IInv => RegistryHolds
  <2> SUFFICES ASSUME IInv PROVE RegistryHolds
    OBVIOUS
  <2>1. ASSUME Faults = {}, NEW u \in Users, node[u] # None
        PROVE  proc[node[u].proc].life # "gone"
    BY <2>1 DEF IInv, AliveInv, Present
  <2>2. ASSUME Faults = {}, NEW u \in Users, node[u] # None, NEW p \in Listening(node[u].port)
        PROVE  proc[p].user = u
    <3> DEFINE c == node[u].proc
    <3>1. c \in Procs
      BY <2>2 DEF IInv, TypeOK, HostTypes, Nodes
    <3>2. proc[c].user = u /\ proc[c].port = node[u].port /\ Present(c)
      BY <2>2 DEF IInv, ProcInv, AliveInv
    <3>3. p \in Procs /\ proc[p].life = "open" /\ proc[p].port = node[u].port
      BY <2>2 DEF Listening
    <3>4. p = c
      BY <2>2, <3>1, <3>2, <3>3 DEF IInv, PortInv, Present, Live
    <3>5. QED
      BY <3>2, <3>4
  <2>3. Cardinality(InUse) <= MaxNodes
    BY DEF IInv, CountInv
  <2>4. QED
    BY <2>1, <2>2, <2>3 DEF RegistryHolds
<1>2. QED
  BY <1>1, HostInvariant, PTL

\* An identity once given is never replaced by a new one, through every interrupted or failed restore, and no node
\* starts over a directory such a restore left behind.
THEOREM IdentityIsKept == Spec => []IdentityKept
<1>1. IInv => IdentityKept
  BY DEF IInv, FileInv, IdentityKept, Spawned
<1>2. QED
  BY <1>1, HostInvariant, PTL

\* Each of the newest snapshots of a user is one a restore accepts, through failed and interrupted archives, removals
\* and restores, unless a node that was given up ran while it was taken: Archive lists nothing else, since the data is
\* the operation's own until then, and only older snapshots lose their archives.
THEOREM SnapshotsAreIntact == Spec => []SnapshotIntact
<1>1. IInv => SnapshotIntact
  BY DEF IInv, ListInv
<1>2. QED
  BY <1>1, HostInvariant, PTL
=============================================================================
