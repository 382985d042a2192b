------------------------ MODULE NodeLifecycleProofs ------------------------
(* Theorems about the nodes of the browser: about NodeLifecycle, one KeyWay, for any number of calls; and about *)
(* Provider, the page that makes and drops the KeyWays, for any number of sign-ins, connect calls and habits. *)
EXTENDS NodeLifecycle, Provider, SequenceTheorems, TLAPS

-----------------------------------------------------------------------------
(* Types *)

LEMMA InitTypeOK == Init => TypeOK
<1> SUFFICES ASSUME Init
             PROVE  TypeOK
  OBVIOUS
<1>1. "idle" \in RunPc /\ "idle" \in StopPc
  BY DEF RunPc, StopPc
<1>2. pc \in [Calls -> RunPc \cup StopPc] /\ \A c \in Calls : pc[c] = "idle"
  BY <1>1 DEF Init
<1>3. overtakenStart \in [Stops -> SUBSET Runs]
  BY DEF Init
<1>4. QED
  BY <1>1, <1>2, <1>3 DEF Init, TypeOK, Calls

(* A call that goes to a label of its kind keeps the type of pc. *)
LEMMA RunLabel ==
  ASSUME TypeOK, NEW r \in Runs, NEW l \in RunPc, Goto(r, l)
  PROVE  /\ pc' \in [Calls -> RunPc \cup StopPc]
         /\ \A q \in Runs : pc'[q] \in RunPc
         /\ \A s \in Stops : pc'[s] \in StopPc
BY LifecycleAssumption DEF TypeOK, Goto, Calls

LEMMA StopLabel ==
  ASSUME TypeOK, NEW s \in Stops, NEW l \in StopPc, Goto(s, l)
  PROVE  /\ pc' \in [Calls -> RunPc \cup StopPc]
         /\ \A r \in Runs : pc'[r] \in RunPc
         /\ \A t \in Stops : pc'[t] \in StopPc
BY LifecycleAssumption DEF TypeOK, Goto, Calls

(* Each step keeps the types; one step per action. *)
LEMMA StepTypeOK == TypeOK /\ [Next]_vars => TypeOK'
<1> SUFFICES ASSUME TypeOK, [Next]_vars
             PROVE  TypeOK'
  OBVIOUS
<1> USE LifecycleAssumption
    DEF TypeOK, Calls, Goto, callVars, bridgeVars, deviceVars
<1>1. ASSUME NEW r \in Runs, Start(r)
      PROVE  TypeOK'
  BY <1>1 DEF Start, Present, RunPc, StopPc
<1>2. ASSUME NEW r \in Runs, BeginRun(r)
      PROVE  TypeOK'
  BY <1>2 DEF BeginRun, RunPc, StopPc, Claiming
<1>3. ASSUME NEW r \in Runs, AcquireLock(r)
      PROVE  TypeOK'
  BY <1>3 DEF AcquireLock, CatchLabel, RunPc, StopPc, Claiming, Releasing
<1>4. ASSUME NEW r \in Runs, AcquireLease(r)
      PROVE  TypeOK'
  <2>1. lease' \in BOOLEAN
    BY <1>4 DEF AcquireLease
  <2>2. QED
    BY <2>1, <1>4
    DEF AcquireLease, CatchLabel, RunPc, StopPc, Claiming, Releasing
<1>5. ASSUME NEW r \in Runs, EndClaim(r)
      PROVE  TypeOK'
  BY <1>5 DEF EndClaim, CatchLabel, RunPc, StopPc, WithNode, Releasing
<1>6. ASSUME NEW r \in Runs, NodeStart(r)
      PROVE  TypeOK'
  BY <1>6 DEF NodeStart, CatchLabel, RunPc, StopPc, WithNode, Releasing
<1>7. ASSUME NEW r \in Runs, AfterNodeStart(r)
      PROVE  TypeOK'
  <2>1. timers' \in BOOLEAN
    BY <1>7 DEF AfterNodeStart
  <2>2. QED
    BY <2>1, <1>7 DEF AfterNodeStart, CallNodeStop, IsRunning, RunPc, StopPc, WithNode
<1>8. ASSUME NEW r \in Runs, Undone(r)
      PROVE  TypeOK'
  <2>1. leftUp' \in BOOLEAN
    BY <1>8 DEF Undone, NodeIsDown, NodeStopRejected
  <2>2. node' \in {"down", "up", "stopping"}
    BY <1>8 DEF Undone, NodeIsDown, NodeStopRejected
  <2>3. QED
    BY <2>1, <2>2, <1>8 DEF Undone, RunPc, StopPc
<1>9. ASSUME NEW r \in Runs, SettleRun(r)
      PROVE  TypeOK'
  BY <1>9 DEF SettleRun, RunPc, StopPc, Done
<1>10. ASSUME NEW c \in Calls, ReleaseGuards(c)
       PROVE  TypeOK'
  <2>1. lease' \in BOOLEAN
    BY <1>10 DEF ReleaseGuards, CloseBridge, BridgeClosed, ForgetLease, ReleaseLock
  <2>2. QED
    BY <2>1, <1>10 DEF ReleaseGuards, CloseBridge, BridgeClosed, ForgetLease, ReleaseLock, RunPc, StopPc,
       Releasing
<1>11. ASSUME NEW s \in Stops, NEW k \in {"stop", "logout"}, CallStop(s, k)
       PROVE  TypeOK'
  BY <1>11 DEF CallStop, Present, RunPc, StopPc
<1>12. ASSUME NEW s \in Stops,
              StopTimers(s) \/ TimersStopped(s) \/ StopNode(s) \/ NodeStopped(s)
       PROVE  TypeOK'
  <2>1. timers' \in BOOLEAN /\ leftUp' \in BOOLEAN
    BY <1>12 DEF StopTimers, TimersStopped, StopNode, NodeStopped, NodeIsDown, NodeStopRejected
  <2>2. QED
    BY <2>1, <1>12
    DEF StopTimers, TimersStopped, StopNode, NodeStopped, NodeIsDown, NodeStopRejected, CallNodeStop, IsRunning,
        RunPc, StopPc
<1>13. ASSUME NEW s \in Stops, StartSettled(s)
       PROVE  TypeOK'
  <2>1. timers' \in BOOLEAN
    BY <1>13 DEF StartSettled
  <2>2. QED
    BY <2>1, <1>13 DEF StartSettled, RunPc, StopPc, Releasing
<1>14. ASSUME NEW s \in Stops,
              LoadKey(s) \/ BackupStopNode(s) \/ BackupNodeStopped(s)
              \/ BackupDrained(s)
       PROVE  TypeOK'
  <2>1. leftUp' \in BOOLEAN
    BY <1>14 DEF LoadKey, BackupStopNode, BackupNodeStopped, BackupDrained, NodeIsDown, NodeStopRejected
  <2>2. QED
    BY <2>1, <1>14
    DEF LoadKey, BackupStopNode, BackupNodeStopped, BackupDrained, NodeIsDown, NodeStopRejected, IsRunning, RunPc,
        StopPc
<1>15. ASSUME NEW s \in Stops, CreateBackup(s) \/ SaveBackup(s)
       PROVE  TypeOK'
  BY <1>15 DEF CreateBackup, SaveBackup, RunPc, StopPc, Releasing
<1>16. ASSUME NEW s \in Stops, SettleStop(s)
       PROVE  TypeOK'
  BY <1>16 DEF SettleStop, RunPc, StopPc, Done
<1>17. CASE Background
  <2>1. pass' \in BOOLEAN
    BY <1>17 DEF Background, NodeDown, SendCall, StoreCall, BridgeDrained, WatchNow, EndPass, OtherTab
  <2>2. QED
    BY <2>1, <1>17 DEF Background, NodeDown, SendCall, StoreCall, BridgeDrained, WatchNow, EndPass, OtherTab
<1>18. CASE UNCHANGED vars
  BY <1>18 DEF vars
<1>19. QED
  BY <1>1, <1>2, <1>3, <1>4, <1>5, <1>6, <1>7, <1>8, <1>9, <1>10, <1>11, <1>12, <1>13, <1>14, <1>15, <1>16,
     <1>17, <1>18
  DEF Next, RunStep, StopStep

(* The variables keep their types, however calls interleave. *)
THEOREM LifecycleTypes == Spec => []TypeOK
BY InitTypeOK, StepTypeOK, PTL DEF Spec

-----------------------------------------------------------------------------
(* The order of the calls *)

LEMMA InitOrderInv == Init => OrderInv
<1> SUFFICES ASSUME Init
             PROVE  OrderInv
  OBVIOUS
<1>1. \A c \in Calls : ~Unsettled(c) /\ before[c] = {} /\ calledAt[c] = 0
  BY DEF Init, Unsettled
<1>2. Runs \subseteq Calls /\ Stops \subseteq Calls
  BY DEF Calls
<1>3. \A s \in Stops : overtakenStart[s] = {}
  BY DEF Init
<1>4. WaitsForCalled
  BY <1>1, <1>2, <1>3 DEF WaitsForCalled, Init
<1>5. NewestStop /\ NewestStart
  BY <1>1, <1>2 DEF NewestStop, NewestStart, Init
<1>6. StopsInOrder /\ StartsInOrder /\ StartAfterStop /\ StopAfterStart
      /\ OvertakenByStop
  BY <1>1, <1>2
  DEF StopsInOrder, StartsInOrder, StartAfterStop, StopAfterStart,
      OvertakenByStop
<1>7. QED
  BY <1>4, <1>5, <1>6, InitTypeOK DEF OrderInv

(* What a step inside a call does to the order: the call stays unsettled, it
   leaves "waiting" only once what it waited for has settled, and a stop goes
   beyond BeforeAwait only once the start it overtook has. *)
InnerStep(c, l) ==
    /\ Goto(c, l)
    /\ UNCHANGED callVars
    /\ Unsettled(c)
    /\ l \notin Done \cup {"idle", "waiting"}
    /\ pc[c] = "waiting" => \A d \in before[c] : Settled(d)
    /\ c \in Stops /\ l \notin BeforeAwait
       => pc[c] \notin BeforeAwait \/ \A r \in overtakenStart[c] : Settled(r)

LEMMA InnerStepOrder ==
  ASSUME OrderInv, TypeOK', NEW c \in Calls, NEW l, InnerStep(c, l)
  PROVE  OrderInv'
<1> USE LifecycleAssumption
<1>1. /\ pc' = [pc EXCEPT ![c] = l]
      /\ generation' = generation /\ starting' = starting
      /\ stopping' = stopping /\ calledAt' = calledAt
      /\ before' = before /\ overtakenStart' = overtakenStart
  BY DEF InnerStep, Goto, callVars
<1>2. pc \in [Calls -> RunPc \cup StopPc]
  BY DEF OrderInv, TypeOK
<1>3. \A d \in Calls : /\ d # c => pc'[d] = pc[d]
                       /\ pc'[c] = l
  BY <1>1, <1>2
<1>4. \A d \in Calls : Unsettled(d)' <=> Unsettled(d)
  BY <1>3 DEF InnerStep, Unsettled
<1>5. Runs \subseteq Calls /\ Stops \subseteq Calls
  BY DEF Calls
<1>6. \A d \in Calls : before[d] \subseteq Calls
  BY DEF OrderInv, TypeOK
<1>7. \A s \in Stops : overtakenStart[s] \subseteq Runs
  BY DEF OrderInv, TypeOK
<1>8. WaitsForCalled'
  BY <1>1, <1>3, <1>5, <1>6, <1>7
  DEF OrderInv, WaitsForCalled, InnerStep
<1>9. NewestStop' /\ NewestStart'
  <2>1. starting \in Runs \cup {None} /\ stopping \in Stops \cup {None}
    BY DEF OrderInv, TypeOK
  <2>2. QED
    BY <2>1, <1>1, <1>4, <1>5 DEF OrderInv, NewestStop, NewestStart
<1>10. \A b \in Calls, P \in SUBSET Calls :
          (\E e \in P : Unsettled(e) /\ calledAt[e] >= calledAt[b])
          => \E e \in P : Unsettled(e)' /\ calledAt'[e] >= calledAt'[b]
  BY <1>1, <1>4
<1>11. (\E e \in before[c] : Unsettled(e)) => pc[c] # "waiting"
  BY <1>6 DEF InnerStep, Settled, Unsettled
<1>12. StopsInOrder'
  <2> SUFFICES ASSUME NEW s \in Stops, NEW t \in Stops, s # t,
                      Unsettled(s)', Unsettled(t)'
               PROVE  /\ calledAt[s] # calledAt[t]
                      /\ calledAt[s] > calledAt[t] =>
                           /\ pc'[s] = "waiting"
                           /\ WaitsFor(s, t, before[s] \cap Stops)'
    BY <1>1 DEF StopsInOrder
  <2>1. Unsettled(s) /\ Unsettled(t)
    BY <1>4, <1>5
  <2>2. /\ calledAt[s] # calledAt[t]
        /\ calledAt[s] > calledAt[t] =>
             pc[s] = "waiting" /\ WaitsFor(s, t, before[s] \cap Stops)
    BY <2>1 DEF OrderInv, StopsInOrder
  <2>3. before[s] \cap Stops \in SUBSET Calls
    BY <1>5
  <2>4. QED
    BY <2>2, <2>3, <1>1, <1>3, <1>5, <1>10, <1>11 DEF WaitsFor
<1>13. StartsInOrder'
  <2> SUFFICES ASSUME NEW r \in Runs, NEW q \in Runs, r # q,
                      Unsettled(r)', Unsettled(q)'
               PROVE  /\ calledAt[r] # calledAt[q]
                      /\ calledAt[r] > calledAt[q] =>
                           /\ pc'[r] = "waiting"
                           /\ WaitsFor(r, q, before[r] \cap Runs)'
    BY <1>1 DEF StartsInOrder
  <2>1. Unsettled(r) /\ Unsettled(q)
    BY <1>4, <1>5
  <2>2. /\ calledAt[r] # calledAt[q]
        /\ calledAt[r] > calledAt[q] =>
             pc[r] = "waiting" /\ WaitsFor(r, q, before[r] \cap Runs)
    BY <2>1 DEF OrderInv, StartsInOrder
  <2>3. before[r] \cap Runs \in SUBSET Calls
    BY <1>5
  <2>4. QED
    BY <2>2, <2>3, <1>1, <1>3, <1>5, <1>10, <1>11 DEF WaitsFor
<1>14. StartAfterStop'
  <2> SUFFICES ASSUME NEW r \in Runs, NEW s \in Stops, Unsettled(r)',
                      Unsettled(s)', calledAt[r] >= calledAt[s]
               PROVE  /\ pc'[r] = "waiting"
                      /\ WaitsFor(r, s, before[r] \cap Stops)'
    BY <1>1 DEF StartAfterStop
  <2>1. Unsettled(r) /\ Unsettled(s)
    BY <1>4, <1>5
  <2>2. pc[r] = "waiting" /\ WaitsFor(r, s, before[r] \cap Stops)
    BY <2>1 DEF OrderInv, StartAfterStop
  <2>3. before[r] \cap Stops \in SUBSET Calls
    BY <1>5
  <2>4. QED
    BY <2>2, <2>3, <1>1, <1>3, <1>5, <1>10, <1>11 DEF WaitsFor
<1>15. StopAfterStart'
  <2> SUFFICES ASSUME NEW r \in Runs, NEW s \in Stops, Unsettled(r)',
                      Unsettled(s)', calledAt[r] < calledAt[s]
               PROVE  /\ pc'[s] \in BeforeAwait
                      /\ WaitsFor(s, r, overtakenStart[s])'
    BY <1>1 DEF StopAfterStart
  <2>1. Unsettled(r) /\ Unsettled(s)
    BY <1>4, <1>5
  <2>2. pc[s] \in BeforeAwait /\ WaitsFor(s, r, overtakenStart[s])
    BY <2>1 DEF OrderInv, StopAfterStart
  <2>3. overtakenStart[s] \in SUBSET Calls
    BY <1>5, <1>7
  <2>4. \E e \in overtakenStart[s] : ~Settled(e)
    BY <2>2 DEF WaitsFor, Unsettled, Settled
  <2>5. s = c => l \in BeforeAwait
    BY <2>2, <2>4 DEF InnerStep
  <2>6. QED
    BY <2>2, <2>3, <2>5, <1>1, <1>3, <1>5, <1>10 DEF WaitsFor
<1>16. OvertakenByStop'
  BY <1>1, <1>4, <1>5 DEF OrderInv, OvertakenByStop, Overtaken
<1>17. QED
  BY <1>8, <1>9, <1>12, <1>13, <1>14, <1>15, <1>16 DEF OrderInv

(* What OrderInv says of the calls and what they wait for, in Calls. *)
LEMMA OrderTypes ==
  ASSUME TypeOK
  PROVE  /\ Runs \subseteq Calls /\ Stops \subseteq Calls
         /\ generation \in Nat
         /\ starting \in Runs \cup {None} /\ stopping \in Stops \cup {None}
         /\ \A c \in Calls : calledAt[c] \in Nat /\ before[c] \subseteq Calls
         /\ \A s \in Stops : overtakenStart[s] \subseteq Runs
BY DEF TypeOK, Calls

(* A start call: it is the newest, and waits for the newest before it. *)
LEMMA StartOrder ==
  ASSUME OrderInv, TypeOK', NEW r \in Runs, Start(r)
  PROVE  OrderInv'
<1> USE LifecycleAssumption
<1> TypeOK
  BY DEF OrderInv
<1>1. /\ pc' = [pc EXCEPT ![r] = "waiting"]
      /\ generation' = generation /\ starting' = r /\ stopping' = stopping
      /\ calledAt' = [calledAt EXCEPT ![r] = generation]
      /\ before' = [before EXCEPT ![r] = Present(starting) \cup Present(stopping)]
      /\ overtakenStart' = overtakenStart
      /\ pc[r] = "idle"
  BY DEF Start, Goto
<1>2. starting # None => calledAt[starting] # generation
  BY DEF Start
<1>3. /\ \A c \in Calls \ {r} : /\ pc'[c] = pc[c]
                                /\ calledAt'[c] = calledAt[c]
                                /\ before'[c] = before[c]
                                /\ Unsettled(c)' <=> Unsettled(c)
      /\ pc'[r] = "waiting" /\ calledAt'[r] = generation
      /\ before'[r] = Present(starting) \cup Present(stopping)
      /\ r \in Calls /\ ~Unsettled(r) /\ Unsettled(r)'
  BY <1>1 DEF TypeOK, Unsettled, Calls, Done
<1>4. /\ starting # None => Unsettled(starting) /\ starting \in Runs
      /\ stopping # None => Unsettled(stopping) /\ stopping \in Stops
      /\ \A q \in Runs : Unsettled(q) =>
            starting # None /\ calledAt[q] <= calledAt[starting]
      /\ \A s \in Stops : Unsettled(s) =>
            stopping # None /\ calledAt[s] <= calledAt[stopping]
  BY OrderTypes DEF OrderInv, NewestStart, NewestStop
<1>5. \A c \in Calls : calledAt[c] <= generation
  BY DEF OrderInv, WaitsForCalled
<1>6. \A c \in Calls : pc'[c] = "idle" => pc[c] = "idle" /\ c # r
  BY <1>3
<1>7. WaitsForCalled'
  <2>1. \A c \in Calls : calledAt'[c] <= generation
    BY <1>3, <1>5, OrderTypes
  <2>2. \A c \in Calls \ {r} : \A d \in before'[c] : pc'[d] # "idle"
    BY <1>3, <1>6, OrderTypes DEF OrderInv, WaitsForCalled
  <2>3. \A d \in before'[r] : pc'[d] # "idle"
    BY <1>3, <1>4, <1>6, OrderTypes DEF Present, Unsettled
  <2>4. \A s \in Stops : \A q \in overtakenStart[s] : pc'[q] # "idle"
    BY <1>6, OrderTypes DEF OrderInv, WaitsForCalled
  <2>5. QED
    BY <1>1, <2>1, <2>2, <2>3, <2>4 DEF WaitsForCalled
<1>8. Stops \subseteq Calls \ {r}
  BY OrderTypes
<1>9. NewestStop'
  BY <1>1, <1>3, <1>8, OrderTypes DEF OrderInv, NewestStop
<1>10. NewestStart'
  <2>1. \A q \in Runs : calledAt'[q] <= calledAt'[r]
    BY <1>3, <1>5, OrderTypes
  <2>2. r # None
    OBVIOUS
  <2>3. QED
    BY <1>1, <1>3, <2>1, <2>2 DEF NewestStart
<1>11. \A c \in Calls, P \in SUBSET Calls :
          c # r =>
            ((\E e \in P : Unsettled(e) /\ calledAt[e] >= calledAt[c])
             => \E e \in P : Unsettled(e)' /\ calledAt'[e] >= calledAt'[c])
  BY <1>3
<1>12. StopsInOrder'
  <2> SUFFICES ASSUME NEW s \in Stops, NEW t \in Stops, s # t,
                      Unsettled(s)', Unsettled(t)'
               PROVE  /\ calledAt'[s] # calledAt'[t]
                      /\ calledAt'[s] > calledAt'[t] =>
                           /\ pc'[s] = "waiting"
                           /\ WaitsFor(s, t, before[s] \cap Stops)'
    BY DEF StopsInOrder
  <2>1. s \in Calls \ {r} /\ t \in Calls \ {r}
    BY <1>8
  <2>2. /\ calledAt[s] # calledAt[t]
        /\ calledAt[s] > calledAt[t] =>
             pc[s] = "waiting" /\ WaitsFor(s, t, before[s] \cap Stops)
    BY <2>1, <1>3 DEF OrderInv, StopsInOrder
  <2>3. before[s] \cap Stops \in SUBSET Calls
    BY OrderTypes
  <2>4. QED
    BY <2>1, <2>2, <2>3, <1>3, <1>11 DEF WaitsFor
<1>13. StartsInOrder'
  <2> SUFFICES ASSUME NEW p \in Runs, NEW q \in Runs, p # q,
                      Unsettled(p)', Unsettled(q)'
               PROVE  /\ calledAt'[p] # calledAt'[q]
                      /\ calledAt'[p] > calledAt'[q] =>
                           /\ pc'[p] = "waiting"
                           /\ WaitsFor(p, q, before[p] \cap Runs)'
    BY DEF StartsInOrder
  <2>1. p \in Calls /\ q \in Calls
    BY OrderTypes
  <2>2. CASE p # r /\ q # r
    <3>1. /\ calledAt[p] # calledAt[q]
          /\ calledAt[p] > calledAt[q] =>
               pc[p] = "waiting" /\ WaitsFor(p, q, before[p] \cap Runs)
      BY <2>1, <2>2, <1>3 DEF OrderInv, StartsInOrder
    <3>2. before[p] \cap Runs \in SUBSET Calls
      BY OrderTypes
    <3>3. QED
      BY <2>1, <2>2, <3>1, <3>2, <1>3, <1>11 DEF WaitsFor
  <2>3. ASSUME NEW o \in Runs, o # r, Unsettled(o)'
        PROVE  /\ \E e \in Runs : /\ e = starting /\ Unsettled(e)'
                                  /\ calledAt'[e] >= calledAt'[o]
               /\ calledAt'[o] < calledAt'[r]
    <3>1. Unsettled(o) /\ o \in Calls
      BY <2>3, <1>3, OrderTypes
    <3>2. PICK e \in Runs : /\ e = starting /\ Unsettled(e)
                            /\ calledAt[o] <= calledAt[e]
      BY <3>1, <1>4
    <3>3. /\ e \in Calls /\ e # r /\ e # None
          /\ Unsettled(e)' /\ calledAt'[e] = calledAt[e]
          /\ calledAt'[o] = calledAt[o] /\ calledAt'[r] = generation
      BY <2>3, <3>1, <3>2, <1>3, OrderTypes
    <3>4. /\ calledAt[e] \in Nat /\ calledAt[o] \in Nat
          /\ generation \in Nat /\ calledAt[e] <= generation
          /\ calledAt[e] # generation
      BY <3>1, <3>2, <3>3, <1>2, <1>5, OrderTypes
    <3>5. QED
      BY <3>2, <3>3, <3>4
  <2>4. CASE p = r
    <3>1. PICK e \in Runs : /\ e = starting /\ Unsettled(e)'
                            /\ calledAt'[e] >= calledAt'[q]
      BY <2>3, <2>4
    <3>2. e \in before'[r] \cap Runs
      BY <3>1, <1>3 DEF Present
    <3>3. WaitsFor(r, q, before[r] \cap Runs)'
      BY <3>1, <3>2 DEF WaitsFor
    <3>4. calledAt'[r] # calledAt'[q]
      BY <2>3, <2>4, <2>1, <1>3, OrderTypes
    <3>5. QED
      BY <3>3, <3>4, <2>4, <1>3
  <2>5. CASE q = r
    BY <2>3, <2>5, <2>1, <1>3, OrderTypes
  <2>6. QED
    BY <2>2, <2>4, <2>5
<1>14. StartAfterStop'
  <2> SUFFICES ASSUME NEW q \in Runs, NEW s \in Stops, Unsettled(q)',
                      Unsettled(s)', calledAt'[q] >= calledAt'[s]
               PROVE  /\ pc'[q] = "waiting"
                      /\ WaitsFor(q, s, before[q] \cap Stops)'
    BY DEF StartAfterStop
  <2>1. q \in Calls /\ s \in Calls \ {r} /\ Unsettled(s)
    BY <1>3, <1>8, OrderTypes
  <2>2. CASE q # r
    <3>1. pc[q] = "waiting" /\ WaitsFor(q, s, before[q] \cap Stops)
      BY <2>1, <2>2, <1>3 DEF OrderInv, StartAfterStop
    <3>2. before[q] \cap Stops \in SUBSET Calls
      BY OrderTypes
    <3>3. QED
      BY <2>1, <2>2, <3>1, <3>2, <1>3, <1>11 DEF WaitsFor
  <2>3. CASE q = r
    <3>1. PICK e \in Stops : /\ e = stopping /\ e # None /\ Unsettled(e)
                             /\ calledAt[s] <= calledAt[e]
      BY <2>1, <1>4
    <3>2. /\ e \in before'[r] \cap Stops
          /\ Unsettled(e)' /\ calledAt'[e] = calledAt[e]
          /\ calledAt'[s] = calledAt[s]
          /\ calledAt[e] \in Nat /\ calledAt[s] \in Nat
      BY <3>1, <2>1, <1>3, <1>8, OrderTypes DEF Present
    <3>3. calledAt'[e] >= calledAt'[s]
      BY <3>1, <3>2
    <3>4. WaitsFor(r, s, before[r] \cap Stops)'
      BY <3>2, <3>3 DEF WaitsFor
    <3>5. QED
      BY <3>4, <2>3, <1>3
  <2>4. QED
    BY <2>2, <2>3
<1>15. StopAfterStart'
  <2> SUFFICES ASSUME NEW q \in Runs, NEW s \in Stops, Unsettled(q)',
                      Unsettled(s)', calledAt'[q] < calledAt'[s]
               PROVE  /\ pc'[s] \in BeforeAwait
                      /\ WaitsFor(s, q, overtakenStart[s])'
    BY DEF StopAfterStart
  <2>1. q \in Calls /\ s \in Calls \ {r} /\ Unsettled(s)
    BY <1>3, <1>8, OrderTypes
  <2>2. q # r
    BY <2>1, <1>3, <1>5, OrderTypes
  <2>3. pc[s] \in BeforeAwait /\ WaitsFor(s, q, overtakenStart[s])
    BY <2>1, <2>2, <1>3 DEF OrderInv, StopAfterStart
  <2>4. overtakenStart[s] \in SUBSET Calls
    BY OrderTypes
  <2>5. QED
    BY <2>1, <2>2, <2>3, <2>4, <1>1, <1>3, <1>11 DEF WaitsFor
<1>16. OvertakenByStop'
  <2> SUFFICES ASSUME NEW q \in Runs, Unsettled(q)', calledAt'[q] # generation
               PROVE  \E s \in Stops : Unsettled(s)' /\ calledAt'[s] > calledAt'[q]
    BY <1>1 DEF OvertakenByStop, Overtaken
  <2>1. q # r /\ q \in Calls
    BY <1>3, OrderTypes
  <2>2. PICK s \in Stops : Unsettled(s) /\ calledAt[s] > calledAt[q]
    BY <2>1, <1>3 DEF OrderInv, OvertakenByStop, Overtaken
  <2>3. QED
    BY <2>1, <2>2, <1>3, <1>8
<1>17. QED
  BY <1>7, <1>9, <1>10, <1>12, <1>13, <1>14, <1>15, <1>16 DEF OrderInv

(* A stop or logout call: it is the newest, and overtakes every start. *)
LEMMA CallStopOrder ==
  ASSUME OrderInv, TypeOK', NEW s \in Stops, NEW k, CallStop(s, k)
  PROVE  OrderInv'
<1> USE LifecycleAssumption
<1> TypeOK
  BY DEF OrderInv
<1>1. /\ pc' = [pc EXCEPT ![s] = "waiting"]
      /\ generation' = generation + 1 /\ starting' = starting /\ stopping' = s
      /\ calledAt' = [calledAt EXCEPT ![s] = generation + 1]
      /\ before' = [before EXCEPT ![s] = Present(stopping)]
      /\ overtakenStart' = [overtakenStart EXCEPT ![s] = Present(starting)]
      /\ pc[s] = "idle"
  BY DEF CallStop, Goto
<1>2. /\ \A c \in Calls \ {s} : /\ pc'[c] = pc[c]
                                /\ calledAt'[c] = calledAt[c]
                                /\ before'[c] = before[c]
                                /\ Unsettled(c)' <=> Unsettled(c)
      /\ \A t \in Stops \ {s} : overtakenStart'[t] = overtakenStart[t]
      /\ overtakenStart'[s] = Present(starting)
      /\ pc'[s] = "waiting" /\ calledAt'[s] = generation + 1
      /\ before'[s] = Present(stopping)
      /\ s \in Calls /\ ~Unsettled(s) /\ Unsettled(s)'
  BY <1>1 DEF TypeOK, Unsettled, Calls, Done
<1>3. /\ starting # None => Unsettled(starting) /\ starting \in Runs
      /\ stopping # None => Unsettled(stopping) /\ stopping \in Stops
      /\ \A q \in Runs : Unsettled(q) =>
            starting # None /\ calledAt[q] <= calledAt[starting]
      /\ \A t \in Stops : Unsettled(t) =>
            stopping # None /\ calledAt[t] <= calledAt[stopping]
  BY OrderTypes DEF OrderInv, NewestStart, NewestStop
<1>4. \A c \in Calls : calledAt[c] <= generation /\ calledAt[c] \in Nat
  BY OrderTypes DEF OrderInv, WaitsForCalled
<1>5. \A c \in Calls : pc'[c] = "idle" => pc[c] = "idle" /\ c # s
  BY <1>2
<1>6. Runs \subseteq Calls \ {s} /\ Stops \subseteq Calls
  BY OrderTypes
<1>7. WaitsForCalled'
  <2>1. \A c \in Calls : calledAt'[c] <= generation'
    BY <1>1, <1>2, <1>4, OrderTypes
  <2>2. \A c \in Calls \ {s} : \A d \in before'[c] : pc'[d] # "idle"
    BY <1>2, <1>5, OrderTypes DEF OrderInv, WaitsForCalled
  <2>3. \A d \in before'[s] : pc'[d] # "idle"
    BY <1>2, <1>3, <1>5, <1>6 DEF Present, Unsettled
  <2>4. \A t \in Stops \ {s} : \A q \in overtakenStart'[t] : pc'[q] # "idle"
    BY <1>2, <1>5, <1>6, OrderTypes DEF OrderInv, WaitsForCalled
  <2>5. \A q \in overtakenStart'[s] : pc'[q] # "idle"
    BY <1>2, <1>3, <1>5, <1>6 DEF Present, Unsettled
  <2>6. QED
    BY <2>1, <2>2, <2>3, <2>4, <2>5 DEF WaitsForCalled
<1>8. NewestStop'
  <2>1. \A t \in Stops : calledAt'[t] <= calledAt'[s]
    BY <1>1, <1>2, <1>4, <1>6, OrderTypes
  <2>2. s # None
    OBVIOUS
  <2>3. QED
    BY <1>1, <1>2, <2>1, <2>2 DEF NewestStop
<1>9. NewestStart'
  BY <1>1, <1>2, <1>6, OrderTypes DEF OrderInv, NewestStart
<1>10. \A c \in Calls, P \in SUBSET Calls :
          c # s =>
            ((\E e \in P : Unsettled(e) /\ calledAt[e] >= calledAt[c])
             => \E e \in P : Unsettled(e)' /\ calledAt'[e] >= calledAt'[c])
  BY <1>2
<1>11. StopsInOrder'
  <2> SUFFICES ASSUME NEW t \in Stops, NEW u \in Stops, t # u,
                      Unsettled(t)', Unsettled(u)'
               PROVE  /\ calledAt'[t] # calledAt'[u]
                      /\ calledAt'[t] > calledAt'[u] =>
                           /\ pc'[t] = "waiting"
                           /\ WaitsFor(t, u, before[t] \cap Stops)'
    BY DEF StopsInOrder
  <2>1. t \in Calls /\ u \in Calls
    BY <1>6
  <2>2. CASE t # s /\ u # s
    <3>1. /\ calledAt[t] # calledAt[u]
          /\ calledAt[t] > calledAt[u] =>
               pc[t] = "waiting" /\ WaitsFor(t, u, before[t] \cap Stops)
      BY <2>1, <2>2, <1>2 DEF OrderInv, StopsInOrder
    <3>2. before[t] \cap Stops \in SUBSET Calls
      BY OrderTypes
    <3>3. QED
      BY <2>1, <2>2, <3>1, <3>2, <1>2, <1>10 DEF WaitsFor
  <2>3. CASE t = s
    <3>1. Unsettled(u) /\ u # s
      BY <2>1, <2>3, <1>2
    <3>2. PICK e \in Stops : /\ e = stopping /\ e # None /\ Unsettled(e)
                             /\ calledAt[u] <= calledAt[e]
      BY <3>1, <1>3
    <3>3. /\ e \in before'[s] \cap Stops
          /\ Unsettled(e)' /\ calledAt'[e] = calledAt[e]
          /\ calledAt[e] \in Nat /\ calledAt[u] \in Nat
      BY <3>2, <1>2, <1>4, <1>6 DEF Present
    <3>4. calledAt'[u] = calledAt[u] /\ calledAt'[s] = generation + 1
      BY <3>1, <2>1, <1>2
    <3>5. calledAt'[e] >= calledAt'[u]
      BY <3>2, <3>3, <3>4
    <3>6. WaitsFor(s, u, before[s] \cap Stops)'
      BY <3>3, <3>5 DEF WaitsFor
    <3>7. calledAt'[s] # calledAt'[u]
      BY <3>4, <2>1, <1>4, OrderTypes
    <3>8. QED
      BY <3>6, <3>7, <2>3, <1>2
  <2>4. CASE u = s
    <3>1. /\ calledAt'[t] = calledAt[t] /\ calledAt'[u] = generation + 1
          /\ calledAt[t] \in Nat /\ calledAt[t] <= generation
      BY <2>1, <2>4, <1>2, <1>4
    <3>2. QED
      BY <3>1, OrderTypes
  <2>5. QED
    BY <2>2, <2>3, <2>4
<1>12. StartsInOrder'
  <2> SUFFICES ASSUME NEW p \in Runs, NEW q \in Runs, p # q,
                      Unsettled(p)', Unsettled(q)'
               PROVE  /\ calledAt'[p] # calledAt'[q]
                      /\ calledAt'[p] > calledAt'[q] =>
                           /\ pc'[p] = "waiting"
                           /\ WaitsFor(p, q, before[p] \cap Runs)'
    BY DEF StartsInOrder
  <2>1. p \in Calls \ {s} /\ q \in Calls \ {s}
    BY <1>6
  <2>2. /\ calledAt[p] # calledAt[q]
        /\ calledAt[p] > calledAt[q] =>
             pc[p] = "waiting" /\ WaitsFor(p, q, before[p] \cap Runs)
    BY <2>1, <1>2 DEF OrderInv, StartsInOrder
  <2>3. before[p] \cap Runs \in SUBSET Calls
    BY OrderTypes
  <2>4. QED
    BY <2>1, <2>2, <2>3, <1>2, <1>10 DEF WaitsFor
<1>13. \A r \in Runs : calledAt'[r] < calledAt'[s]
  <2> SUFFICES ASSUME NEW r \in Runs
               PROVE  calledAt'[r] < calledAt'[s]
    OBVIOUS
  <2>1. /\ calledAt'[r] = calledAt[r] /\ calledAt[r] <= generation
        /\ calledAt[r] \in Nat /\ calledAt'[s] = generation + 1
    BY <1>2, <1>4, <1>6
  <2>2. QED
    BY <2>1, OrderTypes
<1>14. StartAfterStop'
  <2> SUFFICES ASSUME NEW q \in Runs, NEW t \in Stops, Unsettled(q)',
                      Unsettled(t)', calledAt'[q] >= calledAt'[t]
               PROVE  /\ pc'[q] = "waiting"
                      /\ WaitsFor(q, t, before[q] \cap Stops)'
    BY DEF StartAfterStop
  <2>1. q \in Calls \ {s} /\ t \in Calls
    BY <1>6
  <2>2. t # s
    <3>1. /\ calledAt'[q] = calledAt[q] /\ calledAt[q] <= generation
          /\ calledAt[q] \in Nat /\ calledAt'[s] = generation + 1
      BY <2>1, <1>2, <1>4
    <3>2. QED
      BY <3>1, OrderTypes
  <2>3. pc[q] = "waiting" /\ WaitsFor(q, t, before[q] \cap Stops)
    BY <2>1, <2>2, <1>2 DEF OrderInv, StartAfterStop
  <2>4. before[q] \cap Stops \in SUBSET Calls
    BY OrderTypes
  <2>5. QED
    BY <2>1, <2>2, <2>3, <2>4, <1>2, <1>10 DEF WaitsFor
<1>15. StopAfterStart'
  <2> SUFFICES ASSUME NEW q \in Runs, NEW t \in Stops, Unsettled(q)',
                      Unsettled(t)', calledAt'[q] < calledAt'[t]
               PROVE  /\ pc'[t] \in BeforeAwait
                      /\ WaitsFor(t, q, overtakenStart[t])'
    BY DEF StopAfterStart
  <2>1. q \in Calls \ {s} /\ t \in Calls /\ Unsettled(q)
    BY <1>2, <1>6
  <2>2. CASE t # s
    <3>1. pc[t] \in BeforeAwait /\ WaitsFor(t, q, overtakenStart[t])
      BY <2>1, <2>2, <1>2 DEF OrderInv, StopAfterStart
    <3>2. overtakenStart[t] \in SUBSET Calls
      BY OrderTypes
    <3>3. QED
      BY <2>1, <2>2, <3>1, <3>2, <1>2, <1>10 DEF WaitsFor
  <2>3. CASE t = s
    <3>1. PICK e \in Runs : /\ e = starting /\ e # None /\ Unsettled(e)
                            /\ calledAt[q] <= calledAt[e]
      BY <2>1, <1>3
    <3>2. /\ e \in overtakenStart'[s]
          /\ Unsettled(e)' /\ calledAt'[e] = calledAt[e]
          /\ calledAt'[q] = calledAt[q]
          /\ calledAt[e] \in Nat /\ calledAt[q] \in Nat
      BY <3>1, <2>1, <1>2, <1>4, <1>6 DEF Present
    <3>3. WaitsFor(s, q, overtakenStart[s])'
      <4>1. calledAt'[e] >= calledAt'[q]
        BY <3>1, <3>2
      <4>2. QED
        BY <4>1, <3>2 DEF WaitsFor
    <3>4. QED
      BY <3>3, <2>3, <1>2 DEF BeforeAwait
  <2>4. QED
    BY <2>2, <2>3
<1>16. OvertakenByStop'
  BY <1>2, <1>13 DEF OvertakenByStop
<1>17. QED
  BY <1>7, <1>8, <1>9, <1>11, <1>12, <1>14, <1>15, <1>16 DEF OrderInv

(* A call that settles was the oldest of its kind: a call that waits for a
   newer one waits for another call still. *)
SettleStep(c) ==
    /\ Unsettled(c)
    /\ pc[c] # "waiting"
    /\ \E l \in Done : Goto(c, l)
    /\ UNCHANGED <<generation, calledAt, before, overtakenStart>>

LEMMA SettleFacts ==
  ASSUME TypeOK, NEW c \in Calls, SettleStep(c)
  PROVE  /\ \A d \in Calls \ {c} : /\ pc'[d] = pc[d]
                                   /\ Unsettled(d)' <=> Unsettled(d)
         /\ ~Unsettled(c)' /\ pc'[c] # "idle"
         /\ \A d \in Calls : Unsettled(d)' => Unsettled(d) /\ d # c
BY DEF SettleStep, Goto, TypeOK, Unsettled, Done

LEMMA SettleWaits ==
  ASSUME TypeOK, NEW c \in Calls, SettleStep(c), NEW d \in Calls, d # c,
         NEW P \in SUBSET Calls,
         \E e \in P : Unsettled(e) /\ calledAt[e] >= calledAt[d],
         ~(calledAt[c] >= calledAt[d])
  PROVE  \E e \in P : Unsettled(e)' /\ calledAt'[e] >= calledAt'[d]
<1>1. calledAt' = calledAt
  BY DEF SettleStep
<1>2. PICK e \in P : Unsettled(e) /\ calledAt[e] >= calledAt[d]
  OBVIOUS
<1>3. e # c
  BY <1>2
<1>4. QED
  BY <1>1, <1>2, <1>3, SettleFacts

LEMMA SettleRunOrder ==
  ASSUME OrderInv, TypeOK', NEW r \in Runs, SettleRun(r)
  PROVE  OrderInv'
<1> USE LifecycleAssumption
<1> TypeOK
  BY DEF OrderInv
<1>1. /\ SettleStep(r) /\ r \in Calls /\ stopping' = stopping
      /\ starting' = IF starting = r THEN None ELSE starting
      /\ generation' = generation /\ calledAt' = calledAt
      /\ before' = before /\ overtakenStart' = overtakenStart
  BY OrderTypes DEF SettleRun, SettleStep, Unsettled, Done
<1>2. /\ \A d \in Calls \ {r} : /\ pc'[d] = pc[d]
                                /\ Unsettled(d)' <=> Unsettled(d)
      /\ ~Unsettled(r)' /\ pc'[r] # "idle"
      /\ \A d \in Calls : Unsettled(d)' => Unsettled(d) /\ d # r
  BY <1>1, SettleFacts
<1>3. Runs \subseteq Calls /\ Stops \subseteq Calls \ {r}
  BY OrderTypes
<1>4. \A q \in Runs : Unsettled(q)' => calledAt[r] < calledAt[q]
  <2> SUFFICES ASSUME NEW q \in Runs, Unsettled(q)'
               PROVE  calledAt[r] < calledAt[q]
    OBVIOUS
  <2>1. Unsettled(q) /\ q # r /\ Unsettled(r) /\ pc[r] # "waiting"
    BY <1>1, <1>2, <1>3 DEF SettleStep
  <2>2. calledAt[r] # calledAt[q] /\ ~(calledAt[r] > calledAt[q])
    BY <2>1 DEF OrderInv, StartsInOrder
  <2>3. QED
    BY <2>2, <1>3, OrderTypes
<1>5. WaitsForCalled'
  BY <1>1, <1>2, <1>3, OrderTypes DEF OrderInv, WaitsForCalled
<1>6. NewestStop'
  BY <1>1, <1>2, <1>3, OrderTypes DEF OrderInv, NewestStop
<1>7. NewestStart'
  <2>1. CASE starting = r
    <3>1. \A q \in Runs : ~Unsettled(q)'
      <4> SUFFICES ASSUME NEW q \in Runs, Unsettled(q)'
                   PROVE  FALSE
        OBVIOUS
      <4>1. Unsettled(q) /\ calledAt[q] <= calledAt[r] /\ starting # None
        BY <2>1, <1>2, <1>3 DEF OrderInv, NewestStart
      <4>2. QED
        BY <4>1, <1>3, <1>4, OrderTypes
    <3>2. QED
      BY <3>1, <2>1, <1>1 DEF NewestStart
  <2>2. CASE starting # r
    <3>1. starting # None
      BY <1>1, <1>3 DEF OrderInv, NewestStart, SettleStep
    <3>2. starting' = starting /\ starting \in Calls \ {r}
      BY <2>2, <3>1, <1>1, <1>3, OrderTypes
    <3>3. QED
      BY <3>1, <3>2, <1>1, <1>2, <1>3 DEF OrderInv, NewestStart
  <2>3. QED
    BY <2>1, <2>2
<1>8. \A c \in Calls, P \in SUBSET Stops :
         (\E e \in P : Unsettled(e) /\ calledAt[e] >= calledAt[c])
         => \E e \in P : Unsettled(e)' /\ calledAt'[e] >= calledAt'[c]
  BY <1>1, <1>2, <1>3
<1>9. \A q \in Runs, P \in SUBSET Calls :
         Unsettled(q)' /\ (\E e \in P : Unsettled(e) /\ calledAt[e] >= calledAt[q])
         => \E e \in P : Unsettled(e)' /\ calledAt'[e] >= calledAt'[q]
  <2> SUFFICES ASSUME NEW q \in Runs, NEW P \in SUBSET Calls, Unsettled(q)',
                      \E e \in P : Unsettled(e) /\ calledAt[e] >= calledAt[q]
               PROVE  \E e \in P : Unsettled(e)' /\ calledAt'[e] >= calledAt'[q]
    OBVIOUS
  <2>1. q \in Calls /\ q # r /\ ~(calledAt[r] >= calledAt[q])
    BY <1>2, <1>3, <1>4, OrderTypes
  <2>2. QED
    BY <2>1, <1>1, SettleWaits
<1>10. StopsInOrder'
  BY <1>1, <1>2, <1>3, <1>8 DEF OrderInv, StopsInOrder, WaitsFor
<1>11. StartsInOrder'
  <2> SUFFICES ASSUME NEW p \in Runs, NEW q \in Runs, p # q,
                      Unsettled(p)', Unsettled(q)'
               PROVE  /\ calledAt[p] # calledAt[q]
                      /\ calledAt[p] > calledAt[q] =>
                           /\ pc'[p] = "waiting"
                           /\ WaitsFor(p, q, before[p] \cap Runs)'
    BY <1>1 DEF StartsInOrder
  <2>1. Unsettled(p) /\ Unsettled(q) /\ p # r /\ p \in Calls
    BY <1>2, <1>3
  <2>2. /\ calledAt[p] # calledAt[q]
        /\ calledAt[p] > calledAt[q] =>
             pc[p] = "waiting" /\ WaitsFor(p, q, before[p] \cap Runs)
    BY <2>1 DEF OrderInv, StartsInOrder
  <2>3. before[p] \cap Runs \in SUBSET Calls
    BY OrderTypes
  <2>4. QED
    BY <2>1, <2>2, <2>3, <1>1, <1>2, <1>9 DEF WaitsFor
<1>12. StartAfterStop'
  BY <1>1, <1>2, <1>3, <1>8 DEF OrderInv, StartAfterStop, WaitsFor
<1>13. StopAfterStart'
  <2> SUFFICES ASSUME NEW q \in Runs, NEW s \in Stops, Unsettled(q)',
                      Unsettled(s)', calledAt[q] < calledAt[s]
               PROVE  /\ pc'[s] \in BeforeAwait
                      /\ WaitsFor(s, q, overtakenStart[s])'
    BY <1>1 DEF StopAfterStart
  <2>1. Unsettled(q) /\ Unsettled(s) /\ s \in Calls \ {r}
    BY <1>2, <1>3
  <2>2. pc[s] \in BeforeAwait /\ WaitsFor(s, q, overtakenStart[s])
    BY <2>1 DEF OrderInv, StopAfterStart
  <2>3. overtakenStart[s] \in SUBSET Calls
    BY OrderTypes
  <2>4. QED
    BY <2>1, <2>2, <2>3, <1>1, <1>2, <1>9 DEF WaitsFor
<1>14. OvertakenByStop'
  BY <1>1, <1>2, <1>3 DEF OrderInv, OvertakenByStop, Overtaken
<1>15. QED
  BY <1>5, <1>6, <1>7, <1>10, <1>11, <1>12, <1>13, <1>14 DEF OrderInv

LEMMA SettleStopOrder ==
  ASSUME OrderInv, TypeOK', NEW s \in Stops, SettleStop(s)
  PROVE  OrderInv'
<1> USE LifecycleAssumption
<1> TypeOK
  BY DEF OrderInv
<1>1. /\ SettleStep(s) /\ s \in Calls /\ starting' = starting
      /\ stopping' = IF stopping = s THEN None ELSE stopping
      /\ generation' = generation /\ calledAt' = calledAt
      /\ before' = before /\ overtakenStart' = overtakenStart
      /\ pc[s] \notin BeforeAwait
  BY OrderTypes DEF SettleStop, SettleStep, Unsettled, Done, BeforeAwait
<1>2. /\ \A d \in Calls \ {s} : /\ pc'[d] = pc[d]
                                /\ Unsettled(d)' <=> Unsettled(d)
      /\ ~Unsettled(s)' /\ pc'[s] # "idle"
      /\ \A d \in Calls : Unsettled(d)' => Unsettled(d) /\ d # s
  BY <1>1, SettleFacts
<1>3. Stops \subseteq Calls /\ Runs \subseteq Calls \ {s}
  BY OrderTypes
<1>4. \A t \in Stops : Unsettled(t)' => calledAt[s] < calledAt[t]
  <2> SUFFICES ASSUME NEW t \in Stops, Unsettled(t)'
               PROVE  calledAt[s] < calledAt[t]
    OBVIOUS
  <2>1. Unsettled(t) /\ t # s /\ Unsettled(s) /\ pc[s] # "waiting"
    BY <1>1, <1>2, <1>3 DEF SettleStep
  <2>2. calledAt[s] # calledAt[t] /\ ~(calledAt[s] > calledAt[t])
    BY <2>1 DEF OrderInv, StopsInOrder
  <2>3. QED
    BY <2>2, <1>3, OrderTypes
<1>5. WaitsForCalled'
  BY <1>1, <1>2, <1>3, OrderTypes DEF OrderInv, WaitsForCalled
<1>6. NewestStart'
  BY <1>1, <1>2, <1>3, OrderTypes DEF OrderInv, NewestStart
<1>7. NewestStop'
  <2>1. CASE stopping = s
    <3>1. \A t \in Stops : ~Unsettled(t)'
      <4> SUFFICES ASSUME NEW t \in Stops, Unsettled(t)'
                   PROVE  FALSE
        OBVIOUS
      <4>1. Unsettled(t) /\ calledAt[t] <= calledAt[s] /\ stopping # None
        BY <2>1, <1>2, <1>3 DEF OrderInv, NewestStop
      <4>2. QED
        BY <4>1, <1>3, <1>4, OrderTypes
    <3>2. QED
      BY <3>1, <2>1, <1>1 DEF NewestStop
  <2>2. CASE stopping # s
    <3>1. stopping # None
      BY <1>1, <1>3 DEF OrderInv, NewestStop, SettleStep
    <3>2. stopping' = stopping /\ stopping \in Calls \ {s}
      BY <2>2, <3>1, <1>1, <1>3, OrderTypes
    <3>3. QED
      BY <3>1, <3>2, <1>1, <1>2, <1>3 DEF OrderInv, NewestStop
  <2>3. QED
    BY <2>1, <2>2
<1>8. \A c \in Calls, P \in SUBSET Runs :
         (\E e \in P : Unsettled(e) /\ calledAt[e] >= calledAt[c])
         => \E e \in P : Unsettled(e)' /\ calledAt'[e] >= calledAt'[c]
  BY <1>1, <1>2, <1>3
<1>9. \A t \in Stops, P \in SUBSET Calls :
         Unsettled(t)' /\ (\E e \in P : Unsettled(e) /\ calledAt[e] >= calledAt[t])
         => \E e \in P : Unsettled(e)' /\ calledAt'[e] >= calledAt'[t]
  <2> SUFFICES ASSUME NEW t \in Stops, NEW P \in SUBSET Calls, Unsettled(t)',
                      \E e \in P : Unsettled(e) /\ calledAt[e] >= calledAt[t]
               PROVE  \E e \in P : Unsettled(e)' /\ calledAt'[e] >= calledAt'[t]
    OBVIOUS
  <2>1. t \in Calls /\ t # s /\ ~(calledAt[s] >= calledAt[t])
    BY <1>2, <1>3, <1>4, OrderTypes
  <2>2. QED
    BY <2>1, <1>1, SettleWaits
<1>10. StartsInOrder'
  BY <1>1, <1>2, <1>3, <1>8 DEF OrderInv, StartsInOrder, WaitsFor
<1>11. StopsInOrder'
  <2> SUFFICES ASSUME NEW t \in Stops, NEW u \in Stops, t # u,
                      Unsettled(t)', Unsettled(u)'
               PROVE  /\ calledAt[t] # calledAt[u]
                      /\ calledAt[t] > calledAt[u] =>
                           /\ pc'[t] = "waiting"
                           /\ WaitsFor(t, u, before[t] \cap Stops)'
    BY <1>1 DEF StopsInOrder
  <2>1. Unsettled(t) /\ Unsettled(u) /\ t # s /\ t \in Calls
    BY <1>2, <1>3
  <2>2. /\ calledAt[t] # calledAt[u]
        /\ calledAt[t] > calledAt[u] =>
             pc[t] = "waiting" /\ WaitsFor(t, u, before[t] \cap Stops)
    BY <2>1 DEF OrderInv, StopsInOrder
  <2>3. before[t] \cap Stops \in SUBSET Calls
    BY OrderTypes
  <2>4. pc'[t] = pc[t]
    BY <2>1, <1>2
  <2>5. WaitsFor(t, u, before[t] \cap Stops)
        => WaitsFor(t, u, before[t] \cap Stops)'
    BY <2>3, <1>1, <1>9 DEF WaitsFor
  <2>6. QED
    BY <2>2, <2>4, <2>5
<1>12. StartAfterStop'
  <2> SUFFICES ASSUME NEW q \in Runs, NEW t \in Stops, Unsettled(q)',
                      Unsettled(t)', calledAt[q] >= calledAt[t]
               PROVE  /\ pc'[q] = "waiting"
                      /\ WaitsFor(q, t, before[q] \cap Stops)'
    BY <1>1 DEF StartAfterStop
  <2>1. Unsettled(q) /\ Unsettled(t) /\ q \in Calls \ {s}
    BY <1>2, <1>3
  <2>2. pc[q] = "waiting" /\ WaitsFor(q, t, before[q] \cap Stops)
    BY <2>1 DEF OrderInv, StartAfterStop
  <2>3. before[q] \cap Stops \in SUBSET Calls
    BY OrderTypes
  <2>4. QED
    BY <2>1, <2>2, <2>3, <1>1, <1>2, <1>9 DEF WaitsFor
<1>13. StopAfterStart'
  <2> SUFFICES ASSUME NEW q \in Runs, NEW t \in Stops, Unsettled(q)',
                      Unsettled(t)', calledAt[q] < calledAt[t]
               PROVE  /\ pc'[t] \in BeforeAwait
                      /\ WaitsFor(t, q, overtakenStart[t])'
    BY <1>1 DEF StopAfterStart
  <2>1. Unsettled(q) /\ Unsettled(t) /\ t \in Calls \ {s} /\ q \in Calls
    BY <1>2, <1>3
  <2>2. pc[t] \in BeforeAwait /\ WaitsFor(t, q, overtakenStart[t])
    BY <2>1 DEF OrderInv, StopAfterStart
  <2>3. overtakenStart[t] \in SUBSET Runs
    BY OrderTypes
  <2>4. QED
    BY <2>1, <2>2, <2>3, <1>1, <1>2, <1>8 DEF WaitsFor
<1>14. OvertakenByStop'
  <2> SUFFICES ASSUME NEW q \in Runs, Unsettled(q)', calledAt[q] # generation
               PROVE  \E t \in Stops : Unsettled(t)' /\ calledAt[t] > calledAt[q]
    BY <1>1 DEF OvertakenByStop, Overtaken
  <2>1. Unsettled(q)
    BY <1>2, <1>3
  <2>2. PICK t \in Stops : Unsettled(t) /\ calledAt[t] > calledAt[q]
    BY <2>1 DEF OrderInv, OvertakenByStop, Overtaken
  <2>3. calledAt[q] < calledAt[t]
    BY <2>2, <1>3, OrderTypes
  <2>4. t # s
    BY <2>1, <2>2, <2>3, <1>1 DEF OrderInv, StopAfterStart
  <2>5. QED
    BY <2>2, <2>4, <1>2, <1>3
<1>15. QED
  BY <1>5, <1>6, <1>7, <1>10, <1>11, <1>12, <1>13, <1>14 DEF OrderInv

(* The order holds through every step. *)
LEMMA StepOrderInv == OrderInv /\ [Next]_vars => OrderInv'
<1> SUFFICES ASSUME OrderInv, [Next]_vars
             PROVE  OrderInv'
  OBVIOUS
<1> USE LifecycleAssumption
<1>1. TypeOK /\ TypeOK'
  BY StepTypeOK DEF OrderInv
<1>2. Runs \subseteq Calls /\ Stops \subseteq Calls
  BY DEF Calls
<1>3. ASSUME NEW r \in Runs, Start(r)
      PROVE  OrderInv'
  BY <1>1, <1>3, StartOrder
<1>4. ASSUME NEW s \in Stops, NEW k \in {"stop", "logout"}, CallStop(s, k)
      PROVE  OrderInv'
  BY <1>1, <1>4, CallStopOrder
<1>5. ASSUME NEW r \in Runs, SettleRun(r)
      PROVE  OrderInv'
  BY <1>1, <1>5, SettleRunOrder
<1>6. ASSUME NEW s \in Stops, SettleStop(s)
      PROVE  OrderInv'
  BY <1>1, <1>6, SettleStopOrder
<1>7. ASSUME NEW r \in Runs,
             BeginRun(r) \/ AcquireLock(r) \/ AcquireLease(r) \/ EndClaim(r)
             \/ NodeStart(r) \/ AfterNodeStart(r) \/ Undone(r)
      PROVE  OrderInv'
  <2>1. r \in Calls /\ r \notin Stops
    BY <1>2
  <2>2. \E l : InnerStep(r, l)
    BY <1>7, <2>1
    DEF BeginRun, AcquireLock, AcquireLease, EndClaim, NodeStart,
        AfterNodeStart, Undone, InnerStep, Goto, CatchLabel, CallNodeStop,
        Unsettled, Done
  <2>3. QED
    BY <2>1, <2>2, <1>1, InnerStepOrder
<1>8. ASSUME NEW c \in Calls, ReleaseGuards(c)
      PROVE  OrderInv'
  <2>1. \E l : InnerStep(c, l)
    BY <1>8
    DEF ReleaseGuards, CloseBridge, BridgeClosed, ForgetLease, ReleaseLock,
        InnerStep, Goto, Unsettled, Done, BeforeAwait
  <2>2. QED
    BY <2>1, <1>1, InnerStepOrder
<1>9. ASSUME NEW s \in Stops,
             StopTimers(s) \/ TimersStopped(s) \/ StopNode(s)
             \/ NodeStopped(s) \/ StartSettled(s)
      PROVE  OrderInv'
  <2>1. \E l : InnerStep(s, l)
    BY <1>9
    DEF StopTimers, TimersStopped, StopNode, NodeStopped, StartSettled,
        InnerStep, Goto, CallNodeStop, Unsettled, Done, BeforeAwait
  <2>2. QED
    BY <2>1, <1>1, <1>2, InnerStepOrder
<1>10. ASSUME NEW s \in Stops,
              LoadKey(s) \/ BackupStopNode(s) \/ BackupNodeStopped(s)
              \/ BackupDrained(s) \/ CreateBackup(s) \/ SaveBackup(s)
       PROVE  OrderInv'
  <2>1. \E l : InnerStep(s, l)
    BY <1>10
    DEF LoadKey, BackupStopNode, BackupNodeStopped, BackupDrained,
        CreateBackup, SaveBackup, InnerStep, Goto, Unsettled, Done, BeforeAwait
  <2>2. QED
    BY <2>1, <1>1, <1>2, InnerStepOrder
<1>11. ASSUME UNCHANGED <<callVars, pc>>
       PROVE  OrderInv'
  <2>1. /\ pc' = pc /\ generation' = generation /\ starting' = starting
        /\ stopping' = stopping /\ calledAt' = calledAt
        /\ before' = before /\ overtakenStart' = overtakenStart
    BY <1>11 DEF callVars
  <2>2. QED
    BY <2>1, <1>1
    DEF OrderInv, WaitsForCalled, NewestStop, NewestStart, StopsInOrder,
        StartsInOrder, StartAfterStop, StopAfterStart, OvertakenByStop,
        Unsettled, Overtaken, WaitsFor
<1>12. CASE Background
  BY <1>11, <1>12
  DEF Background, NodeDown, SendCall, StoreCall, BridgeDrained, WatchNow,
      EndPass, OtherTab
<1>13. CASE UNCHANGED vars
  BY <1>11, <1>13 DEF vars
<1>14. QED
  BY <1>2, <1>3, <1>4, <1>5, <1>6, <1>7, <1>8, <1>9, <1>10, <1>12, <1>13
  DEF Next, RunStep, StopStep

(* Every call waits only for calls made before it: start() chains on the last stop, a stop on
   the last stop and on the start it overtook (node-lifecycle.ts:71-105). *)
THEOREM CallsInOrder == Spec => []OrderInv
BY InitOrderInv, StepOrderInv, PTL DEF Spec

(* Two calls that are past waiting: a start, and a stop that still waits for
   the start it overtook. *)
LEMMA Exclusive ==
  ASSUME OrderInv, NEW c \in Calls, NEW d \in Calls, c # d,
         Unsettled(c), pc[c] # "waiting", Unsettled(d), pc[d] # "waiting"
  PROVE  \/ c \in Runs /\ d \in Stops /\ pc[d] \in BeforeAwait
            /\ calledAt[c] < calledAt[d]
         \/ d \in Runs /\ c \in Stops /\ pc[c] \in BeforeAwait
            /\ calledAt[d] < calledAt[c]
<1> USE LifecycleAssumption
<1>1. TypeOK /\ calledAt[c] \in Nat /\ calledAt[d] \in Nat
  BY OrderTypes DEF OrderInv
<1>2. ~(c \in Runs /\ d \in Runs)
  <2> SUFFICES ASSUME c \in Runs, d \in Runs
               PROVE  FALSE
    OBVIOUS
  <2>1. calledAt[c] # calledAt[d] /\ ~(calledAt[c] > calledAt[d])
    BY DEF OrderInv, StartsInOrder
  <2>2. ~(calledAt[d] > calledAt[c])
    BY DEF OrderInv, StartsInOrder
  <2>3. QED
    BY <2>1, <2>2, <1>1
<1>3. ~(c \in Stops /\ d \in Stops)
  <2> SUFFICES ASSUME c \in Stops, d \in Stops
               PROVE  FALSE
    OBVIOUS
  <2>1. calledAt[c] # calledAt[d] /\ ~(calledAt[c] > calledAt[d])
    BY DEF OrderInv, StopsInOrder
  <2>2. ~(calledAt[d] > calledAt[c])
    BY DEF OrderInv, StopsInOrder
  <2>3. QED
    BY <2>1, <2>2, <1>1
<1>4. ASSUME NEW r \in Runs, NEW s \in Stops, Unsettled(r), pc[r] # "waiting",
             Unsettled(s), pc[s] # "waiting"
      PROVE  pc[s] \in BeforeAwait /\ calledAt[r] < calledAt[s]
  <2>1. calledAt[r] \in Nat /\ calledAt[s] \in Nat
    BY <1>1, OrderTypes
  <2>2. ~(calledAt[r] >= calledAt[s])
    BY <1>4 DEF OrderInv, StartAfterStop
  <2>3. calledAt[r] < calledAt[s]
    BY <2>1, <2>2
  <2>4. QED
    BY <2>3, <1>4 DEF OrderInv, StopAfterStart
<1>5. QED
  BY <1>2, <1>3, <1>4 DEF Calls

(* The order alone keeps a claim and a release apart, whatever the node, the
   server and the browser do. *)
THEOREM ClaimsAndReleasesApart == Spec => []NeverClaimAndRelease
<1>1. OrderInv => NeverClaimAndRelease
  <2> SUFFICES ASSUME OrderInv, NEW c \in Calls, NEW d \in Calls, c # d,
                      pc[c] \in Claiming \cup Releasing,
                      pc[d] \in Claiming \cup Releasing
               PROVE  FALSE
    BY DEF NeverClaimAndRelease
  <2>1. /\ Unsettled(c) /\ pc[c] # "waiting" /\ pc[c] \notin BeforeAwait
        /\ Unsettled(d) /\ pc[d] # "waiting" /\ pc[d] \notin BeforeAwait
    BY DEF Claiming, Releasing, Unsettled, Done, BeforeAwait
  <2>2. QED
    BY <2>1, Exclusive
<1>2. QED
  BY <1>1, CallsInOrder, PTL

-----------------------------------------------------------------------------
(* The device follows the calls *)

Active(c) == pc[c] \notin Done \cup {"idle", "waiting"}

(* At most one start and one stop are past waiting; if both are, the stop has
   overtaken the start and still waits for it. *)
LEMMA ActiveCalls ==
  ASSUME OrderInv
  PROVE  /\ \A r, q \in Runs : Active(r) /\ Active(q) => r = q
         /\ \A s, t \in Stops : Active(s) /\ Active(t) => s = t
         /\ \A r \in Runs, s \in Stops :
               Active(r) /\ Active(s)
               => /\ pc[s] \in BeforeAwait /\ Overtaken(r)
                  /\ \E e \in overtakenStart[s] : ~Settled(e)
<1> USE LifecycleAssumption
<1>1. TypeOK
  BY DEF OrderInv
<1>2. \A c \in Calls : Active(c) => Unsettled(c) /\ pc[c] # "waiting"
  BY DEF Active, Unsettled
<1>3. Runs \subseteq Calls /\ Stops \subseteq Calls
  BY DEF Calls
<1>4. \A r, q \in Runs : Active(r) /\ Active(q) => r = q
  BY <1>2, <1>3, Exclusive
<1>5. \A s, t \in Stops : Active(s) /\ Active(t) => s = t
  BY <1>2, <1>3, Exclusive
<1>6. ASSUME NEW r \in Runs, NEW s \in Stops, Active(r), Active(s)
      PROVE  /\ pc[s] \in BeforeAwait /\ Overtaken(r)
             /\ \E e \in overtakenStart[s] : ~Settled(e)
  <2>1. /\ r \in Calls /\ s \in Calls /\ r # s
        /\ Unsettled(r) /\ pc[r] # "waiting"
        /\ Unsettled(s) /\ pc[s] # "waiting"
    BY <1>2, <1>3, <1>6
  <2>2. pc[s] \in BeforeAwait /\ calledAt[r] < calledAt[s]
    BY <2>1, Exclusive
  <2>3. Overtaken(r)
    <3>1. calledAt[s] <= generation /\ calledAt[r] \in Nat
          /\ calledAt[s] \in Nat /\ generation \in Nat
      BY <2>1, <1>1, OrderTypes DEF OrderInv, WaitsForCalled
    <3>2. calledAt[r] # generation
      BY <2>2, <3>1
    <3>3. QED
      BY <3>2 DEF Overtaken
  <2>4. WaitsFor(s, r, overtakenStart[s])
    BY <2>1, <2>2 DEF OrderInv, StopAfterStart
  <2>5. QED
    BY <2>2, <2>3, <2>4 DEF WaitsFor, Unsettled, Settled
<1>7. QED
  BY <1>4, <1>5, <1>6

(* A start that is not overtaken and whose `before` has settled finds the node
   down: no stop called before it is in progress, and none was called since. *)
LEMMA ClaimFindsNodeDown ==
  ASSUME OrderInv, DeviceInv, NEW r \in Runs, pc[r] = "waiting",
         ~Overtaken(r), \A c \in before[r] : Settled(c)
  PROVE  node = "down"
<1> USE LifecycleAssumption
<1> SUFFICES ASSUME node # "down"
             PROVE  FALSE
  OBVIOUS
<1>1. PICK s \in Stops : Unsettled(s)
  BY DEF DeviceInv, StartFindsNodeDown
<1>2. Unsettled(r)
  BY DEF Unsettled, Done
<1>3. /\ calledAt[s] <= generation /\ calledAt[r] = generation
      /\ calledAt[s] \in Nat /\ generation \in Nat
  BY OrderTypes DEF OrderInv, WaitsForCalled, Overtaken
<1>4. WaitsFor(r, s, before[r] \cap Stops)
  BY <1>1, <1>2, <1>3 DEF OrderInv, StartAfterStop
<1>5. QED
  BY <1>4 DEF WaitsFor, Settled, Unsettled

LEMMA InitDeviceInv == Init => DeviceInv
BY DEF Init, DeviceInv, ClaimedSoFar, StopTakesNodeDown, StoppingIsAwaited, StartFindsNodeDown, Calls, WithNode,
   Claiming, Releasing, NodeDownFor

(* A node left up is not forgotten. *)
LEMMA LeftUpBefore ==
  ASSUME [Next]_vars, ~leftUp'
  PROVE  ~leftUp
<1> USE DEF NodeIsDown, NodeStopRejected
<1>1. ASSUME NEW r \in Runs, Start(r) \/ RunStep(r)
      PROVE  ~leftUp
  BY <1>1
  DEF Start, RunStep, BeginRun, AcquireLock, AcquireLease, EndClaim, NodeStart, AfterNodeStart, Undone, SettleRun,
      ReleaseGuards, CloseBridge, BridgeClosed, ForgetLease, ReleaseLock
<1>2. ASSUME NEW s \in Stops, NEW k, CallStop(s, k) \/ StopStep(s)
      PROVE  ~leftUp
  BY <1>2
  DEF CallStop, StopStep, StopTimers, TimersStopped, StopNode, NodeStopped, StartSettled, LoadKey, BackupStopNode,
      BackupNodeStopped, BackupDrained, CreateBackup, SaveBackup, SettleStop, ReleaseGuards, CloseBridge,
      BridgeClosed, ForgetLease, ReleaseLock
<1>3. ASSUME Background \/ UNCHANGED vars
      PROVE  ~leftUp
  BY <1>3
  DEF Background, NodeDown, SendCall, StoreCall, BridgeDrained, WatchNow, EndPass, OtherTab, vars
<1>4. QED
  BY <1>1, <1>2, <1>3 DEF Next

(* A rejected node.stop() leaves the node up, if it doesn't find it down. *)
LEMMA RejectedOverNodeDown ==
  ASSUME TypeOK, NodeStopRejected, ~leftUp'
  PROVE  NodeIsDown
<1>1. node = "down" /\ leftUp = FALSE /\ leftUp' = FALSE
  BY DEF TypeOK, NodeStopRejected
<1>2. QED
  BY <1>1 DEF NodeStopRejected, NodeIsDown

(* A step inside call c, by what it may do to the device.  With it, what
   DeviceInv says of the other calls follows from ActiveCalls. *)
LEMMA StepDeviceInv ==
  ASSUME ~leftUp', OrderInv, DeviceInv, [Next]_vars
  PROVE  DeviceInv'
<1> USE LifecycleAssumption
<1>1. TypeOK
  BY DEF OrderInv
<1>2. /\ Runs \subseteq Calls /\ Stops \subseteq Calls
      /\ \A r \in Runs : r \notin Stops
  BY DEF Calls
<1>3. pc \in [Calls -> RunPc \cup StopPc]
  BY <1>1 DEF TypeOK
<1>4. /\ \A r, q \in Runs : Active(r) /\ Active(q) => r = q
      /\ \A s, t \in Stops : Active(s) /\ Active(t) => s = t
      /\ \A r \in Runs, s \in Stops :
            Active(r) /\ Active(s)
            => /\ pc[s] \in BeforeAwait /\ Overtaken(r)
               /\ \E e \in overtakenStart[s] : ~Settled(e)
  BY ActiveCalls
<1>5. ASSUME NEW r \in Runs, BeginRun(r)
      PROVE  DeviceInv'
  <2>1. ~Overtaken(r) => node = "down"
    BY <1>5, ClaimFindsNodeDown DEF BeginRun
  <2>2. QED
    BY <1>2, <1>3, <1>5, <2>1
    DEF BeginRun, Goto, callVars, bridgeVars, deviceVars, DeviceInv,
        ClaimedSoFar, StopTakesNodeDown, StoppingIsAwaited,
        StartFindsNodeDown, Overtaken, Unsettled, Done, Claiming, WithNode,
        Releasing, NodeDownFor
<1>6. ASSUME NEW r \in Runs, AcquireLock(r) \/ AcquireLease(r)
      PROVE  DeviceInv'
  BY <1>2, <1>3, <1>6
  DEF AcquireLock, AcquireLease, CatchLabel, Goto, callVars, bridgeVars,
      deviceVars, DeviceInv, ClaimedSoFar, StopTakesNodeDown,
      StoppingIsAwaited, StartFindsNodeDown, Overtaken, Unsettled, Done,
      Claiming, WithNode, Releasing, NodeDownFor
<1>7. ASSUME NEW r \in Runs, EndClaim(r)
      PROVE  DeviceInv'
  BY <1>2, <1>3, <1>7
  DEF EndClaim, CatchLabel, Goto, callVars, deviceVars, DeviceInv,
      ClaimedSoFar, StopTakesNodeDown, StoppingIsAwaited, StartFindsNodeDown,
      Overtaken, Unsettled, Done, Claiming, WithNode, Releasing, NodeDownFor
<1>8. ASSUME NEW r \in Runs, NodeStart(r)
      PROVE  DeviceInv'
  <2>1. CASE node' = "up"
    <3>1. /\ pc' = [pc EXCEPT ![r] = "nodeStarted"] /\ pc[r] = "nodeStart"
          /\ UNCHANGED <<callVars, bridgeVars, deviceVars, kind>>
      BY <2>1, <1>8
      DEF NodeStart, Goto, DeviceInv, ClaimedSoFar, WithNode
    <3>2. lock = "ours" /\ lease /\ bridge = "open"
      BY <3>1 DEF DeviceInv, ClaimedSoFar, WithNode
    <3>3. Active(r)
      BY <3>1 DEF Active, Done
    <3>4. ClaimedSoFar'
      BY <2>1, <3>1, <3>2, <3>3, <1>2, <1>3, <1>4
      DEF ClaimedSoFar, DeviceInv, Active, Done, Claiming, WithNode,
          Releasing, callVars, bridgeVars, deviceVars, Overtaken
    <3>5. StopTakesNodeDown'
      BY <2>1, <3>1, <3>3, <1>2, <1>3, <1>4
      DEF StopTakesNodeDown, Active, Done, BeforeAwait, NodeDownFor, Releasing
    <3>6. StartFindsNodeDown'
      <4> SUFFICES ASSUME NEW q \in Runs, pc'[q] = "waiting", ~Overtaken(q)'
                   PROVE  \E s \in Stops : Unsettled(s)'
        BY DEF StartFindsNodeDown
      <4>1. q # r /\ pc[q] = "waiting" /\ ~Overtaken(q)
        BY <3>1, <1>2, <1>3 DEF Overtaken, callVars
      <4>2. Unsettled(q) /\ Unsettled(r) /\ pc[r] # "waiting"
        BY <4>1, <3>1 DEF Unsettled, Done
      <4>3. calledAt[r] # calledAt[q] /\ ~(calledAt[r] > calledAt[q])
        BY <4>1, <4>2 DEF OrderInv, StartsInOrder
      <4>4. Overtaken(r)
        BY <4>1, <4>3, <1>2 DEF Overtaken
      <4>5. \E s \in Stops : Unsettled(s)
        BY <4>2, <4>4 DEF OrderInv, OvertakenByStop
      <4>6. QED
        BY <4>5, <3>1, <1>2, <1>3 DEF Unsettled
    <3>7. QED
      BY <2>1, <3>1, <3>2, <3>4, <3>5, <3>6
      DEF DeviceInv, StoppingIsAwaited, bridgeVars, deviceVars
  <2>2. CASE node' # "up"
    BY <2>2, <1>2, <1>3, <1>8
    DEF NodeStart, CatchLabel, Goto, callVars, bridgeVars, deviceVars,
        DeviceInv, ClaimedSoFar, StopTakesNodeDown, StoppingIsAwaited,
        StartFindsNodeDown, Overtaken, Unsettled, Done, Claiming, WithNode,
        Releasing, NodeDownFor
  <2>3. QED
    BY <2>1, <2>2
<1>9. ASSUME NEW r \in Runs, AfterNodeStart(r)
      PROVE  DeviceInv'
  <2>1. Active(r)
    BY <1>9 DEF AfterNodeStart, Active, Done
  <2>2. CASE Overtaken(r) /\ node = "up"
    BY <2>1, <2>2, <1>2, <1>3, <1>4, <1>9
    DEF AfterNodeStart, CallNodeStop, IsRunning, Goto, callVars, bridgeVars,
        deviceVars, DeviceInv, ClaimedSoFar, StopTakesNodeDown,
        StoppingIsAwaited, StartFindsNodeDown, Overtaken, Unsettled, Done,
        Claiming, WithNode, Releasing, NodeDownFor
  <2>3. CASE Overtaken(r) /\ node # "up"
    <3>1. /\ pc' = [pc EXCEPT ![r] = "finished"] /\ pc[r] = "nodeStarted"
          /\ node' = node
          /\ UNCHANGED <<callVars, bridgeVars, deviceVars, kind>>
      BY <2>3, <1>9 DEF AfterNodeStart, CallNodeStop, IsRunning, Goto
    <3>2. node = "stopping" =>
             \E s \in Stops : pc[s] = "nodeStopping"
      BY <2>1, <3>1, <1>2, <1>4
      DEF DeviceInv, StoppingIsAwaited, Active, Done, BeforeAwait
    <3>3. \A s \in Stops : pc[s] = "awaitStart" => node = "down"
      BY <2>3, <3>2, <1>1, <1>4 DEF TypeOK, Active, Done
    <3>4. QED
      BY <3>1, <3>2, <3>3, <1>2, <1>3
      DEF callVars, bridgeVars, deviceVars, DeviceInv, ClaimedSoFar,
          StopTakesNodeDown, StoppingIsAwaited, StartFindsNodeDown, Overtaken,
          Unsettled, Done, Claiming, WithNode, Releasing, NodeDownFor
  <2>4. CASE ~Overtaken(r)
    <3>1. \A s \in Stops : pc[s] # "awaitStart"
      BY <2>1, <2>4, <1>4 DEF Active, Done
    <3>2. QED
      BY <2>4, <3>1, <1>2, <1>3, <1>9
      DEF AfterNodeStart, Goto, callVars, bridgeVars, deviceVars, DeviceInv,
          ClaimedSoFar, StopTakesNodeDown, StoppingIsAwaited,
          StartFindsNodeDown, Overtaken, Unsettled, Done, Claiming, WithNode,
          Releasing, NodeDownFor
  <2>5. QED
    BY <2>2, <2>3, <2>4
<1>10. ASSUME NEW r \in Runs, Undone(r) \/ SettleRun(r)
       PROVE  DeviceInv'
  BY RejectedOverNodeDown, <1>1, <1>2, <1>3, <1>10
  DEF Undone, NodeIsDown, SettleRun, Goto, callVars, bridgeVars, deviceVars, DeviceInv,
      ClaimedSoFar, StopTakesNodeDown, StoppingIsAwaited, StartFindsNodeDown,
      Overtaken, Unsettled, Done, Claiming, WithNode, Releasing, NodeDownFor
<1>11. ASSUME NEW r \in Runs, Start(r)
       PROVE  DeviceInv'
  <2>1. /\ pc' = [pc EXCEPT ![r] = "waiting"] /\ pc[r] = "idle"
        /\ calledAt' = [calledAt EXCEPT ![r] = generation]
        /\ UNCHANGED <<generation, bridgeVars, deviceVars, kind, node>>
    BY <1>11 DEF Start, Goto
  <2>2. node # "down" => \E s \in Stops : Unsettled(s)
    <3>1. CASE node = "up"
      BY <3>1, <1>11, <1>1
      DEF Start, IsRunning, TypeOK, OrderInv, NewestStop
    <3>2. CASE node = "stopping"
      <4>1. ASSUME NEW q \in Runs, pc[q] = "undoing"
            PROVE  \E s \in Stops : Unsettled(s)
        <5>1. Unsettled(q) /\ Overtaken(q)
          BY <4>1 DEF DeviceInv, ClaimedSoFar, Unsettled, Done
        <5>2. QED
          BY <5>1 DEF OrderInv, OvertakenByStop
      <4>2. QED
        BY <3>2, <4>1 DEF DeviceInv, StoppingIsAwaited, Unsettled, Done
    <3>3. QED
      BY <3>1, <3>2, <1>1 DEF TypeOK
  <2>3. StartFindsNodeDown'
    BY <2>1, <2>2, <1>1, <1>2, <1>3
    DEF DeviceInv, StartFindsNodeDown, Unsettled, Overtaken, Done, TypeOK
  <2>4. QED
    BY <2>1, <2>3, <1>1, <1>2, <1>3
    DEF bridgeVars, deviceVars, DeviceInv, ClaimedSoFar, StopTakesNodeDown,
        StoppingIsAwaited, Overtaken, TypeOK, Claiming, WithNode, Releasing,
        NodeDownFor
<1>12. ASSUME NEW s \in Stops, NEW k, CallStop(s, k)
       PROVE  DeviceInv'
  <2>1. /\ pc' = [pc EXCEPT ![s] = "waiting"] /\ pc[s] = "idle"
        /\ calledAt' = [calledAt EXCEPT ![s] = generation + 1]
        /\ generation' = generation + 1
        /\ kind' = [kind EXCEPT ![s] = k]
        /\ UNCHANGED <<bridgeVars, deviceVars, node>>
    BY <1>12 DEF CallStop, Goto
  <2>2. \A r \in Runs : Overtaken(r)'
    <3> SUFFICES ASSUME NEW r \in Runs
                 PROVE  calledAt'[r] # generation'
      BY DEF Overtaken
    <3>1. calledAt'[r] = calledAt[r] /\ calledAt[r] <= generation
          /\ calledAt[r] \in Nat /\ generation \in Nat
      BY <2>1, <1>1, <1>2, OrderTypes DEF OrderInv, WaitsForCalled, TypeOK
    <3>2. QED
      BY <2>1, <3>1
  <2>3. QED
    BY <2>1, <2>2, <1>1, <1>2, <1>3
    DEF bridgeVars, deviceVars, DeviceInv, ClaimedSoFar, StopTakesNodeDown,
        StoppingIsAwaited, StartFindsNodeDown, TypeOK, Unsettled, Done,
        Claiming, WithNode, Releasing, NodeDownFor
<1>13. ASSUME NEW s \in Stops,
              StopTimers(s) \/ TimersStopped(s) \/ NodeStopped(s)
       PROVE  DeviceInv'
  BY RejectedOverNodeDown, <1>1, <1>2, <1>3, <1>13
  DEF StopTimers, TimersStopped, NodeStopped, NodeIsDown, Goto, callVars, bridgeVars,
      deviceVars, DeviceInv, ClaimedSoFar, StopTakesNodeDown,
      StoppingIsAwaited, StartFindsNodeDown, Overtaken, TypeOK, Unsettled,
      Done, Claiming, WithNode, Releasing, NodeDownFor
<1>14. ASSUME NEW s \in Stops, Active(s), node = "stopping",
              pc[s] \notin {"nodeStopping", "backupNodeStopping"}
       PROVE  \E r \in Runs : pc[r] = "undoing" /\ Active(r)
  BY <1>4, <1>14 DEF DeviceInv, StoppingIsAwaited, Active, Done
<1>15. ASSUME NEW s \in Stops, StopNode(s)
       PROVE  DeviceInv'
  <2>1. Active(s)
    BY <1>15 DEF StopNode, Active, Done
  <2>2. CASE node = "up"
    BY <2>1, <2>2, <1>2, <1>3, <1>4, <1>15
    DEF StopNode, CallNodeStop, IsRunning, Active, Goto, callVars, bridgeVars,
        deviceVars, DeviceInv, ClaimedSoFar, StopTakesNodeDown,
        StoppingIsAwaited, StartFindsNodeDown, Overtaken, Unsettled, Done,
        Claiming, WithNode, Releasing, NodeDownFor
  <2>3. CASE node # "up"
    <3>1. /\ pc' = [pc EXCEPT ![s] = "awaitStart"] /\ pc[s] = "stopNode"
          /\ UNCHANGED <<callVars, bridgeVars, deviceVars, kind, node>>
      BY <2>3, <1>15 DEF StopNode, CallNodeStop, IsRunning, Goto
    <3>2. node # "down" => \E r \in Runs : pc[r] = "undoing"
      BY <2>1, <2>3, <3>1, <1>1, <1>14 DEF TypeOK
    <3>3. QED
      BY <3>1, <3>2, <1>1, <1>2, <1>3
      DEF TypeOK, callVars, bridgeVars, deviceVars, DeviceInv, ClaimedSoFar, StopTakesNodeDown,
        StoppingIsAwaited, StartFindsNodeDown, Overtaken, Unsettled, Done,
        Claiming, WithNode, Releasing, NodeDownFor
  <2>4. QED
    BY <2>2, <2>3
<1>16. ASSUME NEW s \in Stops, StartSettled(s)
       PROVE  DeviceInv'
  <2>1. Active(s) /\ \A r \in overtakenStart[s] : Settled(r)
    BY <1>16 DEF StartSettled, Active, Done
  <2>2. \A r \in Runs : ~Active(r)
    BY <2>1, <1>4
  <2>3. kind[s] # "logout" => node = "down"
    BY <2>2, <1>16 DEF StartSettled, DeviceInv, StopTakesNodeDown, Active, Done
  <2>4. QED
    BY <2>3, <1>1, <1>2, <1>3, <1>16
    DEF StartSettled, Goto, TypeOK, callVars, bridgeVars, deviceVars,
        DeviceInv, ClaimedSoFar, StopTakesNodeDown,
        StoppingIsAwaited, StartFindsNodeDown, Overtaken, Unsettled, Done,
        Claiming, WithNode, Releasing, NodeDownFor
<1>17. ASSUME NEW s \in Stops,
              LoadKey(s) \/ BackupDrained(s) \/ CreateBackup(s) \/ SaveBackup(s)
       PROVE  DeviceInv'
  <2>1. LoadKey(s) => pc' = [pc EXCEPT ![s] = "backupStopNode"] \/ node = "down"
    BY DEF LoadKey, Goto
  <2>2. QED
    BY <2>1, <1>2, <1>3, <1>17
  DEF LoadKey, BackupDrained, CreateBackup, SaveBackup, Goto, callVars,
      bridgeVars, deviceVars, DeviceInv, ClaimedSoFar, StopTakesNodeDown,
        StoppingIsAwaited, StartFindsNodeDown, Overtaken, Unsettled, Done,
        Claiming, WithNode, Releasing, NodeDownFor
<1>18. ASSUME NEW s \in Stops, BackupStopNode(s) \/ BackupNodeStopped(s)
       PROVE  DeviceInv'
  <2>1. Active(s) /\ pc[s] \notin BeforeAwait
    BY <1>18
    DEF BackupStopNode, BackupNodeStopped, Active, Done, BeforeAwait
  <2>2. \A r \in Runs : ~Active(r)
    BY <2>1, <1>4
  <2>3. \A r \in Runs : pc[r] \notin Claiming \cup WithNode \cup Releasing
    BY <2>2 DEF Active, Done, Claiming, WithNode, Releasing
  <2>4. \A t \in Stops : t # s => pc[t] \notin NodeDownFor \cup {"awaitStart"}
    BY <2>1, <1>4 DEF Active, Done, NodeDownFor, Releasing
  <2>5. ~(BackupStopNode(s) /\ node = "stopping")
    BY <2>1, <2>2, <1>14 DEF BackupStopNode
  <2>6. QED
    BY RejectedOverNodeDown, <2>3, <2>4, <2>5, <1>1, <1>2, <1>3, <1>18
    DEF BackupStopNode, BackupNodeStopped, NodeIsDown, IsRunning, Goto, TypeOK, callVars,
        deviceVars, DeviceInv, ClaimedSoFar, StopTakesNodeDown,
        StoppingIsAwaited, StartFindsNodeDown, Overtaken, Unsettled, Done,
        WithNode, NodeDownFor, Releasing
<1>19. ASSUME NEW s \in Stops, SettleStop(s)
       PROVE  DeviceInv'
  <2>1. node = "down"
    BY <1>19 DEF SettleStop, DeviceInv, StopTakesNodeDown, NodeDownFor
  <2>2. QED
    BY <2>1, <1>2, <1>3, <1>19
    DEF SettleStop, Goto, bridgeVars, deviceVars, DeviceInv, ClaimedSoFar, StopTakesNodeDown,
        StoppingIsAwaited, StartFindsNodeDown, Overtaken, Unsettled, Done,
        Claiming, WithNode, Releasing, NodeDownFor
<1>20. ASSUME NEW c \in Calls, ReleaseGuards(c)
       PROVE  DeviceInv'
  <2>1. Active(c) /\ pc[c] \in Releasing /\ pc[c] \notin BeforeAwait
    BY <1>20
    DEF ReleaseGuards, CloseBridge, BridgeClosed, ForgetLease, ReleaseLock,
        Active, Done, Releasing, BeforeAwait
  <2>2. node = "down"
    BY <2>1
    DEF Calls, DeviceInv, ClaimedSoFar, StopTakesNodeDown, NodeDownFor
  <2>3. \A r \in Runs : r # c => ~Active(r)
    BY <2>1, <1>4 DEF Calls
  <2>4. \A r \in Runs : pc[r] \notin Claiming \cup WithNode
    BY <2>1, <2>3
    DEF Active, Done, Claiming, WithNode, Releasing
  <2>5. QED
    BY <2>2, <2>4, <1>1, <1>2, <1>3, <1>20
    DEF ReleaseGuards, CloseBridge, BridgeClosed, ForgetLease, ReleaseLock,
        Goto, TypeOK, callVars, bridgeVars, deviceVars, DeviceInv, ClaimedSoFar, StopTakesNodeDown,
        StoppingIsAwaited, StartFindsNodeDown, Overtaken, Unsettled, Done,
        Claiming, WithNode, Releasing, NodeDownFor
<1>21. CASE Background
  BY <1>1, <1>21
  DEF Background, NodeDown, SendCall, StoreCall, BridgeDrained, WatchNow,
      EndPass, OtherTab, TypeOK, callVars, bridgeVars, deviceVars, DeviceInv, ClaimedSoFar, StopTakesNodeDown,
        StoppingIsAwaited, StartFindsNodeDown, Overtaken, Unsettled, Done,
        Claiming, WithNode, Releasing, NodeDownFor
<1>22. CASE UNCHANGED vars
  BY <1>22
  DEF vars, callVars, bridgeVars, deviceVars, DeviceInv, ClaimedSoFar, StopTakesNodeDown,
        StoppingIsAwaited, StartFindsNodeDown, Overtaken, Unsettled, Done,
        Claiming, WithNode, Releasing, NodeDownFor
<1>23. QED
  BY <1>2, <1>5, <1>6, <1>7, <1>8, <1>9, <1>10, <1>11, <1>12, <1>13, <1>15, <1>16, <1>17, <1>18, <1>19, <1>20,
     <1>21, <1>22
  DEF Next, RunStep, StopStep

-----------------------------------------------------------------------------
(* The bridge follows the calls *)

LEMMA InitBridgeInv == Init => BridgeInv
BY DEF Init, BridgeInv, Calls, Releasing

LEMMA StepBridgeInv ==
  ASSUME OrderInv, BridgeInv, [Next]_vars
  PROVE  BridgeInv'
<1> USE LifecycleAssumption
<1>1. TypeOK
  BY DEF OrderInv
<1>2. /\ Runs \subseteq Calls /\ Stops \subseteq Calls
      /\ \A r \in Runs : r \notin Stops
      /\ \A c \in Calls : c \in Runs \/ c \in Stops
  BY DEF Calls
<1>3. pc \in [Calls -> RunPc \cup StopPc]
  BY <1>1 DEF TypeOK
<1>4. /\ \A r, q \in Runs : Active(r) /\ Active(q) => r = q
      /\ \A s, t \in Stops : Active(s) /\ Active(t) => s = t
      /\ \A r \in Runs, s \in Stops :
            Active(r) /\ Active(s)
            => /\ pc[s] \in BeforeAwait /\ Overtaken(r)
               /\ \E e \in overtakenStart[s] : ~Settled(e)
  BY ActiveCalls
<1>5. ASSUME NEW r \in Runs,
             Start(r) \/ BeginRun(r) \/ AcquireLock(r) \/ AcquireLease(r)
             \/ NodeStart(r) \/ AfterNodeStart(r) \/ Undone(r) \/ SettleRun(r)
      PROVE  BridgeInv'
  BY <1>2, <1>3, <1>5
  DEF Start, BeginRun, AcquireLock, AcquireLease, NodeStart, AfterNodeStart,
      Undone, SettleRun, CatchLabel, CallNodeStop, Goto, callVars, bridgeVars,
      deviceVars, BridgeInv, Releasing
<1>6. ASSUME NEW r \in Runs, EndClaim(r)
      PROVE  BridgeInv'
  <2>1. Active(r)
    BY <1>6 DEF EndClaim, Active, Done
  <2>2. \A c \in Calls :
           pc[c] \notin Releasing
                        \cup {"backupDraining", "copy", "save"}
    <3> SUFFICES ASSUME NEW c \in Calls,
                        pc[c] \in Releasing
                                  \cup {"backupDraining", "copy", "save"}
                 PROVE  FALSE
      OBVIOUS
    <3>1. Active(c) /\ pc[c] \notin BeforeAwait /\ c # r
      BY <1>6 DEF EndClaim, Active, Done, BeforeAwait, Releasing
    <3>2. QED
      BY <3>1, <2>1, <1>2, <1>4
  <2>3. QED
    BY <2>2, <1>2, <1>3, <1>6
    DEF EndClaim, CatchLabel, Goto, BridgeInv, Releasing
<1>7. ASSUME NEW s \in Stops, NEW k, CallStop(s, k)
      PROVE  BridgeInv'
  BY <1>1, <1>2, <1>3, <1>7
  DEF CallStop, Goto, TypeOK, bridgeVars, deviceVars, BridgeInv, Releasing
<1>8. ASSUME NEW s \in Stops,
             StopTimers(s) \/ TimersStopped(s) \/ StopNode(s) \/ NodeStopped(s)
             \/ LoadKey(s) \/ SettleStop(s)
      PROVE  BridgeInv'
  BY <1>1, <1>2, <1>3, <1>8
  DEF StopTimers, TimersStopped, StopNode, NodeStopped, LoadKey, SettleStop,
      CallNodeStop, Goto, TypeOK, callVars, bridgeVars, deviceVars, BridgeInv,
      Releasing
<1>9. ASSUME NEW s \in Stops, StartSettled(s)
      PROVE  BridgeInv'
  BY <1>1, <1>2, <1>3, <1>9
  DEF StartSettled, Goto, TypeOK, callVars, bridgeVars, deviceVars, BridgeInv,
      Releasing
<1>10. ASSUME NEW s \in Stops,
              BackupStopNode(s) \/ BackupNodeStopped(s) \/ BackupDrained(s)
       PROVE  BridgeInv'
  BY <1>1, <1>2, <1>3, <1>10
  DEF BackupStopNode, BackupNodeStopped, BackupDrained, IsRunning, Goto,
      TypeOK, callVars, bridgeVars, deviceVars, BridgeInv, Releasing
<1>11. ASSUME NEW s \in Stops, CreateBackup(s)
       PROVE  BridgeInv'
  BY <1>1, <1>2, <1>3, <1>11
  DEF CreateBackup, Goto, TypeOK, callVars, bridgeVars, deviceVars, BridgeInv,
      Releasing
<1>12. ASSUME NEW s \in Stops, SaveBackup(s)
       PROVE  BridgeInv'
  <2>1. Active(s) /\ pc[s] = "save" /\ pc[s] \notin Releasing
    BY <1>12 DEF SaveBackup, Active, Done, Releasing
  <2>2. \A t \in Stops : pc[t] \notin Releasing
    BY <2>1, <1>4 DEF Active, Done, Releasing
  <2>3. QED
    BY <2>1, <2>2, <1>2, <1>3, <1>12
    DEF SaveBackup, Goto, callVars, bridgeVars, deviceVars, BridgeInv,
        Releasing
<1>13. ASSUME NEW c \in Calls, ReleaseGuards(c)
       PROVE  BridgeInv'
  BY <1>1, <1>2, <1>3, <1>13
  DEF ReleaseGuards, CloseBridge, BridgeClosed, ForgetLease, ReleaseLock, Goto,
      TypeOK, callVars, bridgeVars, deviceVars, BridgeInv, Releasing
<1>14. CASE SendCall
  BY <1>1, <1>14
  DEF SendCall, TypeOK, callVars, bridgeVars, deviceVars, BridgeInv, Releasing
<1>15. CASE StoreCall
  <2>1. queue > 0 /\ bridge # "closed"
    BY <1>15 DEF StoreCall, BridgeInv
  <2>2. \A c \in Calls : pc[c] \notin {"release", "releasing", "copy", "save"}
    BY <2>1 DEF BridgeInv
  <2>3. \A s \in Stops : kind[s] = "logout" => pc[s] \notin Releasing
    BY <2>1 DEF BridgeInv
  <2>4. QED
    BY <2>1, <2>2, <2>3, <1>2, <1>15
    DEF StoreCall, callVars, bridgeVars, deviceVars, BridgeInv
<1>16. CASE NodeDown \/ BridgeDrained \/ WatchNow \/ EndPass \/ OtherTab
  BY <1>1, <1>16
  DEF NodeDown, BridgeDrained, WatchNow, EndPass, OtherTab, TypeOK, callVars,
      bridgeVars, deviceVars, BridgeInv, Releasing
<1>17. CASE UNCHANGED vars
  BY <1>17 DEF vars, callVars, bridgeVars, deviceVars, BridgeInv, Releasing
<1>18. QED
  BY <1>2, <1>5, <1>6, <1>7, <1>8, <1>9, <1>10, <1>11, <1>12, <1>13, <1>14, <1>15, <1>16, <1>17
  DEF Next, RunStep, StopStep, Background

-----------------------------------------------------------------------------
(* What a stop puts away stays away *)

LEMMA InitFinalInv == Init => FinalInv
BY DEF Init, FinalInv, StopIsFinal, Calls, Done

(* The condition of StopIsFinal. *)
Rested ==
    /\ ~leftUp /\ generation > 0
    /\ \A s \in Stops : pc[s] \in {"idle", "settled"}
    /\ \A r \in Runs : pc[r] = "idle" \/ calledAt[r] < generation

PutAway ==
    node = "down" /\ ~timers /\ bridge = "closed" /\ ~lease /\ lock # "ours"

(* Every start that was not called after the last stop has settled with it. *)
LEMMA RestedSettled ==
  ASSUME OrderInv, Rested
  PROVE  \A r \in Runs : ~Unsettled(r)
<1> SUFFICES ASSUME NEW r \in Runs, Unsettled(r) PROVE FALSE
  OBVIOUS
<1>1. Overtaken(r)
  <2>1. calledAt[r] < generation /\ calledAt[r] \in Nat /\ generation \in Nat
    BY OrderTypes DEF Rested, Unsettled, OrderInv, Calls
  <2>2. QED
    BY <2>1 DEF Overtaken
<1>2. QED
  BY <1>1 DEF OrderInv, OvertakenByStop, Rested, Unsettled, Done

(* How far an active stop has come. *)
StopPutsAway ==
    \A s \in Stops :
        /\ pc[s] \notin Done \cup {"idle", "waiting"} => ~timers
        /\ pc[s] \in {"releasing", "finished"} => ~lease
        /\ pc[s] = "finished" => lock # "ours" /\ bridge = "closed"

(* Only a start that no stop overtook sets the timers or claims the device, and it waits for
   every stop before it; so what a stop has put away no start takes back meanwhile. *)
LEMMA StepStopPutsAway ==
  ASSUME OrderInv, BridgeInv, StopPutsAway, [Next]_vars
  PROVE  StopPutsAway'
<1> USE LifecycleAssumption
<1>1. TypeOK
  BY DEF OrderInv
<1>2. /\ Runs \subseteq Calls /\ Stops \subseteq Calls
      /\ \A r \in Runs : r \notin Stops
  BY DEF Calls
<1>3. pc \in [Calls -> RunPc \cup StopPc]
  BY <1>1 DEF TypeOK
<1>4. /\ \A s, t \in Stops : Active(s) /\ Active(t) => s = t
      /\ \A r \in Runs, s \in Stops :
            Active(r) /\ Active(s) => pc[s] \in BeforeAwait /\ Overtaken(r)
  BY ActiveCalls
<1> USE DEF StopPutsAway, Done
<1>5. ASSUME NEW r \in Runs,
             Start(r) \/ BeginRun(r) \/ NodeStart(r) \/ Undone(r) \/ SettleRun(r)
      PROVE  StopPutsAway'
  BY <1>2, <1>3, <1>5
  DEF Start, BeginRun, NodeStart, Undone, SettleRun, CatchLabel, Goto, bridgeVars, deviceVars
<1>6. ASSUME NEW r \in Runs, AfterNodeStart(r)
      PROVE  StopPutsAway'
  <2>1. Active(r)
    BY <1>6 DEF AfterNodeStart, Active
  <2>2. timers' = timers \/ \A s \in Stops : ~Active(s)
    BY <2>1, <1>4, <1>6 DEF AfterNodeStart
  <2>3. QED
    BY <2>2, <1>2, <1>3, <1>6
    DEF AfterNodeStart, CallNodeStop, Goto, Active, bridgeVars, deviceVars
<1>7. ASSUME NEW r \in Runs, AcquireLock(r) \/ AcquireLease(r) \/ EndClaim(r)
      PROVE  StopPutsAway'
  <2>1. Active(r)
    BY <1>7 DEF AcquireLock, AcquireLease, EndClaim, Active
  <2>2. \A s \in Stops : pc[s] \notin {"releasing", "finished"}
    BY <2>1, <1>4 DEF Active, BeforeAwait
  <2>3. \A s \in Stops : pc'[s] = pc[s]
    BY <1>2, <1>3, <1>7 DEF AcquireLock, AcquireLease, EndClaim, CatchLabel, Goto
  <2>4. timers' = timers
    BY <1>7 DEF AcquireLock, AcquireLease, EndClaim
  <2>5. QED
    BY <2>2, <2>3, <2>4
<1>8. ASSUME NEW s \in Stops, NEW k, CallStop(s, k)
      PROVE  StopPutsAway'
  BY <1>2, <1>3, <1>8 DEF CallStop, Goto, bridgeVars, deviceVars
<1>9. ASSUME NEW s \in Stops, StopTimers(s) \/ TimersStopped(s) \/ StartSettled(s)
      PROVE  StopPutsAway'
  BY <1>2, <1>3, <1>9
  DEF StopTimers, TimersStopped, StartSettled, Goto, bridgeVars, deviceVars
<1>10. ASSUME NEW s \in Stops,
              StopNode(s) \/ NodeStopped(s) \/ LoadKey(s) \/ BackupDrained(s)
              \/ CreateBackup(s) \/ SaveBackup(s) \/ SettleStop(s)
       PROVE  StopPutsAway'
  BY <1>2, <1>3, <1>10
  DEF StopNode, NodeStopped, LoadKey, BackupDrained, CreateBackup, SaveBackup, SettleStop,
      CallNodeStop, Goto, bridgeVars, deviceVars
<1>11. ASSUME NEW s \in Stops, BackupStopNode(s) \/ BackupNodeStopped(s)
       PROVE  StopPutsAway'
  BY <1>2, <1>3, <1>11
  DEF BackupStopNode, BackupNodeStopped, Goto, deviceVars
<1>12. ASSUME NEW c \in Calls, ReleaseGuards(c)
       PROVE  StopPutsAway'
  <2>1. pc[c] = "releasing" => bridge = "closed"
    BY DEF BridgeInv
  <2>2. QED
    BY <2>1, <1>1, <1>2, <1>3, <1>12
    DEF ReleaseGuards, CloseBridge, BridgeClosed, ForgetLease, ReleaseLock, Goto, TypeOK,
        bridgeVars, deviceVars
<1>13. CASE Background
  BY <1>13
  DEF Background, NodeDown, SendCall, StoreCall, BridgeDrained, WatchNow, EndPass, OtherTab,
      bridgeVars, deviceVars
<1>14. CASE UNCHANGED vars
  BY <1>14 DEF vars, bridgeVars, deviceVars
<1>15. QED
  BY <1>2, <1>5, <1>6, <1>7, <1>8, <1>9, <1>10, <1>11, <1>12, <1>13, <1>14
  DEF Next, RunStep, StopStep

(* The last stop to settle has put everything away, and nothing but start() takes it back. *)
LEMMA StepRested ==
  ASSUME OrderInv, StopPutsAway, Rested => PutAway, ~leftUp => DeviceInv, [Next]_vars, Rested'
  PROVE  PutAway'
<1> USE LifecycleAssumption
<1>1. TypeOK /\ generation \in Nat
  BY DEF OrderInv, TypeOK
<1>2. /\ Runs \subseteq Calls /\ Stops \subseteq Calls
      /\ \A r \in Runs : r \notin Stops
  BY DEF Calls
<1>3. pc \in [Calls -> RunPc \cup StopPc] /\ calledAt \in [Calls -> Nat]
  BY <1>1 DEF TypeOK
<1>4. CASE Rested
  <2>1. PutAway /\ \A c \in Calls : pc[c] \in Done \cup {"idle"}
    BY <1>4, RestedSettled DEF Rested, Unsettled, Calls, Done
  <2>2. ASSUME NEW r \in Runs, Start(r)
        PROVE  FALSE
    BY <2>2, <1>1, <1>2, <1>3 DEF Start, Goto, Rested
  <2>3. ASSUME NEW r \in Runs, RunStep(r)
        PROVE  FALSE
    BY <2>1, <2>3, <1>2
    DEF RunStep, BeginRun, AcquireLock, AcquireLease, EndClaim, NodeStart, AfterNodeStart, Undone,
        SettleRun, ReleaseGuards, CloseBridge, BridgeClosed, ForgetLease, ReleaseLock, Done
  <2>4. ASSUME NEW s \in Stops, NEW k, CallStop(s, k)
        PROVE  FALSE
    BY <2>4, <1>2, <1>3 DEF CallStop, Goto, Rested
  <2>5. ASSUME NEW s \in Stops, StopStep(s)
        PROVE  FALSE
    BY <2>1, <2>5, <1>2
    DEF StopStep, StopTimers, TimersStopped, StopNode, NodeStopped, StartSettled, LoadKey,
        BackupStopNode, BackupNodeStopped, BackupDrained, CreateBackup, SaveBackup, SettleStop,
        ReleaseGuards, CloseBridge, BridgeClosed, ForgetLease, ReleaseLock, Done
  <2>6. CASE Background \/ UNCHANGED vars
    BY <2>1, <2>6
    DEF PutAway, Background, NodeDown, SendCall, StoreCall, BridgeDrained, WatchNow, EndPass,
        OtherTab, IsRunning, bridgeVars, deviceVars, vars
  <2>7. QED
    BY <2>2, <2>3, <2>4, <2>5, <2>6 DEF Next
<1>5. CASE ~Rested
  <2>1. PICK s \in Stops : SettleStop(s)
    <3>1. ASSUME NEW r \in Runs, Start(r) \/ RunStep(r)
          PROVE  Rested
      <4>1. generation' = generation /\ \A t \in Stops : pc'[t] = pc[t]
        BY <1>2, <1>3, <3>1
        DEF Start, RunStep, BeginRun, AcquireLock, AcquireLease, EndClaim, NodeStart,
            AfterNodeStart, Undone, SettleRun, ReleaseGuards, CloseBridge, BridgeClosed,
            ForgetLease, ReleaseLock, CatchLabel, CallNodeStop, Goto, callVars
      <4>2. CASE Start(r)
        BY <4>2, <1>1, <1>2, <1>3, LeftUpBefore DEF Start, Goto, Rested
      <4>3. CASE RunStep(r)
        <5>1. calledAt' = calledAt /\ pc[r] # "idle"
              /\ \A q \in Runs : q # r => pc'[q] = pc[q]
          BY <1>2, <1>3, <4>3
          DEF RunStep, BeginRun, AcquireLock, AcquireLease, EndClaim, NodeStart,
              AfterNodeStart, Undone, SettleRun, ReleaseGuards, CloseBridge, BridgeClosed,
              ForgetLease, ReleaseLock, CatchLabel, CallNodeStop, Goto, callVars
        <5>2. pc'[r] # "idle"
          BY <1>2, <1>3, <4>3
          DEF RunStep, BeginRun, AcquireLock, AcquireLease, EndClaim, NodeStart,
              AfterNodeStart, Undone, SettleRun, ReleaseGuards, CloseBridge, BridgeClosed,
              ForgetLease, ReleaseLock, CatchLabel, CallNodeStop, Goto, callVars
        <5>3. QED
          BY <4>1, <5>1, <5>2, LeftUpBefore DEF Rested
      <4>4. QED
        BY <3>1, <4>2, <4>3
    <3>2. ASSUME NEW s \in Stops, NEW k, CallStop(s, k)
          PROVE  FALSE
      BY <3>2, <1>2, <1>3 DEF CallStop, Goto, Rested
    <3>3. ASSUME NEW s \in Stops, StopStep(s), ~SettleStop(s)
          PROVE  FALSE
      <4>1. pc'[s] \notin {"idle", "settled"}
        BY <3>3, <1>2, <1>3
        DEF StopStep, StopTimers, TimersStopped, StopNode, NodeStopped, StartSettled, LoadKey,
            BackupStopNode, BackupNodeStopped, BackupDrained, CreateBackup, SaveBackup,
            ReleaseGuards, CloseBridge, BridgeClosed, ForgetLease, ReleaseLock, CallNodeStop, Goto
      <4>2. QED
        BY <4>1 DEF Rested
    <3>4. ASSUME Background \/ UNCHANGED vars
          PROVE  Rested
      <4>1. UNCHANGED <<generation, calledAt, pc>>
        BY <3>4
        DEF Background, NodeDown, SendCall, StoreCall, BridgeDrained, WatchNow, EndPass,
            OtherTab, callVars, vars
      <4>2. QED
        BY <4>1, LeftUpBefore DEF Rested
    <3>5. QED
      BY <1>5, <3>1, <3>2, <3>3, <3>4 DEF Next
  <2>2. pc[s] = "finished"
    BY <2>1, <1>2, <1>3 DEF SettleStop, Goto, Rested
  <2>3. ~leftUp
    BY LeftUpBefore DEF Rested
  <2>4. node = "down"
    BY <2>2, <2>3 DEF DeviceInv, StopTakesNodeDown, NodeDownFor
  <2>5. PutAway
    BY <2>2, <2>4 DEF StopPutsAway, PutAway, Done
  <2>6. QED
    BY <2>1, <2>5 DEF SettleStop, PutAway, bridgeVars, deviceVars
<1>6. QED
  BY <1>4, <1>5

LEMMA StepFinalInv ==
  ASSUME OrderInv, OrderInv', BridgeInv, FinalInv, ~leftUp => DeviceInv, [Next]_vars
  PROVE  FinalInv'
<1>1. StopPutsAway /\ (Rested => PutAway)
  BY DEF FinalInv, StopPutsAway, StopIsFinal, Rested, PutAway
<1>2. StopPutsAway'
  BY <1>1, StepStopPutsAway
<1>3. Rested' => PutAway' /\ \A r \in Runs : ~Unsettled(r)'
  <2> SUFFICES ASSUME Rested' PROVE PutAway' /\ \A r \in Runs : ~Unsettled(r)'
    OBVIOUS
  <2>1. PutAway'
    BY <1>1, StepRested
  <2>2. (\A r \in Runs : ~Unsettled(r))'
    BY RestedSettled, PTL
  <2>3. QED
    BY <2>1, <2>2
<1>4. QED
  BY <1>2, <1>3 DEF FinalInv, StopPutsAway, StopIsFinal, Rested, PutAway

-----------------------------------------------------------------------------
(* Theorems about the device *)

(* Nothing is sent into a closed bridge while the node runs only over a claimed device. *)
LEMMA StepLost ==
  ASSUME DeviceInv, lost = 0, [Next]_vars
  PROVE  lost' = 0
<1>1. CASE SendCall
  BY <1>1 DEF SendCall, DeviceInv
<1>2. CASE ~SendCall
  BY <1>2
  DEF Next, vars, RunStep, StopStep, Background, Start, BeginRun, AcquireLock, AcquireLease,
      EndClaim, NodeStart, AfterNodeStart, Undone, SettleRun, ReleaseGuards, CloseBridge,
      BridgeClosed, ForgetLease, ReleaseLock, CallStop, StopTimers, TimersStopped, StopNode,
      NodeStopped, StartSettled, LoadKey, BackupStopNode, BackupNodeStopped, BackupDrained,
      CreateBackup, SaveBackup, SettleStop, NodeDown, StoreCall, BridgeDrained,
      WatchNow, EndPass, OtherTab, bridgeVars
<1>3. QED
  BY <1>1, <1>2

LEMMA LifecycleInvariant == Spec => []IInv
<1>1. Init => IInv
  <2>1. Init => lost = 0
    BY DEF Init
  <2>2. QED
    BY <2>1, InitOrderInv, InitDeviceInv, InitBridgeInv, InitFinalInv DEF IInv
<1>2. IInv /\ [Next]_vars => IInv'
  <2> SUFFICES ASSUME IInv, [Next]_vars PROVE IInv'
    OBVIOUS
  <2>1. OrderInv' /\ BridgeInv'
    BY StepOrderInv, StepBridgeInv DEF IInv
  <2>2. FinalInv'
    BY <2>1, StepFinalInv DEF IInv
  <2>3. ~leftUp' => DeviceInv' /\ lost' = 0
    <3> SUFFICES ASSUME ~leftUp' PROVE DeviceInv' /\ lost' = 0
      OBVIOUS
    <3>1. ~leftUp
      BY LeftUpBefore
    <3>2. QED
      BY <3>1, StepDeviceInv, StepLost DEF IInv
  <2>4. QED
    BY <2>1, <2>2, <2>3 DEF IInv
<1>3. QED
  BY <1>1, <1>2, PTL DEF Spec

(* The node runs only while the page holds the device (node-lifecycle.ts:4-8), until a stop or
   logout that fails leaves a node up. *)
THEOREM DeviceHeld == Spec => []NodeHoldsDevice
<1>1. IInv => NodeHoldsDevice
  BY DEF IInv, DeviceInv, ClaimedSoFar, NodeHoldsDevice
<1>2. QED
  BY <1>1, LifecycleInvariant, PTL

(* A logout's backup holds every watchtower call the node sent and was not told had failed... *)
THEOREM BackupsComplete == Spec => []BackupHoldsEveryCall
<1>1. IInv => BackupHoldsEveryCall
  <2> SUFFICES ASSUME IInv, ~leftUp, NEW s \in Stops, pc[s] = "save"
               PROVE  copy[s] + refused = Sent /\ node = "down"
    BY DEF BackupHoldsEveryCall
  <2>1. node = "down"
    BY DEF IInv, DeviceInv, StopTakesNodeDown, NodeDownFor
  <2>2. s \in Calls /\ stored \in Nat /\ refused \in Nat
    BY DEF Calls, IInv, OrderInv, TypeOK
  <2>3. copy[s] = stored /\ queue = 0 /\ lost = 0
    BY <2>2 DEF IInv, BridgeInv
  <2>4. QED
    BY <2>1, <2>2, <2>3 DEF Sent
<1>2. QED
  BY <1>1, LifecycleInvariant, PTL

(* ...and the device is let go of only after it is saved, whatever else failed. *)
THEOREM ReleasedAfterBackup == Spec => []BackedUpBeforeRelease
<1>1. IInv => BackedUpBeforeRelease
  BY DEF IInv, BridgeInv, BackedUpBeforeRelease
<1>2. QED
  BY <1>1, LifecycleInvariant, PTL

(* Once every stop has succeeded, nothing is left of the node: no start in progress comes through,
   no timer, bridge, lease or lock stays, in whatever order starts and stops overtook one another.
   An overtaken start whose node.stop() is rejected is excepted. *)
THEOREM StoppedForGood == Spec => []StopIsFinal
<1>1. IInv => StopIsFinal
  BY DEF IInv, FinalInv
<1>2. QED
  BY <1>1, LifecycleInvariant, PTL

-----------------------------------------------------------------------------
(* The lifecycle implements DeviceSession *)

LEMMA InitSession == Init => Session!Init
BY DEF Init, Session!Init

LEMMA StepSession ==
  ASSUME ~leftUp', IInv, [Next]_vars
  PROVE  [Session!Next]_(Session!svars)
<1> USE LifecycleAssumption
<1>1. TypeOK /\ leftUp = FALSE /\ leftUp' = FALSE
  BY LeftUpBefore DEF IInv, OrderInv, TypeOK
<1> USE <1>1
<1>0. DeviceInv /\ lost = 0
  BY DEF IInv
<1>2. Runs \subseteq Calls /\ Stops \subseteq Calls
  BY DEF Calls
<1>3. CASE lease' = lease /\ (node' # "down" <=> node # "down")
           /\ queue' + lost' = queue + lost
  BY <1>3 DEF Session!svars
<1>4. ASSUME NEW r \in Runs, AcquireLease(r), lease' # lease
      PROVE  Session!Claim
  BY <1>1, <1>4 DEF AcquireLease, TypeOK, bridgeVars, Session!Claim
<1>5. ASSUME NEW r \in Runs, NodeStart(r), node' = "up"
      PROVE  Session!BringUp
  <2>1. lease = TRUE /\ node = "down"
    BY <1>0, <1>1, <1>5
    DEF NodeStart, DeviceInv, ClaimedSoFar, WithNode, TypeOK
  <2>2. UNCHANGED <<lease, queue, lost>>
    BY <1>5 DEF NodeStart, bridgeVars, deviceVars
  <2>3. QED
    BY <2>1, <2>2, <1>5 DEF Session!BringUp
<1>6. ASSUME NEW c \in Calls, ForgetLease(c), lease' # lease
      PROVE  Session!LetGo
  <2>1. node = "down"
    BY <1>0, <1>6 DEF ForgetLease, Calls, DeviceInv, ClaimedSoFar, StopTakesNodeDown, NodeDownFor, Releasing
  <2>2. queue = 0 /\ lost = 0
    BY <1>0, <1>6 DEF ForgetLease, IInv, BridgeInv
  <2>3. lease = TRUE /\ lease' = FALSE
    BY <1>1, <1>6 DEF ForgetLease, TypeOK
  <2>4. UNCHANGED <<node, queue, lost>>
    BY <1>6 DEF ForgetLease, bridgeVars
  <2>5. QED
    BY <2>1, <2>2, <2>3, <2>4 DEF Session!LetGo
<1>7. CASE SendCall
  <2>1. node # "down" /\ node' = node /\ lease' = lease
    BY <1>7 DEF SendCall, deviceVars
  <2>2. queue' + lost' = queue + lost + 1
    BY <1>1, <1>7 DEF SendCall, TypeOK
  <2>3. QED
    BY <2>1, <2>2 DEF Session!Next, Session!Step, Session!Send
<1>8. CASE StoreCall
  <2>1. node' = node /\ lease' = lease
    BY <1>8 DEF StoreCall, deviceVars
  <2>2. queue + lost > 0 /\ queue' + lost' = queue + lost - 1
    BY <1>1, <1>8 DEF StoreCall, TypeOK
  <2>3. Session!Store
    BY <2>1, <2>2, <1>1 DEF TypeOK, Session!Store
  <2>4. QED
    BY <2>3, <1>1 DEF Session!Next, Session!Step
<1>9. CASE NodeDown
  <2>1. node # "down" /\ ~(node' # "down")
    BY <1>9 DEF NodeDown
  <2>2. UNCHANGED <<lease, queue, lost>>
    BY <1>9 DEF NodeDown, bridgeVars, deviceVars
  <2>3. QED
    BY <2>1, <2>2 DEF Session!Next, Session!Step, Session!TakeDown
<1>10. ASSUME NEW r \in Runs, Start(r) \/ RunStep(r)
       PROVE  [Session!Next]_(Session!svars)
  <2>1. CASE AcquireLease(r)
    <3>1. UNCHANGED <<node, queue, lost>>
      BY <2>1 DEF AcquireLease, bridgeVars
    <3>2. QED
      BY <2>1, <3>1, <1>3, <1>4 DEF Session!Next, Session!Step
  <2>2. CASE NodeStart(r)
    <3>1. UNCHANGED <<lease, queue, lost>>
      BY <2>2 DEF NodeStart, bridgeVars, deviceVars
    <3>2. node' = "up" \/ node' = node
      BY <2>2 DEF NodeStart
    <3>3. QED
      BY <2>2, <3>1, <3>2, <1>3, <1>5 DEF Session!Next, Session!Step
  <2>3. CASE AfterNodeStart(r)
    <3>1. UNCHANGED <<lease, queue, lost>>
      BY <2>3 DEF AfterNodeStart, bridgeVars, deviceVars
    <3>2. node' # "down" <=> node # "down"
      BY <2>3 DEF AfterNodeStart, CallNodeStop, IsRunning
    <3>3. QED
      BY <3>1, <3>2, <1>3
  <2>4. CASE ForgetLease(r)
    <3>1. UNCHANGED <<node, queue, lost>>
      BY <2>4 DEF ForgetLease, bridgeVars
    <3>2. QED
      BY <2>4, <3>1, <1>2, <1>3, <1>6 DEF Session!Next, Session!Step
  <2>5. CASE Start(r) \/ BeginRun(r) \/ AcquireLock(r) \/ EndClaim(r)
             \/ Undone(r) \/ SettleRun(r) \/ CloseBridge(r)
             \/ BridgeClosed(r) \/ ReleaseLock(r)
    <3>1. UNCHANGED <<lease, node, queue, lost>>
      BY <2>5, RejectedOverNodeDown
      DEF Start, BeginRun, AcquireLock, EndClaim, Undone, SettleRun,
          CloseBridge, BridgeClosed, ReleaseLock, NodeIsDown, bridgeVars, deviceVars
    <3>2. QED
      BY <3>1, <1>3
  <2>6. QED
    BY <2>1, <2>2, <2>3, <2>4, <2>5, <1>10 DEF RunStep, ReleaseGuards
<1>11. ASSUME NEW s \in Stops,
              CallStop(s, "stop") \/ CallStop(s, "logout") \/ StopStep(s)
       PROVE  [Session!Next]_(Session!svars)
  <2>1. CASE StopNode(s) \/ BackupStopNode(s)
    <3>1. UNCHANGED <<lease, queue, lost>>
      BY <2>1 DEF StopNode, BackupStopNode, bridgeVars, deviceVars
    <3>2. node' # "down" <=> node # "down"
      BY <2>1 DEF StopNode, BackupStopNode, CallNodeStop, IsRunning
    <3>3. QED
      BY <3>1, <3>2, <1>3
  <2>2. CASE ForgetLease(s)
    <3>1. UNCHANGED <<node, queue, lost>>
      BY <2>2 DEF ForgetLease, bridgeVars
    <3>2. QED
      BY <2>2, <3>1, <1>2, <1>3, <1>6 DEF Session!Next, Session!Step
  <2>3. CASE CallStop(s, "stop") \/ CallStop(s, "logout") \/ StopTimers(s)
             \/ TimersStopped(s) \/ NodeStopped(s) \/ StartSettled(s)
             \/ LoadKey(s) \/ BackupNodeStopped(s) \/ BackupDrained(s)
             \/ CreateBackup(s) \/ SaveBackup(s) \/ SettleStop(s)
             \/ CloseBridge(s) \/ BridgeClosed(s) \/ ReleaseLock(s)
    <3>1. UNCHANGED <<lease, node, queue, lost>>
      BY <2>3, RejectedOverNodeDown
      DEF NodeIsDown, CallStop, StopTimers, TimersStopped, NodeStopped, StartSettled,
          LoadKey, BackupNodeStopped, BackupDrained, CreateBackup, SaveBackup,
          SettleStop, CloseBridge, BridgeClosed, ReleaseLock, bridgeVars,
          deviceVars
    <3>2. QED
      BY <3>1, <1>3
  <2>4. QED
    BY <2>1, <2>2, <2>3, <1>11 DEF StopStep, ReleaseGuards
<1>12. CASE BridgeDrained \/ WatchNow \/ EndPass \/ OtherTab \/ UNCHANGED vars
  <2>1. UNCHANGED <<lease, node, queue, lost>>
    BY <1>12
    DEF BridgeDrained, WatchNow, EndPass, OtherTab, vars, bridgeVars,
        deviceVars
  <2>2. QED
    BY <2>1, <1>3
<1>13. QED
  BY <1>7, <1>8, <1>9, <1>10, <1>11, <1>12 DEF Next, Background

(* A session breaks only over a node that is up. *)
LEMMA StepBreaksSession ==
  ASSUME ~leftUp, leftUp', [Next]_vars
  PROVE  Session!Break
<1>1. node # "down"
  BY DEF Next, vars, RunStep, StopStep, Background, Start, BeginRun, AcquireLock, AcquireLease,
      EndClaim, NodeStart, AfterNodeStart, Undone, SettleRun, ReleaseGuards, CloseBridge,
      BridgeClosed, ForgetLease, ReleaseLock, CallStop, StopTimers, TimersStopped, StopNode,
      NodeStopped, StartSettled, LoadKey, BackupStopNode, BackupNodeStopped, BackupDrained,
      CreateBackup, SaveBackup, SettleStop, NodeDown, SendCall, StoreCall, BridgeDrained,
      WatchNow, EndPass, OtherTab, NodeIsDown, NodeStopRejected
<1>2. QED
  BY <1>1 DEF Session!Break

(* Every behaviour of the lifecycle is one of the abstract session. *)
THEOREM LifecycleImplementsSession == Spec => SessionSpec
<1>1. IInv /\ [Next]_vars => [Session!Next]_(Session!svars)
  <2> SUFFICES ASSUME IInv, [Next]_vars PROVE [Session!Next]_(Session!svars)
    OBVIOUS
  <2>1. CASE ~leftUp'
    BY <2>1, StepSession
  <2>2. CASE leftUp' /\ leftUp
    BY <2>2 DEF Session!svars
  <2>3. CASE leftUp' /\ ~leftUp
    BY <2>3, StepBreaksSession DEF Session!Next
  <2>4. QED
    BY <2>1, <2>2, <2>3 DEF IInv, OrderInv, TypeOK
<1>2. QED
  BY <1>1, InitSession, LifecycleInvariant, PTL
  DEF Spec, SessionSpec, Session!Spec

-----------------------------------------------------------------------------
(* The page (module Provider): the inductive invariant. *)

Pcs == {"queued", "replacing", "boot", "start", "peers", "undoing", "done", "failed"}
OutPcs == {"none", "waiting", "queued", "backing", "revoking", "clearing", "reconnecting"}
LeavePcs == {"none", "waiting", "stopping"}
Over == {"done", "failed"}
ConnectCalls ==
    [login : Nat \ {0}, live : BOOLEAN, pc : Pcs, node : {"none", "up", "kept", "stray"}, previous : Nat]

(* What each variable of the page holds: no call is about a session that has not been. *)
SessionTypeOK ==
    /\ habits \in HabitSets /\ asks \in Nat /\ logins \in Nat
    /\ valid \subseteq 1 .. logins /\ token \in 0 .. logins
    /\ page \in {"ready", "away", "loading"} /\ restoring \in 0 .. logins /\ session \in 0 .. logins
    /\ wallet \in 0 .. logins /\ hold \in BOOLEAN
    /\ applied \in [login : Nat, hold : BOOLEAN] /\ applied.login <= logins /\ boot \in 0 .. logins
CallTypeOK ==
    /\ runs \in Seq(ConnectCalls) /\ \A i \in RunIds : runs[i].login <= logins
    /\ conn \in 0 .. Len(runs) /\ asked \subseteq RunIds /\ unleased \subseteq asked
LogoutTypeOK ==
    /\ out \in [pc : OutPcs, login : Nat, after : Nat, conn : Nat] /\ out.login <= logins
    /\ out.conn <= Len(runs) /\ (out.pc \in {"queued", "backing"} => out.conn # 0)
    /\ out.pc # "none" => out.login # 0
    /\ leave \in [pc : LeavePcs, login : Nat, after : Nat, conn : Nat]
    /\ stops \subseteq Nat \ {0} /\ paying \in BOOLEAN
PageTypeOK == SessionTypeOK /\ CallTypeOK /\ LogoutTypeOK

(* A page that is not shown has nothing under way. *)
AwayInv ==
    page # "ready" =>
        /\ session = 0 /\ wallet = 0 /\ boot = 0 /\ applied.login = 0 /\ runs = <<>>
        /\ out = NoCall /\ leave = NoCall

(* Connect calls run one after the other; only the newest one is not superseded. *)
CallOrderInv ==
    /\ \A i, k \in RunIds : i < k /\ runs[k].pc # "queued" => runs[i].pc \in Over
    /\ \A i \in RunIds : runs[i].live => i = Len(runs)

(* Where a connect call is when it has a node, and that one of them at most has one. *)
OneDeviceInv ==
    /\ \A i \in RunIds : HasDevice(i) => runs[i].pc \in {"peers", "undoing", "done"}
    /\ \A i \in RunIds : runs[i].pc = "undoing" /\ HasDevice(i) => i \in asked
    /\ \A i, j \in RunIds : HasDevice(i) /\ HasDevice(j) => i = j

(* The page's connection was made by a call none of whose successors has got anywhere. *)
ConnectionInv ==
    conn # 0 =>
        /\ conn \in RunIds /\ runs[conn].pc = "done" /\ session # 0
        /\ \A k \in RunIds : k > conn => runs[k].pc \in {"queued", "failed"}

(* Whose session the calls under way are for. *)
SessionInv ==
    /\ session # 0 /\ applied.login # 0 => session = applied.login
    /\ applied.login # 0 /\ hold => applied.hold
    /\ boot # 0 => applied.login = boot
    /\ out.pc # "none" => out.login = session \/ out.login \notin valid
    /\ \A i \in RunIds : runs[i].live =>
           runs[i].login = session \/ (runs[i].login \notin valid /\ runs[i].pc \in {"queued", "replacing", "failed"})

(* The wallet on show is the session's, or the effect that takes it away is due. *)
WalletInv == wallet # 0 => wallet = session \/ (session = 0 /\ applied.login # 0)

(* Of a patient app: what a logout or a leave finds. *)
PatienceInv == Patient =>
    /\ "autoStart" \in habits => ~hold /\ ~applied.hold
    /\ out.pc # "none" => leave.pc = "none" /\ stops = {} /\ out.after = Len(runs)
    /\ leave.pc # "none" => stops = {} /\ ~paying /\ leave.after = Len(runs)
    /\ out.pc # "none" \/ leave.pc # "none" => session = 0 \/ applied.login = session
    /\ out.pc \notin {"none", "reconnecting"} => \A i \in RunIds : ~runs[i].live

(* Of a patient app: a logout that has taken the connection has it to itself. *)
LogoutInv == Patient =>
    /\ out.pc \in {"queued", "backing", "revoking", "clearing"} =>
           (\A i \in RunIds : runs[i].pc \in Over) /\ conn \in {0, out.conn}
    /\ out.pc \in {"revoking", "clearing"} => out.conn \notin {i \in RunIds : HasDevice(i)}
    /\ leave.pc = "stopping" => (\A i \in RunIds : runs[i].pc \in Over) /\ conn = 0

(* Of a patient app: no node is lost track of. *)
TrackedInv == Patient =>
    /\ \A i \in unleased : runs[i].live => HasDevice(i)
    /\ \A i \in RunIds : HasDevice(i) => i \in {conn} \cup asked \/ runs[i].pc \in {"peers", "undoing"}

(* Of a patient app whose session does not end by itself: every stop is waited for. *)
AwaitedInv == Patient /\ "ends" \notin habits =>
    /\ session # 0 => session \in valid \/ out.pc = "clearing"
    /\ \A i \in asked : HasDevice(i) =>
           \/ i = conn \/ runs[i].pc \in {"peers", "undoing"} \/ i \in stops
           \/ \E k \in RunIds : runs[k].pc = "replacing" /\ runs[k].previous = i
           \/ leave.pc = "stopping" /\ leave.conn = i

PageInv ==
    /\ PageTypeOK /\ AwayInv /\ CallOrderInv /\ OneDeviceInv /\ ConnectionInv /\ SessionInv /\ WalletInv
    /\ PatienceInv /\ LogoutInv /\ TrackedInv /\ AwaitedInv


-----------------------------------------------------------------------------
(* What each step does to the connect calls. *)

SameCalls == Len(runs') = Len(runs) /\ RunIds' = RunIds /\ \A k \in RunIds : runs'[k].login = runs[k].login
Unmoved == runs' = runs /\ RunIds' = RunIds /\ Len(runs') = Len(runs)
KeptLive == \A k \in RunIds : runs'[k].live = runs[k].live
Others(i) ==
    \A k \in RunIds : k # i =>
        runs'[k].pc = runs[k].pc /\ runs'[k].node = runs[k].node /\ runs'[k].previous = runs[k].previous

(* One call is somewhere else; or has or has no node any more. *)
MovedTo(i, to) ==
    SameCalls /\ KeptLive /\ Others(i) /\ runs'[i].pc = to /\ runs'[i].node = runs[i].node
NodeIs(i, to, with) ==
    /\ SameCalls /\ KeptLive /\ Others(i)
    /\ runs'[i].pc = to /\ runs'[i].node = with /\ runs'[i].previous = runs[i].previous
StartsAlone(i) == NodeIs(i, "peers", "up") /\ ~\E j \in RunIds : HasDevice(j)
Replacing(i) == MovedTo(i, "replacing") /\ runs'[i].previous = conn
WaitOver(i) == (MovedTo(i, "boot") /\ runs[i].login \in valid) \/ MovedTo(i, "failed")
NodeGoes(i) ==
    /\ SameCalls /\ KeptLive /\ Others(i)
    /\ runs'[i].pc = runs[i].pc /\ runs'[i].node \in {"none", "stray"} /\ runs'[i].previous = runs[i].previous

(* All are superseded, and perhaps another one is behind them. *)
Late ==
    \A k \in RunIds :
        /\ runs'[k].login = runs[k].login /\ ~runs'[k].live /\ runs'[k].pc = runs[k].pc
        /\ runs'[k].node = runs[k].node /\ runs'[k].previous = runs[k].previous
Outdated == SameCalls /\ Late
NewCall(login) == [login |-> login, live |-> TRUE, pc |-> "queued", node |-> "none", previous |-> 0]
Added(login) ==
    /\ Len(runs') = Len(runs) + 1 /\ RunIds' = RunIds \cup {Len(runs) + 1} /\ Late
    /\ runs'[Len(runs) + 1].login = login /\ runs'[Len(runs) + 1].live /\ runs'[Len(runs) + 1].pc = "queued"
    /\ runs'[Len(runs) + 1].node = "none" /\ runs'[Len(runs) + 1].previous = 0

(* What becomes of a logout or a leave under way. *)
OutIs(to, after, on) ==
    /\ out' \in [pc : OutPcs, login : Nat, after : Nat, conn : Nat]
    /\ out'.pc = to /\ out'.login = out.login /\ out'.after = after /\ out'.conn = on
TakesConnection ==
    /\ out.pc = "waiting" /\ OutIs(TakesTo, out.after, conn)
    /\ TakesTo \in {"revoking", "queued", "backing"} /\ (conn = 0 <=> TakesTo = "revoking")
LeaveIs(to, on) ==
    /\ leave' \in [pc : LeavePcs, login : Nat, after : Nat, conn : Nat]
    /\ leave'.pc = to /\ leave'.after = leave.after /\ leave'.conn = on

(* A backup is stored or there was none to store; or it failed, and the connection is made again. *)
BackUpEnds ==
    \/ NodeGoes(out.conn) /\ OutIs("revoking", out.after, out.conn)
    \/ Added(out.login) /\ OutIs("reconnecting", Len(runs) + 1, out.conn)

(* The session has ended at the server, or not. *)
RevokeEnds ==
    \/ /\ out.login \in valid /\ valid' = valid \ {out.login} /\ Unmoved
       /\ OutIs("clearing", out.after, out.conn)
    \/ valid' = valid /\ Unmoved /\ out' = NoCall
    \/ valid' = valid /\ Added(out.login) /\ OutIs("reconnecting", Len(runs) + 1, out.conn)

(* The calls are numbered from one. *)
LEMMA CallNumbers ==
    ASSUME CallTypeOK
    PROVE  RunIds = 1 .. Len(runs) /\ Len(runs) \in Nat /\ \A i \in RunIds : runs[i] \in ConnectCalls
  BY DEF CallTypeOK, RunIds

(* Changing one call keeps the others. *)
LEMMA OneMoves ==
    ASSUME CallTypeOK, NEW i \in RunIds, NEW call \in ConnectCalls, runs' = [runs EXCEPT ![i] = call],
           call.login = runs[i].login, call.live = runs[i].live
    PROVE  /\ SameCalls /\ KeptLive /\ Others(i)
           /\ runs' \in Seq(ConnectCalls) /\ runs'[i] = call
<1>1. runs \in Seq(ConnectCalls) /\ i \in 1 .. Len(runs)
  BY CallNumbers DEF CallTypeOK
<1>2. /\ runs' \in Seq(ConnectCalls) /\ Len(runs') = Len(runs)
      /\ \A k \in 1 .. Len(runs) : runs'[k] = IF k = i THEN call ELSE runs[k]
  BY <1>1, ExceptSeq
<1>3. QED
  BY <1>2, CallNumbers DEF SameCalls, KeptLive, Others, RunIds

(* A call that only goes on. *)
LEMMA CallGoesOn ==
    ASSUME CallTypeOK, NEW i \in RunIds, NEW to \in Pcs, runs' = [runs EXCEPT ![i].pc = to]
    PROVE  MovedTo(i, to) /\ runs'[i].previous = runs[i].previous /\ runs' \in Seq(ConnectCalls)
<1> DEFINE call == [runs[i] EXCEPT !.pc = to]
<1>1. /\ call \in ConnectCalls /\ call.login = runs[i].login /\ call.live = runs[i].live
      /\ call.pc = to /\ call.node = runs[i].node /\ call.previous = runs[i].previous
  BY CallNumbers DEF ConnectCalls
<1>2. QED
  BY <1>1, OneMoves DEF MovedTo

(* A call whose node starts or stops. *)
LEMMA CallNodeChanges ==
    ASSUME CallTypeOK, NEW i \in RunIds, NEW to \in Pcs, NEW with \in {"none", "up", "kept", "stray"},
           runs' = [runs EXCEPT ![i].pc = to, ![i].node = with]
    PROVE  NodeIs(i, to, with) /\ runs' \in Seq(ConnectCalls)
<1> DEFINE call == [runs[i] EXCEPT !.pc = to, !.node = with]
<1>1. /\ call \in ConnectCalls /\ call.login = runs[i].login /\ call.live = runs[i].live
      /\ call.pc = to /\ call.node = with /\ call.previous = runs[i].previous
  BY CallNumbers DEF ConnectCalls
<1>2. runs' = [runs EXCEPT ![i] = call]
  BY CallNumbers DEF ConnectCalls
<1>3. QED
  BY <1>1, <1>2, OneMoves DEF NodeIs

(* A call of which only the node changes. *)
LEMMA CallNodeIs ==
    ASSUME CallTypeOK, NEW i \in RunIds, NEW with \in {"none", "up", "kept", "stray"}, runs' = [runs EXCEPT ![i].node = with]
    PROVE  NodeIs(i, runs[i].pc, with) /\ runs' \in Seq(ConnectCalls)
<1> DEFINE call == [runs[i] EXCEPT !.node = with]
<1>1. /\ call \in ConnectCalls /\ call.login = runs[i].login /\ call.live = runs[i].live
      /\ call.pc = runs[i].pc /\ call.node = with /\ call.previous = runs[i].previous
  BY CallNumbers DEF ConnectCalls
<1>2. QED
  BY <1>1, OneMoves DEF NodeIs

(* Superseding keeps all but whether they are live. *)
LEMMA SupersededCalls ==
    ASSUME CallTypeOK
    PROVE  /\ Superseded \in Seq(ConnectCalls) /\ Len(Superseded) = Len(runs) /\ DOMAIN Superseded = RunIds
           /\ \A k \in RunIds : Superseded[k] = [runs[k] EXCEPT !.live = FALSE]
<1>1. Superseded = [k \in 1 .. Len(runs) |-> [runs[k] EXCEPT !.live = FALSE]]
  BY CallNumbers DEF Superseded
<1>2. \A k \in 1 .. Len(runs) : [runs[k] EXCEPT !.live = FALSE] \in ConnectCalls
  BY CallNumbers DEF ConnectCalls
<1>3. Superseded \in Seq(ConnectCalls)
  BY <1>1, <1>2, CallNumbers, IsASeq
<1>4. Len(Superseded) = Len(runs)
  BY <1>1, <1>3, CallNumbers, LenProperties
<1>5. QED
  BY <1>1, <1>3, <1>4, CallNumbers

(* Of a step that supersedes. *)
LEMMA AllSuperseded ==
    ASSUME CallTypeOK, runs' = Superseded
    PROVE  Outdated /\ runs' \in Seq(ConnectCalls)
<1>1. \A k \in RunIds : runs[k] \in ConnectCalls /\ runs'[k] = [runs[k] EXCEPT !.live = FALSE]
  BY SupersededCalls, CallNumbers
<1>2. Late /\ \A k \in RunIds : runs'[k].login = runs[k].login
  BY <1>1 DEF Late, ConnectCalls
<1>3. QED
  BY <1>2, SupersededCalls DEF Outdated, SameCalls, RunIds

(* connect() supersedes the calls before it and adds its own. *)
LEMMA ConnectAdds ==
    ASSUME CallTypeOK, NEW login \in Nat \ {0}, Connect(login)
    PROVE  Added(login) /\ runs' \in Seq(ConnectCalls)
<1>1. NewCall(login) \in ConnectCalls
  BY DEF NewCall, ConnectCalls, Pcs
<1>2. runs' = Append(Superseded, NewCall(login))
  BY DEF Connect, NewCall
<1>3. runs' \in Seq(ConnectCalls) /\ Len(runs') = Len(runs) + 1
  BY <1>1, <1>2, SupersededCalls, AppendProperties
<1>4. \A k \in 1 .. Len(runs) : runs'[k] = Superseded[k]
  BY <1>1, <1>2, SupersededCalls, AppendProperties
<1>5. runs'[Len(runs) + 1] = NewCall(login)
  BY <1>1, <1>2, SupersededCalls, AppendProperties
<1>6. RunIds' = 1 .. Len(runs) + 1
  BY <1>3 DEF RunIds
<1>7. \A k \in RunIds : runs[k] \in ConnectCalls /\ runs'[k] = [runs[k] EXCEPT !.live = FALSE]
  BY <1>4, SupersededCalls, CallNumbers
<1>8. Late
  BY <1>7 DEF Late, ConnectCalls
<1>9. RunIds' = RunIds \cup {Len(runs) + 1}
  BY <1>6, CallNumbers
<1>10. QED
  BY <1>3, <1>5, <1>8, <1>9 DEF Added, NewCall

(* What AfterPrevious does to the calls. *)
LEMMA AfterPreviousCalls ==
    ASSUME PageTypeOK, NEW i \in RunIds, AfterPrevious(i)
    PROVE  runs' \in Seq(ConnectCalls) /\ (IF runs[i].live THEN Replacing(i) ELSE MovedTo(i, "failed"))
<1>1. "failed" \in Pcs /\ "replacing" \in Pcs
  BY DEF Pcs
<1>2. CASE ~runs[i].live
  BY <1>1, <1>2, CallGoesOn DEF PageTypeOK, AfterPrevious, Fail, At
<1>3. CASE runs[i].live
  <2> DEFINE call == [runs[i] EXCEPT !.pc = "replacing", !.previous = conn]
  <2>0. conn \in Nat /\ runs[i] \in ConnectCalls
    BY CallNumbers DEF PageTypeOK, CallTypeOK
  <2>1. /\ call \in ConnectCalls /\ call.login = runs[i].login /\ call.live = runs[i].live
        /\ call.pc = "replacing" /\ call.node = runs[i].node /\ call.previous = conn
    BY <1>1, <2>0 DEF ConnectCalls
  <2>2. runs' = [runs EXCEPT ![i] = call]
    BY <1>3, CallNumbers DEF AfterPrevious, ConnectCalls, PageTypeOK
  <2>3. QED
    BY <1>3, <2>1, <2>2, OneMoves DEF Replacing, MovedTo, PageTypeOK
<1>4. QED
  BY <1>2, <1>3

(* What PreviousStopped does to the calls. *)
LEMMA PreviousStoppedCalls ==
    ASSUME PageTypeOK, NEW i \in RunIds, PreviousStopped(i)
    PROVE  runs' \in Seq(ConnectCalls) /\ WaitOver(i)
<1>1. "boot" \in Pcs /\ "failed" \in Pcs
  BY DEF Pcs
<1>2. QED
  BY <1>1, CallGoesOn DEF PageTypeOK, PreviousStopped, Fail, At, WaitOver

(* What Bootstrapped does to the calls. *)
LEMMA BootstrappedCalls ==
    ASSUME PageTypeOK, NEW i \in RunIds, Bootstrapped(i)
    PROVE  runs' \in Seq(ConnectCalls) /\ (MovedTo(i, "start") \/ MovedTo(i, "failed"))
<1>1. "start" \in Pcs /\ "failed" \in Pcs
  BY DEF Pcs
<1>2. QED
  BY <1>1, CallGoesOn DEF PageTypeOK, Bootstrapped, Fail, At

(* What NodeStarts does to the calls. *)
LEMMA NodeStartsCalls ==
    ASSUME PageTypeOK, NEW i \in RunIds, NodeStarts(i)
    PROVE  runs' \in Seq(ConnectCalls) /\ (StartsAlone(i) \/ MovedTo(i, "failed"))
<1>1. "failed" \in Pcs /\ "peers" \in Pcs
  BY DEF Pcs
<1>2. CASE Fail(i)
  BY <1>1, <1>2, CallGoesOn DEF PageTypeOK, Fail, At
<1>3. CASE runs' = [runs EXCEPT ![i].pc = "peers", ![i].node = "up"] /\ ~\E j \in RunIds : HasDevice(j)
  BY <1>1, <1>3, CallNodeChanges DEF PageTypeOK, StartsAlone
<1>4. QED
  BY <1>2, <1>3 DEF NodeStarts

(* What Connected does to the calls. *)
LEMMA ConnectedCalls ==
    ASSUME PageTypeOK, NEW i \in RunIds, Connected(i)
    PROVE  runs' \in Seq(ConnectCalls) /\ MovedTo(i, IF runs[i].live THEN "done" ELSE "undoing")
<1>1. "done" \in Pcs /\ "undoing" \in Pcs
  BY DEF Pcs
<1>2. QED
  BY <1>1, CallGoesOn DEF PageTypeOK, Connected, Fail, At

(* What PeersFail does to the calls. *)
LEMMA PeersFailCalls ==
    ASSUME PageTypeOK, NEW i \in RunIds, PeersFail(i)
    PROVE  runs' \in Seq(ConnectCalls) /\ MovedTo(i, "undoing")
<1>1. "undoing" \in Pcs
  BY DEF Pcs
<1>2. QED
  BY <1>1, CallGoesOn DEF PageTypeOK, PeersFail, Fail, At

(* What Undone does to the calls. *)
LEMMA RunUndoneCalls ==
    ASSUME PageTypeOK, NEW i \in RunIds, RunUndone(i)
    PROVE  runs' \in Seq(ConnectCalls) /\ MovedTo(i, "failed")
<1>1. "failed" \in Pcs
  BY DEF Pcs
<1>2. QED
  BY <1>1, CallGoesOn DEF PageTypeOK, RunUndone, Fail, At

(* What NodeStops does to the calls. *)
LEMMA NodeStopsCalls ==
    ASSUME PageTypeOK, NEW i \in RunIds, NodeStops(i)
    PROVE  runs' \in Seq(ConnectCalls) /\ NodeGoes(i)
  BY CallNodeIs DEF PageTypeOK, NodeStops, NodeGoes, NodeIs

(* What NodeDownForBackup does to the calls. *)
LEMMA NodeDownForBackupCalls ==
    ASSUME PageTypeOK, NodeDownForBackup
    PROVE  runs' \in Seq(ConnectCalls) /\ out.conn \in RunIds /\ NodeIs(out.conn, runs[out.conn].pc, "kept")
<1>1. out.conn \in RunIds
  BY CallNumbers DEF PageTypeOK, LogoutTypeOK, NodeDownForBackup
<1>2. QED
  BY <1>1, CallNodeIs DEF PageTypeOK, NodeDownForBackup

(* What BackUp does to the calls. *)
LEMMA BackUpCalls ==
    ASSUME PageTypeOK, BackUp
    PROVE  runs' \in Seq(ConnectCalls) /\ out.pc = "backing" /\ out.conn \in RunIds /\ valid' = valid /\ BackUpEnds
<1>1. out.login \in Nat \ {0} /\ out.pc = "backing" /\ out.conn \in RunIds /\ Len(runs) \in Nat /\ valid' = valid
  BY CallNumbers DEF BackUp, PageTypeOK, LogoutTypeOK, server
<1>2. CASE runs' = [runs EXCEPT ![out.conn].node = "none"] /\ out' = [out EXCEPT !.pc = "revoking"]
  <2>1. OutIs("revoking", out.after, out.conn)
    BY <1>1, <1>2 DEF OutIs, OutPcs, PageTypeOK, LogoutTypeOK
  <2>2. runs' \in Seq(ConnectCalls) /\ NodeGoes(out.conn)
    BY <1>1, <1>2, CallNodeIs DEF NodeGoes, NodeIs, PageTypeOK
  <2>3. QED
    BY <1>1, <2>1, <2>2 DEF BackUpEnds
<1>3. CASE LogoutFails
  <2>1. Connect(out.login) /\ out' = [out EXCEPT !.pc = "reconnecting", !.after = Len(runs) + 1]
    BY <1>1, <1>3, CallNumbers DEF LogoutFails, PageTypeOK
  <2> DEFINE n == Len(runs) + 1
  <2>0. n \in Nat
    BY <1>1
  <2>2. OutIs("reconnecting", n, out.conn)
    <3> HIDE DEF n
    <3>1. out' = [out EXCEPT !.pc = "reconnecting", !.after = n]
      BY <2>1 DEF n
    <3>2. QED
      BY <2>0, <3>1 DEF OutIs, OutPcs, PageTypeOK, LogoutTypeOK
  <2>3. QED
    BY <1>1, <2>1, <2>2, ConnectAdds DEF BackUpEnds, PageTypeOK
<1>4. QED
  BY <1>2, <1>3 DEF BackUp

(* What Revoke does to the calls. *)
LEMMA RevokeCalls ==
    ASSUME PageTypeOK, Revoke
    PROVE  runs' \in Seq(ConnectCalls) /\ out.pc = "revoking" /\ RevokeEnds
<1>1. out.login \in Nat \ {0} /\ out.pc = "revoking" /\ Len(runs) \in Nat
  BY CallNumbers DEF Revoke, PageTypeOK, LogoutTypeOK
<1>2. CASE /\ out' = [out EXCEPT !.pc = "clearing"] /\ UNCHANGED runs
           /\ out.login \in valid /\ valid' = valid \ {out.login}
  <2>1. OutIs("clearing", out.after, out.conn)
    BY <1>2 DEF OutIs, OutPcs, PageTypeOK, LogoutTypeOK
  <2>2. Unmoved /\ runs' \in Seq(ConnectCalls)
    BY <1>2 DEF Unmoved, RunIds, PageTypeOK, CallTypeOK
  <2>3. QED
    BY <1>1, <1>2, <2>1, <2>2 DEF RevokeEnds
<1>3. CASE out' = NoCall /\ UNCHANGED <<valid, runs>>
  BY <1>1, <1>3 DEF RevokeEnds, Unmoved, RunIds, PageTypeOK, CallTypeOK
<1>4. CASE Connect(out.login) /\ out' = [out EXCEPT !.pc = "reconnecting", !.after = Len(runs) + 1] /\ UNCHANGED valid
  <2> DEFINE n == Len(runs) + 1
  <2>0. n \in Nat
    BY <1>1
  <2>1. OutIs("reconnecting", n, out.conn)
    <3> HIDE DEF n
    <3>1. out' = [out EXCEPT !.pc = "reconnecting", !.after = n]
      BY <1>4 DEF n
    <3>2. QED
      BY <2>0, <3>1 DEF OutIs, OutPcs, PageTypeOK, LogoutTypeOK
  <2>2. QED
    BY <1>1, <1>4, <2>1, ConnectAdds DEF RevokeEnds, PageTypeOK
<1>5. QED
  BY <1>2, <1>3, <1>4 DEF Revoke, LogoutFails

(* What Clear does to the calls. *)
LEMMA ClearCalls ==
    ASSUME PageTypeOK, Clear
    PROVE  runs' \in Seq(ConnectCalls) /\ Outdated
  BY AllSuperseded DEF PageTypeOK, CallTypeOK, Unmoved, RunIds, Clear

(* What LeaveStops does to the calls. *)
LEMMA LeaveStopsCalls ==
    ASSUME PageTypeOK, LeaveStops
    PROVE  runs' \in Seq(ConnectCalls) /\ (IF conn # 0 THEN Outdated ELSE Unmoved)
  BY AllSuperseded DEF PageTypeOK, CallTypeOK, Unmoved, RunIds, LeaveStops, Disconnect

(* What LeavesPage does to the calls. *)
LEMMA LeavesPageCalls ==
    ASSUME PageTypeOK, LeavesPage
    PROVE  runs' \in Seq(ConnectCalls) /\ runs' = <<>> /\ RunIds' = {} /\ Len(runs') = 0
  BY DEF LeavesPage, Unload, RunIds

(* What SignedOut does to the calls. *)
LEMMA SignedOutCalls ==
    ASSUME PageTypeOK, SignedOut
    PROVE  runs' \in Seq(ConnectCalls) /\ (Outdated \/ Unmoved)
  BY AllSuperseded DEF PageTypeOK, CallTypeOK, Unmoved, RunIds, SignedOut, CleanUp

(* What SignedIn does to the calls. *)
LEMMA SignedInCalls ==
    ASSUME PageTypeOK, SignedIn
    PROVE  runs' \in Seq(ConnectCalls) /\ (Added(session) \/ Unmoved)
  BY ConnectAdds DEF SignedIn, Unmoved, RunIds, PageTypeOK, SessionTypeOK, CallTypeOK

(* What Invalidate does to the calls. *)
LEMMA InvalidateCalls ==
    ASSUME PageTypeOK, Invalidate
    PROVE  runs' \in Seq(ConnectCalls) /\ Outdated
  BY AllSuperseded DEF PageTypeOK, CallTypeOK, Unmoved, RunIds, Invalidate

(* What StartFiber does to the calls. *)
LEMMA StartFiberCalls ==
    ASSUME PageTypeOK, StartFiber
    PROVE  runs' \in Seq(ConnectCalls) /\ Added(session)
  BY ConnectAdds DEF StartFiber, PageTypeOK, SessionTypeOK

(* What StopFiber does to the calls. *)
LEMMA StopFiberCalls ==
    ASSUME PageTypeOK, StopFiber
    PROVE  runs' \in Seq(ConnectCalls) /\ Outdated
  BY AllSuperseded DEF PageTypeOK, CallTypeOK, Unmoved, RunIds, StopFiber, Disconnect

(* What Logout does to the calls. *)
LEMMA LogoutCalls ==
    ASSUME PageTypeOK, Logout
    PROVE  runs' \in Seq(ConnectCalls) /\ Outdated
  BY AllSuperseded DEF PageTypeOK, CallTypeOK, Unmoved, RunIds, Logout

(* What Reload does to the calls. *)
LEMMA ReloadCalls ==
    ASSUME PageTypeOK, Reload
    PROVE  runs' \in Seq(ConnectCalls) /\ runs' = <<>> /\ RunIds' = {} /\ Len(runs') = 0
  BY DEF Reload, Unload, RunIds

(* What becomes of a logout when a node stops. *)
LEMMA NodeStopsOut ==
    ASSUME PageTypeOK, NEW i \in RunIds, NodeStops(i)
    PROVE  IF out.pc = "queued" /\ out.conn = i THEN OutIs("backing", out.after, out.conn) ELSE out' = out
  BY DEF NodeStops, OutIs, PageTypeOK, LogoutTypeOK, OutPcs

(* What becomes of a logout when it takes the connection. *)
LEMMA LogoutTakesOut ==
    ASSUME PageTypeOK, LogoutTakes
    PROVE  TakesConnection
<1>1. conn \in Nat
  BY CallNumbers DEF PageTypeOK, CallTypeOK
<1>2. QED
  BY <1>1 DEF LogoutTakes, TakesConnection, TakesTo, OutIs, PageTypeOK, LogoutTypeOK, OutPcs

(* What becomes of a leave when it takes the connection. *)
LEMMA LeaveStopsLeave ==
    ASSUME PageTypeOK, LeaveStops
    PROVE  leave.pc = "waiting" /\ LeaveIs("stopping", conn)
<1>1. conn \in Nat
  BY CallNumbers DEF PageTypeOK, CallTypeOK
<1>2. QED
  BY <1>1 DEF LeaveStops, LeaveIs, PageTypeOK, LogoutTypeOK, LeavePcs

(* NoCall is a call that is not under way. *)
LEMMA NoCallType ==
    /\ NoCall \in [pc : OutPcs, login : Nat, after : Nat, conn : Nat]
    /\ NoCall \in [pc : LeavePcs, login : Nat, after : Nat, conn : Nat]
    /\ NoCall.pc = "none" /\ NoCall.conn = 0 /\ NoCall.login = 0
  BY DEF NoCall, OutPcs, LeavePcs

(* When the newest call has settled, all have. *)
LEMMA AllOver ==
    ASSUME CallTypeOK, CallOrderInv, RunSettled(Len(runs)), NEW i \in RunIds
    PROVE  runs[i].pc \in Over
<1>1. RunIds = 1 .. Len(runs) /\ Len(runs) \in Nat /\ Len(runs) \in RunIds
  BY CallNumbers
<1>2. runs[Len(runs)].pc \in {"done", "failed"}
  BY <1>1 DEF RunSettled
<1>3. QED
  BY <1>1, <1>2 DEF CallOrderInv, Over

-----------------------------------------------------------------------------
(* Sessions are numbered by their sign-ins: none of the variables names a later one. *)
LEMMA SessionTypeOKStep == ASSUME PageInv, [ProviderNext]_providerVars PROVE SessionTypeOK'
<1> USE CallNumbers DEF PageInv, PageTypeOK
<1>Bootstrapped. ASSUME NEW i \in RunIds, Bootstrapped(i) PROVE SessionTypeOK'
  <2>1. runs[i].login \in 0 .. logins
    BY DEF CallTypeOK, SessionTypeOK, ConnectCalls
  <2>2. QED
    BY <1>Bootstrapped, <2>1 DEF SessionTypeOK, Bootstrapped, server, auth
<1>Revoke. ASSUME Revoke PROVE SessionTypeOK'
  BY <1>Revoke DEF SessionTypeOK, Revoke, LogoutFails, Connect, auth
<1>Clear. ASSUME Clear PROVE SessionTypeOK'
  BY <1>Clear DEF SessionTypeOK, Clear
<1>LeavesPage. ASSUME LeavesPage PROVE SessionTypeOK'
  BY <1>LeavesPage DEF SessionTypeOK, LeavesPage, Unload, server
<1>SignedOut. ASSUME SignedOut PROVE SessionTypeOK'
  BY <1>SignedOut DEF SessionTypeOK, SignedOut, CleanUp, StopOf, Due, server, auth, calls
<1>SignedIn. ASSUME SignedIn PROVE SessionTypeOK'
  BY <1>SignedIn DEF SessionTypeOK, SignedIn, StopOf, Connect, Due, server, auth, calls
<1>WalletBootstrapped. ASSUME WalletBootstrapped PROVE SessionTypeOK'
  BY <1>WalletBootstrapped DEF SessionTypeOK, WalletBootstrapped, server, auth, nodes, calls
<1>Restore. ASSUME Restore PROVE SessionTypeOK'
  BY <1>Restore DEF SessionTypeOK, Restore, view, nodes, calls
<1>HoldEnds. ASSUME HoldEnds PROVE SessionTypeOK'
  BY <1>HoldEnds DEF SessionTypeOK, HoldEnds, server, auth, view, nodes, calls
<1>Load. ASSUME Load PROVE SessionTypeOK'
  <2>1. hold' \in BOOLEAN
    <3>1. CASE hold' = FALSE
      BY <3>1
    <3>2. CASE hold' = ("returns" \in habits)
      <4>1. CASE "returns" \in habits
        BY <3>2, <4>1
      <4>2. CASE ~("returns" \in habits)
        BY <3>2, <4>2
      <4>3. QED
        BY <4>1, <4>2
    <3>3. QED
      BY <1>Load, <3>1, <3>2 DEF Load
  <2>2. QED
    BY <1>Load, <2>1 DEF SessionTypeOK, Load, server, view
<1>Invalidate. ASSUME Invalidate PROVE SessionTypeOK'
  BY <1>Invalidate DEF SessionTypeOK, Invalidate, StopOf, view, calls
<1>ServerEnds. ASSUME NEW s \in valid, ServerEnds(s) PROVE SessionTypeOK'
  BY <1>ServerEnds DEF SessionTypeOK, ServerEnds, auth, view, nodes, calls
<1>StartFiber. ASSUME StartFiber PROVE SessionTypeOK'
  BY <1>StartFiber DEF SessionTypeOK, StartFiber, Connect, Ask, Calm, Due, server, auth, calls
<1>StopFiber. ASSUME StopFiber PROVE SessionTypeOK'
  BY <1>StopFiber DEF SessionTypeOK, StopFiber, Disconnect, StopOf, Ask, Calm, Due, server, auth
<1>Logout. ASSUME Logout PROVE SessionTypeOK'
  BY <1>Logout DEF SessionTypeOK, Logout, Ask, Calm, Due, Authenticated, server, auth
<1>Pay. ASSUME Pay PROVE SessionTypeOK'
  BY <1>Pay DEF SessionTypeOK, Pay, Ask, Calm, Due, server, auth, view, nodes
<1>Leave. ASSUME Leave PROVE SessionTypeOK'
  BY <1>Leave DEF SessionTypeOK, Leave, Ask, Calm, Due, server, auth, view, nodes
<1>Reload. ASSUME Reload PROVE SessionTypeOK'
  BY <1>Reload DEF SessionTypeOK, Reload, Unload, server
<1>SignIn. ASSUME SignIn PROVE SessionTypeOK'
  BY <1>SignIn DEF SessionTypeOK, SignIn, Ask, Calm, Due, nodes, calls
<1>same. ASSUME UNCHANGED
                    <<habits, asks, valid, token, page, logins, session, restoring, wallet, hold, applied, boot>>
         PROVE  SessionTypeOK'
  BY <1>same DEF SessionTypeOK, HasDevice, Patient, RunIds
<1> QED
  BY <1>Bootstrapped, <1>Revoke, <1>Clear, <1>LeavesPage, <1>SignedOut, <1>SignedIn, <1>WalletBootstrapped,
     <1>Restore, <1>HoldEnds, <1>Load, <1>Invalidate, <1>ServerEnds, <1>StartFiber, <1>StopFiber, <1>Logout,
     <1>Pay, <1>Leave, <1>Reload, <1>SignIn, <1>same DEF ProviderNext, ConnectStep, LogoutStep, EffectStep,
     UserStep, providerVars, server, auth, view, nodes, calls, AfterPrevious, PreviousStopped, NodeStarts,
     Connected, PeersFail, RunUndone, NodeStops, LeaseLost, Disconnected, LogoutTakes, NodeDownForBackup,
     BackUp, Reconnected, LeaveStops, PayEnds, LeaveFails

(* The calls stay a sequence of calls, each for a session there has been, and what is stopped is one of them. *)
LEMMA CallTypeOKStep == ASSUME PageInv, [ProviderNext]_providerVars PROVE CallTypeOK'
<1> USE CallNumbers DEF PageInv, PageTypeOK
<1>AfterPrevious. ASSUME NEW i \in RunIds, AfterPrevious(i) PROVE CallTypeOK'
  <2>1. runs' \in Seq(ConnectCalls) /\ (IF runs[i].live THEN Replacing(i) ELSE MovedTo(i, "failed"))
    BY <1>AfterPrevious, AfterPreviousCalls
  <2>2. QED
    BY <1>AfterPrevious, <2>1 DEF CallTypeOK, AfterPrevious, Fail, StopOf, server, auth, calls, MovedTo,
       SameCalls, KeptLive, Others, Replacing, HasDevice
<1>PreviousStopped. ASSUME NEW i \in RunIds, PreviousStopped(i) PROVE CallTypeOK'
  <2>1. runs' \in Seq(ConnectCalls) /\ WaitOver(i)
    BY <1>PreviousStopped, PreviousStoppedCalls
  <2>2. QED
    BY <1>PreviousStopped, <2>1 DEF CallTypeOK, PreviousStopped, Fail, server, auth, calls, WaitOver, MovedTo, SameCalls,
       KeptLive, Others, HasDevice
<1>Bootstrapped. ASSUME NEW i \in RunIds, Bootstrapped(i) PROVE CallTypeOK'
  <2>1. runs' \in Seq(ConnectCalls) /\ (MovedTo(i, "start") \/ MovedTo(i, "failed"))
    BY <1>Bootstrapped, BootstrappedCalls
  <2>2. QED
    BY <1>Bootstrapped, <2>1 DEF CallTypeOK, Bootstrapped, Fail, server, auth, calls, MovedTo, SameCalls,
       KeptLive, Others, HasDevice
<1>NodeStarts. ASSUME NEW i \in RunIds, NodeStarts(i) PROVE CallTypeOK'
  <2>1. runs' \in Seq(ConnectCalls) /\ (StartsAlone(i) \/ MovedTo(i, "failed"))
    BY <1>NodeStarts, NodeStartsCalls
  <2>2. QED
    BY <1>NodeStarts, <2>1 DEF CallTypeOK, NodeStarts, Fail, server, auth, calls, MovedTo, SameCalls, KeptLive,
       Others, NodeIs, HasDevice, StartsAlone
<1>Connected. ASSUME NEW i \in RunIds, Connected(i) PROVE CallTypeOK'
  <2>1. runs' \in Seq(ConnectCalls) /\ MovedTo(i, IF runs[i].live THEN "done" ELSE "undoing")
    BY <1>Connected, ConnectedCalls
  <2>2. QED
    BY <1>Connected, <2>1 DEF CallTypeOK, Connected, StopOf, server, auth, calls, MovedTo, SameCalls, KeptLive,
       Others, HasDevice
<1>PeersFail. ASSUME NEW i \in RunIds, PeersFail(i) PROVE CallTypeOK'
  <2>1. runs' \in Seq(ConnectCalls) /\ MovedTo(i, "undoing")
    BY <1>PeersFail, PeersFailCalls
  <2>2. QED
    BY <1>PeersFail, <2>1 DEF CallTypeOK, PeersFail, StopOf, server, auth, view, calls, MovedTo, SameCalls,
       KeptLive, Others, HasDevice
<1>RunUndone. ASSUME NEW i \in RunIds, RunUndone(i) PROVE CallTypeOK'
  <2>1. runs' \in Seq(ConnectCalls) /\ MovedTo(i, "failed")
    BY <1>RunUndone, RunUndoneCalls
  <2>2. QED
    BY <1>RunUndone, <2>1 DEF CallTypeOK, RunUndone, Fail, server, auth, calls, MovedTo, SameCalls, KeptLive,
       Others, HasDevice
<1>NodeStops. ASSUME NEW i \in RunIds, NodeStops(i) PROVE CallTypeOK'
  <2>1. runs' \in Seq(ConnectCalls) /\ NodeGoes(i)
    BY <1>NodeStops, NodeStopsCalls
  <2>2. QED
    BY <1>NodeStops, <2>1 DEF CallTypeOK, NodeStops, server, auth, NodeGoes, SameCalls, KeptLive, Others,
       HasDevice
<1>LeaseLost. ASSUME NEW i \in RunIds, LeaseLost(i) PROVE CallTypeOK'
  BY <1>LeaseLost DEF CallTypeOK, LeaseLost, server, auth, view, calls, HasDevice, RunIds
<1>NodeDownForBackup. ASSUME NodeDownForBackup PROVE CallTypeOK'
  <2>1. runs' \in Seq(ConnectCalls) /\ out.conn \in RunIds /\ NodeIs(out.conn, runs[out.conn].pc, "kept")
    BY <1>NodeDownForBackup, NodeDownForBackupCalls
  <2>2. QED
    BY <1>NodeDownForBackup, <2>1 DEF CallTypeOK, NodeDownForBackup, server, auth, view, calls, NodeIs,
       SameCalls, KeptLive, Others, HasDevice
<1>BackUp. ASSUME BackUp PROVE CallTypeOK'
  <2>1. runs' \in Seq(ConnectCalls) /\ BackUpEnds
    BY <1>BackUp, BackUpCalls
  <2>2. UNCHANGED <<logins, conn, asked, unleased>>
    BY <1>BackUp DEF BackUp, auth
  <2>3. /\ Len(runs) <= Len(runs') /\ Len(runs) \in Nat /\ Len(runs') \in Nat /\ RunIds \subseteq RunIds'
        /\ \A k \in RunIds' : (k \in RunIds /\ runs'[k].login = runs[k].login) \/ runs'[k].login = out.login
    BY <2>1 DEF BackUpEnds, Added, Late, Unmoved, NodeGoes, SameCalls
  <2>4. \A k \in RunIds' : runs'[k].login <= logins
    BY <2>3 DEF CallTypeOK, LogoutTypeOK
  <2>5. QED
    BY <2>1, <2>2, <2>3, <2>4 DEF CallTypeOK
<1>Revoke. ASSUME Revoke PROVE CallTypeOK'
  <2>1. runs' \in Seq(ConnectCalls) /\ RevokeEnds
    BY <1>Revoke, RevokeCalls
  <2>2. UNCHANGED <<logins, conn, asked, unleased>>
    BY <1>Revoke DEF Revoke, auth
  <2>3. /\ Len(runs) <= Len(runs') /\ Len(runs) \in Nat /\ Len(runs') \in Nat /\ RunIds \subseteq RunIds'
        /\ \A k \in RunIds' : (k \in RunIds /\ runs'[k].login = runs[k].login) \/ runs'[k].login = out.login
    BY <2>1 DEF RevokeEnds, Added, Late, Unmoved, NodeIs, SameCalls
  <2>4. \A k \in RunIds' : runs'[k].login <= logins
    BY <2>3 DEF CallTypeOK, LogoutTypeOK
  <2>5. QED
    BY <2>1, <2>2, <2>3, <2>4 DEF CallTypeOK
<1>Clear. ASSUME Clear PROVE CallTypeOK'
  <2>1. runs' \in Seq(ConnectCalls) /\ Outdated
    BY <1>Clear, ClearCalls
  <2>2. QED
    BY <1>Clear, <2>1 DEF CallTypeOK, Clear, Outdated, SameCalls, Late, HasDevice
<1>LeaveStops. ASSUME LeaveStops PROVE CallTypeOK'
  <2>1. runs' \in Seq(ConnectCalls) /\ (IF conn # 0 THEN Outdated ELSE Unmoved)
    BY <1>LeaveStops, LeaveStopsCalls
  <2>2. QED
    BY <1>LeaveStops, <2>1 DEF CallTypeOK, LeaveStops, Disconnect, StopOf, server, auth, Outdated, SameCalls,
       Late, HasDevice, Unmoved
<1>LeavesPage. ASSUME LeavesPage PROVE CallTypeOK'
  <2>1. runs' \in Seq(ConnectCalls) /\ runs' = <<>> /\ RunIds' = {} /\ Len(runs') = 0
    BY <1>LeavesPage, LeavesPageCalls
  <2>2. QED
    BY <1>LeavesPage, <2>1 DEF CallTypeOK, LeavesPage, Unload, server, HasDevice
<1>SignedOut. ASSUME SignedOut PROVE CallTypeOK'
  <2>1. runs' \in Seq(ConnectCalls) /\ (Outdated \/ Unmoved)
    BY <1>SignedOut, SignedOutCalls
  <2>2. QED
    BY <1>SignedOut, <2>1 DEF CallTypeOK, SignedOut, CleanUp, StopOf, Due, server, auth, calls, Outdated,
       SameCalls, Late, HasDevice, Unmoved
<1>SignedIn. ASSUME SignedIn PROVE CallTypeOK'
  <2>1. runs' \in Seq(ConnectCalls) /\ (Added(session) \/ Unmoved)
    BY <1>SignedIn, SignedInCalls
  <2>2. QED
    BY <1>SignedIn, <2>1 DEF CallTypeOK, SessionTypeOK, SignedIn, StopOf, Due, server, auth, calls, Added, Late,
       HasDevice, Unmoved
<1>Invalidate. ASSUME Invalidate PROVE CallTypeOK'
  <2>1. runs' \in Seq(ConnectCalls) /\ Outdated
    BY <1>Invalidate, InvalidateCalls
  <2>2. QED
    BY <1>Invalidate, <2>1 DEF CallTypeOK, Invalidate, StopOf, view, calls, Outdated, SameCalls, Late, HasDevice
<1>StartFiber. ASSUME StartFiber PROVE CallTypeOK'
  <2>1. runs' \in Seq(ConnectCalls) /\ Added(session)
    BY <1>StartFiber, StartFiberCalls
  <2>2. QED
    BY <1>StartFiber, <2>1 DEF CallTypeOK, SessionTypeOK, StartFiber, Ask, Calm, Due, server, auth, calls,
       Added, Late, HasDevice
<1>StopFiber. ASSUME StopFiber PROVE CallTypeOK'
  <2>1. runs' \in Seq(ConnectCalls) /\ Outdated
    BY <1>StopFiber, StopFiberCalls
  <2>2. QED
    BY <1>StopFiber, <2>1 DEF CallTypeOK, StopFiber, Disconnect, StopOf, Ask, Calm, Due, server, auth, Outdated,
       SameCalls, Late, HasDevice
<1>Logout. ASSUME Logout PROVE CallTypeOK'
  <2>1. runs' \in Seq(ConnectCalls) /\ Outdated
    BY <1>Logout, LogoutCalls
  <2>2. QED
    BY <1>Logout, <2>1 DEF CallTypeOK, Logout, Ask, Calm, Due, Authenticated, server, auth, Outdated, SameCalls,
       Late, HasDevice
<1>Reload. ASSUME Reload PROVE CallTypeOK'
  <2>1. runs' \in Seq(ConnectCalls) /\ runs' = <<>> /\ RunIds' = {} /\ Len(runs') = 0
    BY <1>Reload, ReloadCalls
  <2>2. QED
    BY <1>Reload, <2>1 DEF CallTypeOK, Reload, Unload, server, HasDevice
<1>SignIn. ASSUME SignIn PROVE CallTypeOK'
  <2>1. \A i \in RunIds : runs[i].login \in Nat
    BY DEF ConnectCalls
  <2>2. logins \in Nat /\ logins' = logins + 1 /\ UNCHANGED nodes
    BY <1>SignIn DEF SignIn, SessionTypeOK
  <2>3. QED
    BY <2>1, <2>2 DEF CallTypeOK, nodes, RunIds
<1>same. ASSUME UNCHANGED <<habits, logins, runs, conn, asked, unleased>> PROVE CallTypeOK'
  BY <1>same DEF CallTypeOK, HasDevice, Patient, RunIds
<1> QED
  BY <1>AfterPrevious, <1>PreviousStopped, <1>Bootstrapped, <1>NodeStarts, <1>Connected, <1>PeersFail,
     <1>RunUndone, <1>NodeStops, <1>LeaseLost, <1>NodeDownForBackup, <1>BackUp, <1>Revoke, <1>Clear,
     <1>LeaveStops, <1>LeavesPage, <1>SignedOut, <1>SignedIn, <1>Invalidate, <1>StartFiber, <1>StopFiber,
     <1>Logout, <1>Reload, <1>SignIn, <1>same DEF ProviderNext, ConnectStep, LogoutStep, EffectStep, UserStep,
     providerVars, server, auth, view, nodes, calls, Disconnected, LogoutTakes, Reconnected, WalletBootstrapped,
     Restore, HoldEnds, Load, ServerEnds, Pay, PayEnds, Leave, LeaveFails

(* The logout, the leave and the disconnects keep their types; a logout that waits for a stop has a call. *)
LEMMA LogoutTypeOKStep == ASSUME PageInv, [ProviderNext]_providerVars PROVE LogoutTypeOK'
<1> USE CallNumbers DEF PageInv, PageTypeOK
<1>AfterPrevious. ASSUME NEW i \in RunIds, AfterPrevious(i) PROVE LogoutTypeOK'
  <2>1. runs' \in Seq(ConnectCalls) /\ (IF runs[i].live THEN Replacing(i) ELSE MovedTo(i, "failed"))
    BY <1>AfterPrevious, AfterPreviousCalls
  <2>2. QED
    BY <1>AfterPrevious, <2>1 DEF LogoutTypeOK, AfterPrevious, Fail, StopOf, server, auth, calls, MovedTo,
       SameCalls, KeptLive, Others, Replacing, HasDevice, OutPcs, LeavePcs
<1>PreviousStopped. ASSUME NEW i \in RunIds, PreviousStopped(i) PROVE LogoutTypeOK'
  <2>1. runs' \in Seq(ConnectCalls) /\ WaitOver(i)
    BY <1>PreviousStopped, PreviousStoppedCalls
  <2>2. QED
    BY <1>PreviousStopped, <2>1 DEF LogoutTypeOK, PreviousStopped, Fail, server, auth, calls, WaitOver, MovedTo,
       SameCalls, KeptLive, Others, HasDevice, OutPcs, LeavePcs
<1>Bootstrapped. ASSUME NEW i \in RunIds, Bootstrapped(i) PROVE LogoutTypeOK'
  <2>1. runs' \in Seq(ConnectCalls) /\ (MovedTo(i, "start") \/ MovedTo(i, "failed"))
    BY <1>Bootstrapped, BootstrappedCalls
  <2>2. QED
    BY <1>Bootstrapped, <2>1 DEF LogoutTypeOK, Bootstrapped, Fail, server, auth, calls, MovedTo, SameCalls,
       KeptLive, Others, HasDevice, OutPcs, LeavePcs
<1>NodeStarts. ASSUME NEW i \in RunIds, NodeStarts(i) PROVE LogoutTypeOK'
  <2>1. runs' \in Seq(ConnectCalls) /\ (StartsAlone(i) \/ MovedTo(i, "failed"))
    BY <1>NodeStarts, NodeStartsCalls
  <2>2. QED
    BY <1>NodeStarts, <2>1 DEF LogoutTypeOK, NodeStarts, Fail, server, auth, calls, MovedTo, SameCalls,
       KeptLive, Others, NodeIs, HasDevice, OutPcs, LeavePcs, StartsAlone
<1>Connected. ASSUME NEW i \in RunIds, Connected(i) PROVE LogoutTypeOK'
  <2>1. runs' \in Seq(ConnectCalls) /\ MovedTo(i, IF runs[i].live THEN "done" ELSE "undoing")
    BY <1>Connected, ConnectedCalls
  <2>2. QED
    BY <1>Connected, <2>1 DEF LogoutTypeOK, Connected, StopOf, server, auth, calls, MovedTo, SameCalls,
       KeptLive, Others, HasDevice, OutPcs, LeavePcs
<1>PeersFail. ASSUME NEW i \in RunIds, PeersFail(i) PROVE LogoutTypeOK'
  <2>1. runs' \in Seq(ConnectCalls) /\ MovedTo(i, "undoing")
    BY <1>PeersFail, PeersFailCalls
  <2>2. QED
    BY <1>PeersFail, <2>1 DEF LogoutTypeOK, PeersFail, StopOf, server, auth, view, calls, MovedTo, SameCalls,
       KeptLive, Others, HasDevice, OutPcs, LeavePcs
<1>RunUndone. ASSUME NEW i \in RunIds, RunUndone(i) PROVE LogoutTypeOK'
  <2>1. runs' \in Seq(ConnectCalls) /\ MovedTo(i, "failed")
    BY <1>RunUndone, RunUndoneCalls
  <2>2. QED
    BY <1>RunUndone, <2>1 DEF LogoutTypeOK, RunUndone, Fail, server, auth, calls, MovedTo, SameCalls, KeptLive,
       Others, HasDevice, OutPcs, LeavePcs
<1>NodeStops. ASSUME NEW i \in RunIds, NodeStops(i) PROVE LogoutTypeOK'
  <2>1. runs' \in Seq(ConnectCalls) /\ NodeGoes(i)
    BY <1>NodeStops, NodeStopsCalls
  <2>2. IF out.pc = "queued" /\ out.conn = i THEN OutIs("backing", out.after, out.conn) ELSE out' = out
    BY <1>NodeStops, NodeStopsOut
  <2>3. QED
    BY <1>NodeStops, <2>1, <2>2 DEF LogoutTypeOK, NodeStops, server, auth, NodeGoes, SameCalls, KeptLive, Others,
       OutIs, HasDevice, OutPcs, LeavePcs
<1>Disconnected. ASSUME NEW i \in RunIds, Disconnected(i) PROVE LogoutTypeOK'
  BY <1>Disconnected DEF LogoutTypeOK, Disconnected, server, auth, nodes, HasDevice, RunIds, OutPcs, LeavePcs
<1>LogoutTakes. ASSUME LogoutTakes PROVE LogoutTypeOK'
  <2>1. TakesConnection
    BY <1>LogoutTakes, LogoutTakesOut
  <2>2. QED
    BY <1>LogoutTakes, <2>1 DEF LogoutTypeOK, SessionTypeOK, CallTypeOK, LogoutTakes, server, auth, view, nodes,
       OutIs, HasDevice, RunIds, OutPcs, LeavePcs, TakesConnection
<1>NodeDownForBackup. ASSUME NodeDownForBackup PROVE LogoutTypeOK'
  <2>1. runs' \in Seq(ConnectCalls) /\ out.conn \in RunIds /\ NodeIs(out.conn, runs[out.conn].pc, "kept")
    BY <1>NodeDownForBackup, NodeDownForBackupCalls
  <2>2. QED
    BY <1>NodeDownForBackup, <2>1 DEF LogoutTypeOK, NodeDownForBackup, server, auth, view, calls, NodeIs,
       SameCalls, KeptLive, Others, HasDevice, OutPcs, LeavePcs
<1>BackUp. ASSUME BackUp PROVE LogoutTypeOK'
  <2>1. runs' \in Seq(ConnectCalls) /\ out.pc = "backing" /\ out.conn \in RunIds /\ valid' = valid /\ BackUpEnds
    BY <1>BackUp, BackUpCalls
  <2>2. UNCHANGED <<logins, leave, stops, paying>> /\ out.conn # 0
    BY <1>BackUp, <2>1 DEF BackUp, auth
  <2>3. Len(runs) \in Nat /\ Len(runs') \in Nat /\ Len(runs) <= Len(runs')
    BY <2>1 DEF BackUpEnds, Unmoved, NodeGoes, SameCalls, Added
  <2>4. /\ out' \in [pc : OutPcs, login : Nat, after : Nat, conn : Nat] /\ out'.pc \notin {"queued", "backing"}
        /\ out'.login = out.login /\ out'.conn = out.conn
    BY <2>1 DEF BackUpEnds, OutIs
  <2>5. out.conn \in Nat /\ out.conn <= Len(runs') /\ out.login # 0
    BY <2>1, <2>3 DEF LogoutTypeOK
  <2>6. QED
    BY <2>2, <2>4, <2>5 DEF LogoutTypeOK
<1>Revoke. ASSUME Revoke PROVE LogoutTypeOK'
  <2>1. runs' \in Seq(ConnectCalls) /\ out.pc = "revoking" /\ RevokeEnds
    BY <1>Revoke, RevokeCalls
  <2>2. QED
    BY <1>Revoke, <2>1, NoCallType DEF LogoutTypeOK, SessionTypeOK, CallTypeOK, Revoke, auth, RevokeEnds,
       NodeIs, SameCalls, KeptLive, Others, Added, Late, Unmoved, OutIs, HasDevice, OutPcs, LeavePcs
<1>Clear. ASSUME Clear PROVE LogoutTypeOK'
  <2>1. runs' \in Seq(ConnectCalls) /\ Outdated
    BY <1>Clear, ClearCalls
  <2>2. QED
    BY <1>Clear, <2>1, NoCallType DEF LogoutTypeOK, SessionTypeOK, CallTypeOK, Clear, Outdated, SameCalls, Late,
       HasDevice, OutPcs, LeavePcs
<1>Reconnected. ASSUME Reconnected PROVE LogoutTypeOK'
  BY <1>Reconnected, NoCallType DEF LogoutTypeOK, SessionTypeOK, CallTypeOK, Reconnected, server, auth, nodes,
     HasDevice, RunIds, OutPcs, LeavePcs
<1>LeaveStops. ASSUME LeaveStops PROVE LogoutTypeOK'
  <2>1. runs' \in Seq(ConnectCalls) /\ (IF conn # 0 THEN Outdated ELSE Unmoved)
    BY <1>LeaveStops, LeaveStopsCalls
  <2>2. leave.pc = "waiting" /\ LeaveIs("stopping", conn)
    BY <1>LeaveStops, LeaveStopsLeave
  <2>3. QED
    BY <1>LeaveStops, <2>1, <2>2 DEF LogoutTypeOK, LeaveStops, Disconnect, StopOf, server, auth, Outdated,
       SameCalls, Late, LeaveIs, HasDevice, Unmoved, OutPcs, LeavePcs
<1>LeavesPage. ASSUME LeavesPage PROVE LogoutTypeOK'
  <2>1. logins' \in Nat /\ Len(runs') = 0 /\ out' = NoCall /\ leave' = NoCall /\ stops' = {} /\ paying' = FALSE
    BY <1>LeavesPage, LeavesPageCalls DEF SessionTypeOK, LeavesPage, Unload
  <2>2. /\ out'.pc = "none" /\ out'.conn = 0 /\ out'.login = 0
        /\ out' \in [pc : OutPcs, login : Nat, after : Nat, conn : Nat]
        /\ leave' \in [pc : LeavePcs, login : Nat, after : Nat, conn : Nat]
        /\ paying' \in BOOLEAN /\ stops' \subseteq Nat \ {0}
    BY <2>1, NoCallType
  <2>3. 0 <= logins' /\ 0 <= Len(runs')
    BY <2>1
  <2>4. QED
    BY <2>2, <2>3 DEF LogoutTypeOK
<1>LeaveFails. ASSUME LeaveFails PROVE LogoutTypeOK'
  BY <1>LeaveFails, NoCallType DEF LogoutTypeOK, OutPcs, LeavePcs, LeaveFails, server, auth, nodes, HasDevice, RunIds
<1>SignedOut. ASSUME SignedOut PROVE LogoutTypeOK'
  <2>1. runs' \in Seq(ConnectCalls) /\ (Outdated \/ Unmoved)
    BY <1>SignedOut, SignedOutCalls
  <2>2. QED
    BY <1>SignedOut, <2>1 DEF LogoutTypeOK, SignedOut, CleanUp, StopOf, Due, server, auth, calls, Outdated,
       SameCalls, Late, HasDevice, Unmoved, OutPcs, LeavePcs
<1>SignedIn. ASSUME SignedIn PROVE LogoutTypeOK'
  <2>1. runs' \in Seq(ConnectCalls) /\ (Added(session) \/ Unmoved)
    BY <1>SignedIn, SignedInCalls
  <2>2. QED
    BY <1>SignedIn, <2>1 DEF LogoutTypeOK, SignedIn, StopOf, Due, server, auth, calls, Added, Late, HasDevice,
       Unmoved, OutPcs, LeavePcs
<1>Invalidate. ASSUME Invalidate PROVE LogoutTypeOK'
  <2>1. runs' \in Seq(ConnectCalls) /\ Outdated
    BY <1>Invalidate, InvalidateCalls
  <2>2. QED
    BY <1>Invalidate, <2>1 DEF LogoutTypeOK, Invalidate, StopOf, view, calls, Outdated, SameCalls, Late,
       HasDevice, OutPcs, LeavePcs
<1>StartFiber. ASSUME StartFiber PROVE LogoutTypeOK'
  <2>1. runs' \in Seq(ConnectCalls) /\ Added(session)
    BY <1>StartFiber, StartFiberCalls
  <2>2. QED
    BY <1>StartFiber, <2>1 DEF LogoutTypeOK, StartFiber, Ask, Calm, Due, server, auth, calls, Added, Late,
       HasDevice, OutPcs, LeavePcs
<1>StopFiber. ASSUME StopFiber PROVE LogoutTypeOK'
  <2>1. runs' \in Seq(ConnectCalls) /\ Outdated
    BY <1>StopFiber, StopFiberCalls
  <2>2. QED
    BY <1>StopFiber, <2>1 DEF LogoutTypeOK, SessionTypeOK, CallTypeOK, StopFiber, Disconnect, StopOf, Ask, Calm,
       Due, server, auth, Outdated, SameCalls, Late, HasDevice, OutPcs, LeavePcs
<1>Logout. ASSUME Logout PROVE LogoutTypeOK'
  <2>1. runs' \in Seq(ConnectCalls) /\ Outdated
    BY <1>Logout, LogoutCalls
  <2>2. QED
    BY <1>Logout, <2>1, NoCallType DEF LogoutTypeOK, SessionTypeOK, CallTypeOK, Logout, Ask, Calm, Due,
       Authenticated, server, auth, Outdated, SameCalls, Late, HasDevice, OutPcs, LeavePcs
<1>Pay. ASSUME Pay PROVE LogoutTypeOK'
  BY <1>Pay DEF LogoutTypeOK, Pay, Ask, Calm, Due, server, auth, view, nodes, HasDevice, RunIds, OutPcs,
     LeavePcs
<1>PayEnds. ASSUME PayEnds PROVE LogoutTypeOK'
  BY <1>PayEnds DEF LogoutTypeOK, PayEnds, server, auth, view, nodes, HasDevice, RunIds, OutPcs, LeavePcs
<1>Leave. ASSUME Leave PROVE LogoutTypeOK'
  BY <1>Leave, NoCallType DEF LogoutTypeOK, Leave, Ask, Calm, Due, server, auth, view, nodes, HasDevice, RunIds,
     OutPcs, LeavePcs
<1>Reload. ASSUME Reload PROVE LogoutTypeOK'
  <2>1. logins' \in Nat /\ Len(runs') = 0 /\ out' = NoCall /\ leave' = NoCall /\ stops' = {} /\ paying' = FALSE
    BY <1>Reload, ReloadCalls DEF SessionTypeOK, Reload, Unload
  <2>2. /\ out'.pc = "none" /\ out'.conn = 0 /\ out'.login = 0
        /\ out' \in [pc : OutPcs, login : Nat, after : Nat, conn : Nat]
        /\ leave' \in [pc : LeavePcs, login : Nat, after : Nat, conn : Nat]
        /\ paying' \in BOOLEAN /\ stops' \subseteq Nat \ {0}
    BY <2>1, NoCallType
  <2>3. 0 <= logins' /\ 0 <= Len(runs')
    BY <2>1
  <2>4. QED
    BY <2>2, <2>3 DEF LogoutTypeOK
<1>SignIn. ASSUME SignIn PROVE LogoutTypeOK'
  BY <1>SignIn DEF LogoutTypeOK, SessionTypeOK, CallTypeOK, SignIn, Ask, Calm, Due, nodes, calls, HasDevice,
     RunIds, OutPcs, LeavePcs
<1>same. ASSUME UNCHANGED <<habits, logins, runs, out, leave, stops, paying>> PROVE LogoutTypeOK'
  BY <1>same DEF LogoutTypeOK, HasDevice, Patient, RunIds
<1> QED
  BY <1>AfterPrevious, <1>PreviousStopped, <1>Bootstrapped, <1>NodeStarts, <1>Connected, <1>PeersFail,
     <1>RunUndone, <1>NodeStops, <1>Disconnected, <1>LogoutTakes, <1>NodeDownForBackup, <1>BackUp, <1>Revoke,
     <1>Clear, <1>Reconnected, <1>LeaveStops, <1>LeavesPage, <1>LeaveFails, <1>SignedOut, <1>SignedIn, <1>Invalidate,
     <1>StartFiber, <1>StopFiber, <1>Logout, <1>Pay, <1>PayEnds, <1>Leave, <1>Reload, <1>SignIn, <1>same DEF
     ProviderNext, ConnectStep, LogoutStep, EffectStep, UserStep, providerVars, server, auth, view, nodes,
     calls, LeaseLost, WalletBootstrapped, Restore, HoldEnds, Load, ServerEnds

(* A page that is not shown has nothing under way, whatever the step. *)
LEMMA AwayInvStep == ASSUME PageInv, [ProviderNext]_providerVars PROVE AwayInv'
<1> USE CallNumbers DEF PageInv, PageTypeOK
<1>AfterPrevious. ASSUME NEW i \in RunIds, AfterPrevious(i) PROVE AwayInv'
  <2>1. runs' \in Seq(ConnectCalls) /\ (IF runs[i].live THEN Replacing(i) ELSE MovedTo(i, "failed"))
    BY <1>AfterPrevious, AfterPreviousCalls
  <2>2. QED
    BY <1>AfterPrevious, <2>1 DEF AwayInv, AfterPrevious, Fail, StopOf, server, auth, calls, MovedTo, SameCalls,
       KeptLive, Others, Replacing, HasDevice
<1>PreviousStopped. ASSUME NEW i \in RunIds, PreviousStopped(i) PROVE AwayInv'
  <2>1. runs' \in Seq(ConnectCalls) /\ WaitOver(i)
    BY <1>PreviousStopped, PreviousStoppedCalls
  <2>2. QED
    BY <1>PreviousStopped, <2>1 DEF AwayInv, PreviousStopped, Fail, server, auth, calls, WaitOver, MovedTo, SameCalls,
       KeptLive, Others, HasDevice
<1>Bootstrapped. ASSUME NEW i \in RunIds, Bootstrapped(i) PROVE AwayInv'
  <2>1. runs' \in Seq(ConnectCalls) /\ (MovedTo(i, "start") \/ MovedTo(i, "failed"))
    BY <1>Bootstrapped, BootstrappedCalls
  <2>2. QED
    BY <1>Bootstrapped, <2>1 DEF AwayInv, Bootstrapped, Fail, server, auth, calls, MovedTo, SameCalls, KeptLive,
       Others, HasDevice
<1>NodeStarts. ASSUME NEW i \in RunIds, NodeStarts(i) PROVE AwayInv'
  <2>1. runs' \in Seq(ConnectCalls) /\ (StartsAlone(i) \/ MovedTo(i, "failed"))
    BY <1>NodeStarts, NodeStartsCalls
  <2>2. QED
    BY <1>NodeStarts, <2>1 DEF AwayInv, NodeStarts, Fail, server, auth, calls, MovedTo, SameCalls, KeptLive,
       Others, NodeIs, HasDevice, StartsAlone
<1>Connected. ASSUME NEW i \in RunIds, Connected(i) PROVE AwayInv'
  <2>1. runs' \in Seq(ConnectCalls) /\ MovedTo(i, IF runs[i].live THEN "done" ELSE "undoing")
    BY <1>Connected, ConnectedCalls
  <2>2. QED
    BY <1>Connected, <2>1 DEF AwayInv, Connected, StopOf, server, auth, calls, MovedTo, SameCalls, KeptLive,
       Others, HasDevice
<1>PeersFail. ASSUME NEW i \in RunIds, PeersFail(i) PROVE AwayInv'
  <2>1. runs' \in Seq(ConnectCalls) /\ MovedTo(i, "undoing")
    BY <1>PeersFail, PeersFailCalls
  <2>2. QED
    BY <1>PeersFail, <2>1 DEF AwayInv, PeersFail, StopOf, server, auth, view, calls, MovedTo, SameCalls,
       KeptLive, Others, HasDevice
<1>RunUndone. ASSUME NEW i \in RunIds, RunUndone(i) PROVE AwayInv'
  <2>1. runs' \in Seq(ConnectCalls) /\ MovedTo(i, "failed")
    BY <1>RunUndone, RunUndoneCalls
  <2>2. QED
    BY <1>RunUndone, <2>1 DEF AwayInv, RunUndone, Fail, server, auth, calls, MovedTo, SameCalls, KeptLive,
       Others, HasDevice
<1>NodeStops. ASSUME NEW i \in RunIds, NodeStops(i) PROVE AwayInv'
  <2>1. runs' \in Seq(ConnectCalls) /\ NodeGoes(i)
    BY <1>NodeStops, NodeStopsCalls
  <2>2. IF out.pc = "queued" /\ out.conn = i THEN OutIs("backing", out.after, out.conn) ELSE out' = out
    BY <1>NodeStops, NodeStopsOut
  <2>3. QED
    BY <1>NodeStops, <2>1, <2>2 DEF AwayInv, NodeStops, server, auth, NodeGoes, SameCalls, KeptLive, Others,
       OutIs, HasDevice
<1>LogoutTakes. ASSUME LogoutTakes PROVE AwayInv'
  <2>1. TakesConnection
    BY <1>LogoutTakes, LogoutTakesOut
  <2>2. QED
    BY <1>LogoutTakes, <2>1, NoCallType DEF AwayInv, LogoutTakes, server, auth, view, nodes, OutIs, HasDevice,
       RunIds, TakesConnection
<1>NodeDownForBackup. ASSUME NodeDownForBackup PROVE AwayInv'
  <2>1. runs' \in Seq(ConnectCalls) /\ out.conn \in RunIds /\ NodeIs(out.conn, runs[out.conn].pc, "kept")
    BY <1>NodeDownForBackup, NodeDownForBackupCalls
  <2>2. QED
    BY <1>NodeDownForBackup, <2>1 DEF AwayInv, NodeDownForBackup, server, auth, view, calls, NodeIs, SameCalls,
       KeptLive, Others, HasDevice
<1>BackUp. ASSUME BackUp PROVE AwayInv'
  <2>1. runs' \in Seq(ConnectCalls) /\ out.pc = "backing" /\ out.conn \in RunIds /\ valid' = valid /\ BackUpEnds
    BY <1>BackUp, BackUpCalls
  <2>2. QED
    BY <1>BackUp, <2>1, NoCallType DEF AwayInv, BackUp, server, auth, BackUpEnds, NodeGoes, SameCalls, KeptLive,
       Others, Added, Late, Unmoved, OutIs, HasDevice
<1>Revoke. ASSUME Revoke PROVE AwayInv'
  <2>1. runs' \in Seq(ConnectCalls) /\ out.pc = "revoking" /\ RevokeEnds
    BY <1>Revoke, RevokeCalls
  <2>2. QED
    BY <1>Revoke, <2>1, NoCallType DEF AwayInv, Revoke, auth, RevokeEnds, NodeIs, SameCalls, KeptLive, Others,
       Added, Late, Unmoved, OutIs, HasDevice
<1>Clear. ASSUME Clear PROVE AwayInv'
  <2>1. runs' \in Seq(ConnectCalls) /\ Outdated
    BY <1>Clear, ClearCalls
  <2>2. QED
    BY <1>Clear, <2>1, NoCallType DEF AwayInv, Clear, Outdated, SameCalls, Late, HasDevice
<1>Reconnected. ASSUME Reconnected PROVE AwayInv'
  BY <1>Reconnected, NoCallType DEF AwayInv, Reconnected, server, auth, nodes, HasDevice, RunIds
<1>LeaveStops. ASSUME LeaveStops PROVE AwayInv'
  <2>1. runs' \in Seq(ConnectCalls) /\ (IF conn # 0 THEN Outdated ELSE Unmoved)
    BY <1>LeaveStops, LeaveStopsCalls
  <2>2. leave.pc = "waiting" /\ LeaveIs("stopping", conn)
    BY <1>LeaveStops, LeaveStopsLeave
  <2>3. QED
    BY <1>LeaveStops, <2>1, <2>2, NoCallType DEF AwayInv, LeaveStops, Disconnect, StopOf, server, auth,
       Outdated, SameCalls, Late, LeaveIs, HasDevice, Unmoved
<1>LeavesPage. ASSUME LeavesPage PROVE AwayInv'
  <2>1. runs' \in Seq(ConnectCalls) /\ runs' = <<>> /\ RunIds' = {} /\ Len(runs') = 0
    BY <1>LeavesPage, LeavesPageCalls
  <2>2. QED
    BY <1>LeavesPage, <2>1, NoCallType DEF AwayInv, LeavesPage, Unload, server, HasDevice
<1>LeaveFails. ASSUME LeaveFails PROVE AwayInv'
  BY <1>LeaveFails, NoCallType DEF AwayInv, LeaveFails, server, auth, nodes, HasDevice, RunIds
<1>SignedOut. ASSUME SignedOut PROVE AwayInv'
  <2>1. runs' \in Seq(ConnectCalls) /\ (Outdated \/ Unmoved)
    BY <1>SignedOut, SignedOutCalls
  <2>2. QED
    BY <1>SignedOut, <2>1 DEF AwayInv, SignedOut, CleanUp, StopOf, Due, server, auth, calls, Outdated,
       SameCalls, Late, HasDevice, Unmoved
<1>SignedIn. ASSUME SignedIn PROVE AwayInv'
  <2>1. runs' \in Seq(ConnectCalls) /\ (Added(session) \/ Unmoved)
    BY <1>SignedIn, SignedInCalls
  <2>2. QED
    BY <1>SignedIn, <2>1 DEF AwayInv, SignedIn, StopOf, Due, server, auth, calls, Added, Late, HasDevice,
       Unmoved
<1>WalletBootstrapped. ASSUME WalletBootstrapped PROVE AwayInv'
  BY <1>WalletBootstrapped DEF AwayInv, WalletBootstrapped, server, auth, nodes, calls, HasDevice, RunIds
<1>Restore. ASSUME Restore PROVE AwayInv'
  BY <1>Restore DEF AwayInv, Restore, view, nodes, calls, HasDevice, RunIds
<1>Load. ASSUME Load PROVE AwayInv'
  BY <1>Load DEF AwayInv, Load, server, view, nodes, calls, HasDevice, RunIds
<1>Invalidate. ASSUME Invalidate PROVE AwayInv'
  <2>1. runs' \in Seq(ConnectCalls) /\ Outdated
    BY <1>Invalidate, InvalidateCalls
  <2>2. QED
    BY <1>Invalidate, <2>1 DEF AwayInv, Invalidate, StopOf, view, calls, Outdated, SameCalls, Late, HasDevice
<1>StartFiber. ASSUME StartFiber PROVE AwayInv'
  <2>1. runs' \in Seq(ConnectCalls) /\ Added(session)
    BY <1>StartFiber, StartFiberCalls
  <2>2. QED
    BY <1>StartFiber, <2>1 DEF AwayInv, StartFiber, Ask, Calm, Due, server, auth, calls, Added, Late, HasDevice
<1>StopFiber. ASSUME StopFiber PROVE AwayInv'
  <2>1. runs' \in Seq(ConnectCalls) /\ Outdated
    BY <1>StopFiber, StopFiberCalls
  <2>2. QED
    BY <1>StopFiber, <2>1 DEF AwayInv, StopFiber, Disconnect, StopOf, Ask, Calm, Due, server, auth, Outdated,
       SameCalls, Late, HasDevice
<1>Logout. ASSUME Logout PROVE AwayInv'
  <2>1. runs' \in Seq(ConnectCalls) /\ Outdated
    BY <1>Logout, LogoutCalls
  <2>2. QED
    BY <1>Logout, <2>1, NoCallType DEF AwayInv, Logout, Ask, Calm, Due, Authenticated, server, auth, Outdated,
       SameCalls, Late, HasDevice
<1>Leave. ASSUME Leave PROVE AwayInv'
  BY <1>Leave, NoCallType DEF AwayInv, Leave, Ask, Calm, Due, server, auth, view, nodes, HasDevice, RunIds
<1>Reload. ASSUME Reload PROVE AwayInv'
  <2>1. runs' \in Seq(ConnectCalls) /\ runs' = <<>> /\ RunIds' = {} /\ Len(runs') = 0
    BY <1>Reload, ReloadCalls
  <2>2. QED
    BY <1>Reload, <2>1, NoCallType DEF AwayInv, Reload, Unload, server, HasDevice
<1>SignIn. ASSUME SignIn PROVE AwayInv'
  BY <1>SignIn DEF AwayInv, SignIn, Ask, Calm, Due, nodes, calls, HasDevice, RunIds
<1>same. ASSUME UNCHANGED <<habits, page, session, wallet, applied, boot, runs, out, leave>> PROVE AwayInv'
  BY <1>same DEF AwayInv, HasDevice, Patient, RunIds
<1> QED
  BY <1>AfterPrevious, <1>PreviousStopped, <1>Bootstrapped, <1>NodeStarts, <1>Connected, <1>PeersFail,
     <1>RunUndone, <1>NodeStops, <1>LogoutTakes, <1>NodeDownForBackup, <1>BackUp, <1>Revoke, <1>Clear,
     <1>Reconnected, <1>LeaveStops, <1>LeavesPage, <1>LeaveFails, <1>SignedOut, <1>SignedIn, <1>WalletBootstrapped, <1>Restore,
     <1>Load, <1>Invalidate, <1>StartFiber, <1>StopFiber, <1>Logout, <1>Leave, <1>Reload, <1>SignIn, <1>same DEF
     ProviderNext, ConnectStep, LogoutStep, EffectStep, UserStep, providerVars, server, auth, view, nodes,
     calls, LeaseLost, Disconnected, HoldEnds, ServerEnds, Pay, PayEnds

(* A call gets anywhere only when the ones before it are over; a new one supersedes them all. *)
LEMMA CallOrderInvStep == ASSUME PageInv, [ProviderNext]_providerVars PROVE CallOrderInv'
<1> USE CallNumbers DEF PageInv, PageTypeOK
<1>AfterPrevious. ASSUME NEW i \in RunIds, AfterPrevious(i) PROVE CallOrderInv'
  <2>1. runs' \in Seq(ConnectCalls) /\ (IF runs[i].live THEN Replacing(i) ELSE MovedTo(i, "failed"))
    BY <1>AfterPrevious, AfterPreviousCalls
  <2>2. QED
    BY <1>AfterPrevious, <2>1 DEF CallOrderInv, AfterPrevious, Fail, StopOf, server, auth, calls, MovedTo,
       SameCalls, KeptLive, Others, Replacing, HasDevice, RunSettled, Over
<1>PreviousStopped. ASSUME NEW i \in RunIds, PreviousStopped(i) PROVE CallOrderInv'
  <2>1. runs' \in Seq(ConnectCalls) /\ WaitOver(i)
    BY <1>PreviousStopped, PreviousStoppedCalls
  <2>2. QED
    BY <1>PreviousStopped, <2>1 DEF CallOrderInv, PreviousStopped, Fail, server, auth, calls, WaitOver, MovedTo,
       SameCalls, KeptLive, Others, HasDevice, RunSettled, Over
<1>Bootstrapped. ASSUME NEW i \in RunIds, Bootstrapped(i) PROVE CallOrderInv'
  <2>1. runs' \in Seq(ConnectCalls) /\ (MovedTo(i, "start") \/ MovedTo(i, "failed"))
    BY <1>Bootstrapped, BootstrappedCalls
  <2>2. QED
    BY <1>Bootstrapped, <2>1 DEF CallOrderInv, Bootstrapped, Fail, server, auth, calls, MovedTo, SameCalls,
       KeptLive, Others, HasDevice, RunSettled, Over
<1>NodeStarts. ASSUME NEW i \in RunIds, NodeStarts(i) PROVE CallOrderInv'
  <2>1. runs' \in Seq(ConnectCalls) /\ (StartsAlone(i) \/ MovedTo(i, "failed"))
    BY <1>NodeStarts, NodeStartsCalls
  <2>2. QED
    BY <1>NodeStarts, <2>1 DEF CallOrderInv, NodeStarts, Fail, server, auth, calls, MovedTo, SameCalls,
       KeptLive, Others, NodeIs, HasDevice, RunSettled, Over, StartsAlone
<1>Connected. ASSUME NEW i \in RunIds, Connected(i) PROVE CallOrderInv'
  <2>1. runs' \in Seq(ConnectCalls) /\ MovedTo(i, IF runs[i].live THEN "done" ELSE "undoing")
    BY <1>Connected, ConnectedCalls
  <2>2. QED
    BY <1>Connected, <2>1 DEF CallOrderInv, Connected, StopOf, server, auth, calls, MovedTo, SameCalls,
       KeptLive, Others, HasDevice, RunSettled, Over
<1>PeersFail. ASSUME NEW i \in RunIds, PeersFail(i) PROVE CallOrderInv'
  <2>1. runs' \in Seq(ConnectCalls) /\ MovedTo(i, "undoing")
    BY <1>PeersFail, PeersFailCalls
  <2>2. QED
    BY <1>PeersFail, <2>1 DEF CallOrderInv, PeersFail, StopOf, server, auth, view, calls, MovedTo, SameCalls,
       KeptLive, Others, HasDevice, RunSettled, Over
<1>RunUndone. ASSUME NEW i \in RunIds, RunUndone(i) PROVE CallOrderInv'
  <2>1. runs' \in Seq(ConnectCalls) /\ MovedTo(i, "failed")
    BY <1>RunUndone, RunUndoneCalls
  <2>2. QED
    BY <1>RunUndone, <2>1 DEF CallOrderInv, RunUndone, Fail, server, auth, calls, MovedTo, SameCalls, KeptLive,
       Others, HasDevice, RunSettled, Over
<1>NodeStops. ASSUME NEW i \in RunIds, NodeStops(i) PROVE CallOrderInv'
  <2>1. runs' \in Seq(ConnectCalls) /\ NodeGoes(i)
    BY <1>NodeStops, NodeStopsCalls
  <2>2. QED
    BY <1>NodeStops, <2>1 DEF CallOrderInv, NodeStops, server, auth, NodeGoes, SameCalls, KeptLive, Others,
       HasDevice, RunSettled, Over
<1>NodeDownForBackup. ASSUME NodeDownForBackup PROVE CallOrderInv'
  <2>1. runs' \in Seq(ConnectCalls) /\ out.conn \in RunIds /\ NodeIs(out.conn, runs[out.conn].pc, "kept")
    BY <1>NodeDownForBackup, NodeDownForBackupCalls
  <2>2. QED
    BY <1>NodeDownForBackup, <2>1 DEF CallOrderInv, NodeDownForBackup, server, auth, view, calls, NodeIs,
       SameCalls, KeptLive, Others, HasDevice, RunSettled, Over
<1>BackUp. ASSUME BackUp PROVE CallOrderInv'
  <2>1. out.conn \in RunIds /\ BackUpEnds
    BY <1>BackUp, BackUpCalls
  <2>2. CASE Added(out.login)
    BY <2>2 DEF CallOrderInv, Added, Late, Over
  <2>3. CASE NodeGoes(out.conn)
    BY <2>1, <2>3 DEF CallOrderInv, NodeGoes, SameCalls, KeptLive, Others, Over
  <2>4. QED
    BY <2>1, <2>2, <2>3 DEF BackUpEnds
<1>Revoke. ASSUME Revoke PROVE CallOrderInv'
  <2>1. runs' \in Seq(ConnectCalls) /\ out.pc = "revoking" /\ RevokeEnds
    BY <1>Revoke, RevokeCalls
  <2>2. QED
    BY <1>Revoke, <2>1 DEF CallOrderInv, Revoke, auth, RevokeEnds, NodeIs, SameCalls, KeptLive, Others, Added,
       Late, Unmoved, OutIs, HasDevice, RunSettled, Over
<1>Clear. ASSUME Clear PROVE CallOrderInv'
  <2>1. runs' \in Seq(ConnectCalls) /\ Outdated
    BY <1>Clear, ClearCalls
  <2>2. QED
    BY <1>Clear, <2>1 DEF CallOrderInv, Clear, Outdated, SameCalls, Late, HasDevice, RunSettled, Over
<1>LeaveStops. ASSUME LeaveStops PROVE CallOrderInv'
  <2>1. runs' \in Seq(ConnectCalls) /\ (IF conn # 0 THEN Outdated ELSE Unmoved)
    BY <1>LeaveStops, LeaveStopsCalls
  <2>2. QED
    BY <1>LeaveStops, <2>1 DEF CallOrderInv, LeaveStops, Disconnect, StopOf, server, auth, Outdated, SameCalls,
       Late, HasDevice, Unmoved, RunSettled, Over
<1>LeavesPage. ASSUME LeavesPage PROVE CallOrderInv'
  <2>1. runs' \in Seq(ConnectCalls) /\ runs' = <<>> /\ RunIds' = {} /\ Len(runs') = 0
    BY <1>LeavesPage, LeavesPageCalls
  <2>2. QED
    BY <1>LeavesPage, <2>1 DEF CallOrderInv, LeavesPage, Unload, server, HasDevice, RunSettled, Over
<1>SignedOut. ASSUME SignedOut PROVE CallOrderInv'
  <2>1. runs' \in Seq(ConnectCalls) /\ (Outdated \/ Unmoved)
    BY <1>SignedOut, SignedOutCalls
  <2>2. QED
    BY <1>SignedOut, <2>1 DEF CallOrderInv, SignedOut, CleanUp, StopOf, Due, server, auth, calls, Outdated,
       SameCalls, Late, HasDevice, Unmoved, RunSettled, Over
<1>SignedIn. ASSUME SignedIn PROVE CallOrderInv'
  <2>1. runs' \in Seq(ConnectCalls) /\ (Added(session) \/ Unmoved)
    BY <1>SignedIn, SignedInCalls
  <2>2. QED
    BY <1>SignedIn, <2>1 DEF CallOrderInv, SignedIn, StopOf, Due, server, auth, calls, Added, Late, HasDevice,
       Unmoved, RunSettled, Over
<1>Invalidate. ASSUME Invalidate PROVE CallOrderInv'
  <2>1. runs' \in Seq(ConnectCalls) /\ Outdated
    BY <1>Invalidate, InvalidateCalls
  <2>2. QED
    BY <1>Invalidate, <2>1 DEF CallOrderInv, Invalidate, StopOf, view, calls, Outdated, SameCalls, Late,
       HasDevice, RunSettled, Over
<1>StartFiber. ASSUME StartFiber PROVE CallOrderInv'
  <2>1. runs' \in Seq(ConnectCalls) /\ Added(session)
    BY <1>StartFiber, StartFiberCalls
  <2>2. QED
    BY <1>StartFiber, <2>1 DEF CallOrderInv, StartFiber, Ask, Calm, Due, server, auth, calls, Added, Late,
       HasDevice, RunSettled, Over
<1>StopFiber. ASSUME StopFiber PROVE CallOrderInv'
  <2>1. runs' \in Seq(ConnectCalls) /\ Outdated
    BY <1>StopFiber, StopFiberCalls
  <2>2. QED
    BY <1>StopFiber, <2>1 DEF CallOrderInv, StopFiber, Disconnect, StopOf, Ask, Calm, Due, server, auth,
       Outdated, SameCalls, Late, HasDevice, RunSettled, Over
<1>Logout. ASSUME Logout PROVE CallOrderInv'
  <2>1. runs' \in Seq(ConnectCalls) /\ Outdated
    BY <1>Logout, LogoutCalls
  <2>2. QED
    BY <1>Logout, <2>1 DEF CallOrderInv, Logout, Ask, Calm, Due, Authenticated, server, auth, Outdated,
       SameCalls, Late, HasDevice, RunSettled, Over
<1>Reload. ASSUME Reload PROVE CallOrderInv'
  <2>1. runs' \in Seq(ConnectCalls) /\ runs' = <<>> /\ RunIds' = {} /\ Len(runs') = 0
    BY <1>Reload, ReloadCalls
  <2>2. QED
    BY <1>Reload, <2>1 DEF CallOrderInv, Reload, Unload, server, HasDevice, RunSettled, Over
<1>same. ASSUME UNCHANGED <<habits, runs>> PROVE CallOrderInv'
  BY <1>same DEF CallOrderInv, HasDevice, Patient, RunIds
<1> QED
  BY <1>AfterPrevious, <1>PreviousStopped, <1>Bootstrapped, <1>NodeStarts, <1>Connected, <1>PeersFail,
     <1>RunUndone, <1>NodeStops, <1>NodeDownForBackup, <1>BackUp, <1>Revoke, <1>Clear, <1>LeaveStops,
     <1>LeavesPage, <1>SignedOut, <1>SignedIn, <1>Invalidate, <1>StartFiber, <1>StopFiber, <1>Logout, <1>Reload,
     <1>same DEF ProviderNext, ConnectStep, LogoutStep, EffectStep, UserStep, providerVars, server, auth, view,
     nodes, calls, LeaseLost, Disconnected, LogoutTakes, Reconnected, WalletBootstrapped, Restore, HoldEnds,
     Load, ServerEnds, Pay, PayEnds, Leave, SignIn, LeaveFails

(* A node only starts when no other call has the device, and a call that is undone has its node stopped first. *)
LEMMA OneDeviceInvStep == ASSUME PageInv, [ProviderNext]_providerVars PROVE OneDeviceInv'
<1> USE CallNumbers DEF PageInv, PageTypeOK
<1>AfterPrevious. ASSUME NEW i \in RunIds, AfterPrevious(i) PROVE OneDeviceInv'
  <2>1. runs' \in Seq(ConnectCalls) /\ (IF runs[i].live THEN Replacing(i) ELSE MovedTo(i, "failed"))
    BY <1>AfterPrevious, AfterPreviousCalls
  <2>2. QED
    BY <1>AfterPrevious, <2>1 DEF OneDeviceInv, AfterPrevious, Fail, StopOf, server, auth, calls, MovedTo,
       SameCalls, KeptLive, Others, Replacing, HasDevice
<1>PreviousStopped. ASSUME NEW i \in RunIds, PreviousStopped(i) PROVE OneDeviceInv'
  <2>1. runs' \in Seq(ConnectCalls) /\ WaitOver(i)
    BY <1>PreviousStopped, PreviousStoppedCalls
  <2>2. QED
    BY <1>PreviousStopped, <2>1 DEF OneDeviceInv, PreviousStopped, Fail, server, auth, calls, WaitOver, MovedTo,
       SameCalls, KeptLive, Others, HasDevice
<1>Bootstrapped. ASSUME NEW i \in RunIds, Bootstrapped(i) PROVE OneDeviceInv'
  <2>1. runs' \in Seq(ConnectCalls) /\ (MovedTo(i, "start") \/ MovedTo(i, "failed"))
    BY <1>Bootstrapped, BootstrappedCalls
  <2>2. QED
    BY <1>Bootstrapped, <2>1 DEF OneDeviceInv, Bootstrapped, Fail, server, auth, calls, MovedTo, SameCalls,
       KeptLive, Others, HasDevice
<1>NodeStarts. ASSUME NEW i \in RunIds, NodeStarts(i) PROVE OneDeviceInv'
  <2>1. runs' \in Seq(ConnectCalls) /\ (StartsAlone(i) \/ MovedTo(i, "failed"))
    BY <1>NodeStarts, NodeStartsCalls
  <2>2. QED
    BY <1>NodeStarts, <2>1 DEF OneDeviceInv, NodeStarts, Fail, server, auth, calls, MovedTo, SameCalls,
       KeptLive, Others, NodeIs, HasDevice, StartsAlone
<1>Connected. ASSUME NEW i \in RunIds, Connected(i) PROVE OneDeviceInv'
  <2>1. runs' \in Seq(ConnectCalls) /\ MovedTo(i, IF runs[i].live THEN "done" ELSE "undoing")
    BY <1>Connected, ConnectedCalls
  <2>2. QED
    BY <1>Connected, <2>1 DEF OneDeviceInv, Connected, StopOf, server, auth, calls, MovedTo, SameCalls,
       KeptLive, Others, HasDevice
<1>PeersFail. ASSUME NEW i \in RunIds, PeersFail(i) PROVE OneDeviceInv'
  <2>1. runs' \in Seq(ConnectCalls) /\ MovedTo(i, "undoing")
    BY <1>PeersFail, PeersFailCalls
  <2>2. QED
    BY <1>PeersFail, <2>1 DEF OneDeviceInv, PeersFail, StopOf, server, auth, view, calls, MovedTo, SameCalls,
       KeptLive, Others, HasDevice
<1>RunUndone. ASSUME NEW i \in RunIds, RunUndone(i) PROVE OneDeviceInv'
  <2>1. runs' \in Seq(ConnectCalls) /\ MovedTo(i, "failed")
    BY <1>RunUndone, RunUndoneCalls
  <2>2. QED
    BY <1>RunUndone, <2>1 DEF OneDeviceInv, RunUndone, Fail, server, auth, calls, MovedTo, SameCalls, KeptLive,
       Others, HasDevice
<1>NodeStops. ASSUME NEW i \in RunIds, NodeStops(i) PROVE OneDeviceInv'
  <2>1. runs' \in Seq(ConnectCalls) /\ NodeGoes(i)
    BY <1>NodeStops, NodeStopsCalls
  <2>2. QED
    BY <1>NodeStops, <2>1 DEF OneDeviceInv, NodeStops, server, auth, NodeGoes, SameCalls, KeptLive, Others,
       HasDevice
<1>LeaseLost. ASSUME NEW i \in RunIds, LeaseLost(i) PROVE OneDeviceInv'
  BY <1>LeaseLost DEF OneDeviceInv, LeaseLost, server, auth, view, calls, HasDevice, RunIds
<1>NodeDownForBackup. ASSUME NodeDownForBackup PROVE OneDeviceInv'
  <2>1. runs' \in Seq(ConnectCalls) /\ out.conn \in RunIds /\ NodeIs(out.conn, runs[out.conn].pc, "kept")
    BY <1>NodeDownForBackup, NodeDownForBackupCalls
  <2>2. QED
    BY <1>NodeDownForBackup, <2>1 DEF OneDeviceInv, NodeDownForBackup, server, auth, view, calls, NodeIs,
       SameCalls, KeptLive, Others, HasDevice
<1>BackUp. ASSUME BackUp PROVE OneDeviceInv'
  <2>1. runs' \in Seq(ConnectCalls) /\ out.pc = "backing" /\ out.conn \in RunIds /\ valid' = valid /\ BackUpEnds
    BY <1>BackUp, BackUpCalls
  <2>2. QED
    BY <1>BackUp, <2>1 DEF OneDeviceInv, BackUp, server, auth, BackUpEnds, NodeGoes, SameCalls, KeptLive, Others,
       Added, Late, Unmoved, OutIs, HasDevice
<1>Revoke. ASSUME Revoke PROVE OneDeviceInv'
  <2>1. runs' \in Seq(ConnectCalls) /\ out.pc = "revoking" /\ RevokeEnds
    BY <1>Revoke, RevokeCalls
  <2>2. QED
    BY <1>Revoke, <2>1 DEF OneDeviceInv, Revoke, auth, RevokeEnds, NodeIs, SameCalls, KeptLive, Others, Added,
       Late, Unmoved, OutIs, HasDevice
<1>Clear. ASSUME Clear PROVE OneDeviceInv'
  <2>1. runs' \in Seq(ConnectCalls) /\ Outdated
    BY <1>Clear, ClearCalls
  <2>2. QED
    BY <1>Clear, <2>1 DEF OneDeviceInv, Clear, Outdated, SameCalls, Late, HasDevice
<1>LeaveStops. ASSUME LeaveStops PROVE OneDeviceInv'
  <2>1. runs' \in Seq(ConnectCalls) /\ (IF conn # 0 THEN Outdated ELSE Unmoved)
    BY <1>LeaveStops, LeaveStopsCalls
  <2>2. QED
    BY <1>LeaveStops, <2>1 DEF OneDeviceInv, LeaveStops, Disconnect, StopOf, server, auth, Outdated, SameCalls,
       Late, HasDevice, Unmoved
<1>LeavesPage. ASSUME LeavesPage PROVE OneDeviceInv'
  <2>1. runs' \in Seq(ConnectCalls) /\ runs' = <<>> /\ RunIds' = {} /\ Len(runs') = 0
    BY <1>LeavesPage, LeavesPageCalls
  <2>2. QED
    BY <1>LeavesPage, <2>1 DEF OneDeviceInv, LeavesPage, Unload, server, HasDevice
<1>SignedOut. ASSUME SignedOut PROVE OneDeviceInv'
  <2>1. runs' \in Seq(ConnectCalls) /\ (Outdated \/ Unmoved)
    BY <1>SignedOut, SignedOutCalls
  <2>2. QED
    BY <1>SignedOut, <2>1 DEF OneDeviceInv, SignedOut, CleanUp, StopOf, Due, server, auth, calls, Outdated,
       SameCalls, Late, HasDevice, Unmoved
<1>SignedIn. ASSUME SignedIn PROVE OneDeviceInv'
  <2>1. runs' \in Seq(ConnectCalls) /\ (Added(session) \/ Unmoved)
    BY <1>SignedIn, SignedInCalls
  <2>2. QED
    BY <1>SignedIn, <2>1 DEF OneDeviceInv, SignedIn, StopOf, Due, server, auth, calls, Added, Late, HasDevice,
       Unmoved
<1>Invalidate. ASSUME Invalidate PROVE OneDeviceInv'
  <2>1. runs' \in Seq(ConnectCalls) /\ Outdated
    BY <1>Invalidate, InvalidateCalls
  <2>2. QED
    BY <1>Invalidate, <2>1 DEF OneDeviceInv, Invalidate, StopOf, view, calls, Outdated, SameCalls, Late,
       HasDevice
<1>StartFiber. ASSUME StartFiber PROVE OneDeviceInv'
  <2>1. runs' \in Seq(ConnectCalls) /\ Added(session)
    BY <1>StartFiber, StartFiberCalls
  <2>2. QED
    BY <1>StartFiber, <2>1 DEF OneDeviceInv, StartFiber, Ask, Calm, Due, server, auth, calls, Added, Late,
       HasDevice
<1>StopFiber. ASSUME StopFiber PROVE OneDeviceInv'
  <2>1. runs' \in Seq(ConnectCalls) /\ Outdated
    BY <1>StopFiber, StopFiberCalls
  <2>2. QED
    BY <1>StopFiber, <2>1 DEF OneDeviceInv, StopFiber, Disconnect, StopOf, Ask, Calm, Due, server, auth,
       Outdated, SameCalls, Late, HasDevice
<1>Logout. ASSUME Logout PROVE OneDeviceInv'
  <2>1. runs' \in Seq(ConnectCalls) /\ Outdated
    BY <1>Logout, LogoutCalls
  <2>2. QED
    BY <1>Logout, <2>1 DEF OneDeviceInv, Logout, Ask, Calm, Due, Authenticated, server, auth, Outdated,
       SameCalls, Late, HasDevice
<1>Reload. ASSUME Reload PROVE OneDeviceInv'
  <2>1. runs' \in Seq(ConnectCalls) /\ runs' = <<>> /\ RunIds' = {} /\ Len(runs') = 0
    BY <1>Reload, ReloadCalls
  <2>2. QED
    BY <1>Reload, <2>1 DEF OneDeviceInv, Reload, Unload, server, HasDevice
<1>same. ASSUME UNCHANGED <<habits, runs, asked>> PROVE OneDeviceInv'
  BY <1>same DEF OneDeviceInv, HasDevice, Patient, RunIds
<1> QED
  BY <1>AfterPrevious, <1>PreviousStopped, <1>Bootstrapped, <1>NodeStarts, <1>Connected, <1>PeersFail,
     <1>RunUndone, <1>NodeStops, <1>LeaseLost, <1>NodeDownForBackup, <1>BackUp, <1>Revoke, <1>Clear,
     <1>LeaveStops, <1>LeavesPage, <1>SignedOut, <1>SignedIn, <1>Invalidate, <1>StartFiber, <1>StopFiber,
     <1>Logout, <1>Reload, <1>same DEF ProviderNext, ConnectStep, LogoutStep, EffectStep, UserStep,
     providerVars, server, auth, view, nodes, calls, Disconnected, LogoutTakes, Reconnected, WalletBootstrapped,
     Restore, HoldEnds, Load, ServerEnds, Pay, PayEnds, Leave, SignIn, LeaveFails

(* Only a call that ran to its end is the connection, and a session behind it is over the moment it is dropped. *)
LEMMA ConnectionInvStep == ASSUME PageInv, [ProviderNext]_providerVars PROVE ConnectionInv'
<1> USE CallNumbers DEF PageInv, PageTypeOK
<1>AfterPrevious. ASSUME NEW i \in RunIds, AfterPrevious(i) PROVE ConnectionInv'
  <2>1. runs' \in Seq(ConnectCalls) /\ (IF runs[i].live THEN Replacing(i) ELSE MovedTo(i, "failed"))
    BY <1>AfterPrevious, AfterPreviousCalls
  <2>2. QED
    BY <1>AfterPrevious, <2>1 DEF ConnectionInv, AfterPrevious, Fail, StopOf, server, auth, calls, MovedTo,
       SameCalls, KeptLive, Others, Replacing, HasDevice, Over
<1>PreviousStopped. ASSUME NEW i \in RunIds, PreviousStopped(i) PROVE ConnectionInv'
  <2>1. runs' \in Seq(ConnectCalls) /\ WaitOver(i)
    BY <1>PreviousStopped, PreviousStoppedCalls
  <2>2. QED
    BY <1>PreviousStopped, <2>1 DEF ConnectionInv, PreviousStopped, Fail, server, auth, calls, WaitOver, MovedTo,
       SameCalls, KeptLive, Others, HasDevice, Over
<1>Bootstrapped. ASSUME NEW i \in RunIds, Bootstrapped(i) PROVE ConnectionInv'
  <2>1. runs' \in Seq(ConnectCalls) /\ (MovedTo(i, "start") \/ MovedTo(i, "failed"))
    BY <1>Bootstrapped, BootstrappedCalls
  <2>2. QED
    BY <1>Bootstrapped, <2>1 DEF ConnectionInv, Bootstrapped, Fail, server, auth, calls, MovedTo, SameCalls,
       KeptLive, Others, HasDevice, Over
<1>NodeStarts. ASSUME NEW i \in RunIds, NodeStarts(i) PROVE ConnectionInv'
  <2>1. runs' \in Seq(ConnectCalls) /\ (StartsAlone(i) \/ MovedTo(i, "failed"))
    BY <1>NodeStarts, NodeStartsCalls
  <2>2. QED
    BY <1>NodeStarts, <2>1 DEF ConnectionInv, NodeStarts, Fail, server, auth, calls, MovedTo, SameCalls,
       KeptLive, Others, NodeIs, HasDevice, Over, StartsAlone
<1>Connected. ASSUME NEW i \in RunIds, Connected(i) PROVE ConnectionInv'
  <2>1. MovedTo(i, IF runs[i].live THEN "done" ELSE "undoing")
    BY <1>Connected, ConnectedCalls
  <2>2. runs[i].login # 0 /\ runs[i].pc = "peers" /\ session' = session
    BY <1>Connected DEF ConnectCalls, Connected, auth
  <2>3. CASE runs[i].live
    <3>1. conn' = i /\ runs[i].login = session
      BY <1>Connected, <2>2, <2>3 DEF Connected, SessionInv
    <3>2. \A k \in RunIds : k > i => runs[k].pc = "queued"
      BY <2>2 DEF CallOrderInv, Over
    <3>3. QED
      BY <2>1, <2>2, <2>3, <3>1, <3>2 DEF ConnectionInv, MovedTo, SameCalls, Others
  <2>4. CASE ~runs[i].live
    BY <1>Connected, <2>1, <2>2, <2>4 DEF Connected, ConnectionInv, CallTypeOK, MovedTo, SameCalls, Others
  <2>5. QED
    BY <2>3, <2>4
<1>PeersFail. ASSUME NEW i \in RunIds, PeersFail(i) PROVE ConnectionInv'
  <2>1. runs' \in Seq(ConnectCalls) /\ MovedTo(i, "undoing")
    BY <1>PeersFail, PeersFailCalls
  <2>2. QED
    BY <1>PeersFail, <2>1 DEF ConnectionInv, PeersFail, StopOf, server, auth, view, calls, MovedTo, SameCalls,
       KeptLive, Others, HasDevice, Over
<1>RunUndone. ASSUME NEW i \in RunIds, RunUndone(i) PROVE ConnectionInv'
  <2>1. runs' \in Seq(ConnectCalls) /\ MovedTo(i, "failed")
    BY <1>RunUndone, RunUndoneCalls
  <2>2. QED
    BY <1>RunUndone, <2>1 DEF ConnectionInv, RunUndone, Fail, server, auth, calls, MovedTo, SameCalls, KeptLive,
       Others, HasDevice, Over
<1>NodeStops. ASSUME NEW i \in RunIds, NodeStops(i) PROVE ConnectionInv'
  <2>1. runs' \in Seq(ConnectCalls) /\ NodeGoes(i)
    BY <1>NodeStops, NodeStopsCalls
  <2>2. QED
    BY <1>NodeStops, <2>1 DEF ConnectionInv, NodeStops, server, auth, NodeGoes, SameCalls, KeptLive, Others,
       HasDevice, Over
<1>NodeDownForBackup. ASSUME NodeDownForBackup PROVE ConnectionInv'
  <2>1. runs' \in Seq(ConnectCalls) /\ out.conn \in RunIds /\ NodeIs(out.conn, runs[out.conn].pc, "kept")
    BY <1>NodeDownForBackup, NodeDownForBackupCalls
  <2>2. QED
    BY <1>NodeDownForBackup, <2>1 DEF ConnectionInv, NodeDownForBackup, server, auth, view, calls, NodeIs,
       SameCalls, KeptLive, Others, HasDevice, Over
<1>BackUp. ASSUME BackUp PROVE ConnectionInv'
  <2>1. runs' \in Seq(ConnectCalls) /\ out.pc = "backing" /\ out.conn \in RunIds /\ valid' = valid /\ BackUpEnds
    BY <1>BackUp, BackUpCalls
  <2>2. QED
    BY <1>BackUp, <2>1 DEF ConnectionInv, BackUp, server, auth, BackUpEnds, NodeGoes, SameCalls, KeptLive, Others,
       Added, Late, Unmoved, OutIs, HasDevice, Over
<1>Revoke. ASSUME Revoke PROVE ConnectionInv'
  <2>1. runs' \in Seq(ConnectCalls) /\ out.pc = "revoking" /\ RevokeEnds
    BY <1>Revoke, RevokeCalls
  <2>2. QED
    BY <1>Revoke, <2>1 DEF ConnectionInv, Revoke, auth, RevokeEnds, NodeIs, SameCalls, KeptLive, Others, Added,
       Late, Unmoved, OutIs, HasDevice, Over
<1>Clear. ASSUME Clear PROVE ConnectionInv'
  <2>1. runs' \in Seq(ConnectCalls) /\ Outdated
    BY <1>Clear, ClearCalls
  <2>2. QED
    BY <1>Clear, <2>1 DEF ConnectionInv, Clear, Outdated, SameCalls, Late, HasDevice, Over
<1>LeaveStops. ASSUME LeaveStops PROVE ConnectionInv'
  <2>1. runs' \in Seq(ConnectCalls) /\ (IF conn # 0 THEN Outdated ELSE Unmoved)
    BY <1>LeaveStops, LeaveStopsCalls
  <2>2. QED
    BY <1>LeaveStops, <2>1 DEF ConnectionInv, LeaveStops, Disconnect, StopOf, server, auth, Outdated, SameCalls,
       Late, HasDevice, Unmoved, Over
<1>LeavesPage. ASSUME LeavesPage PROVE ConnectionInv'
  <2>1. runs' \in Seq(ConnectCalls) /\ runs' = <<>> /\ RunIds' = {} /\ Len(runs') = 0
    BY <1>LeavesPage, LeavesPageCalls
  <2>2. QED
    BY <1>LeavesPage, <2>1 DEF ConnectionInv, LeavesPage, Unload, server, HasDevice, Over
<1>SignedOut. ASSUME SignedOut PROVE ConnectionInv'
  <2>1. runs' \in Seq(ConnectCalls) /\ (Outdated \/ Unmoved)
    BY <1>SignedOut, SignedOutCalls
  <2>2. QED
    BY <1>SignedOut, <2>1 DEF ConnectionInv, SignedOut, CleanUp, StopOf, Due, server, auth, calls, Outdated,
       SameCalls, Late, HasDevice, Unmoved, Over
<1>SignedIn. ASSUME SignedIn PROVE ConnectionInv'
  <2>1. runs' \in Seq(ConnectCalls) /\ (Added(session) \/ Unmoved)
    BY <1>SignedIn, SignedInCalls
  <2>2. QED
    BY <1>SignedIn, <2>1 DEF ConnectionInv, SignedIn, StopOf, Due, server, auth, calls, Added, Late, HasDevice,
       Unmoved, Over
<1>Restore. ASSUME Restore PROVE ConnectionInv'
  BY <1>Restore DEF ConnectionInv, CallTypeOK, CallOrderInv, SessionInv, AwayInv, Restore, view, nodes, calls,
     HasDevice, RunIds, Over
<1>Invalidate. ASSUME Invalidate PROVE ConnectionInv'
  <2>1. runs' \in Seq(ConnectCalls) /\ Outdated
    BY <1>Invalidate, InvalidateCalls
  <2>2. QED
    BY <1>Invalidate, <2>1 DEF ConnectionInv, Invalidate, StopOf, view, calls, Outdated, SameCalls, Late,
       HasDevice, Over
<1>StartFiber. ASSUME StartFiber PROVE ConnectionInv'
  <2>1. runs' \in Seq(ConnectCalls) /\ Added(session)
    BY <1>StartFiber, StartFiberCalls
  <2>2. QED
    BY <1>StartFiber, <2>1 DEF ConnectionInv, StartFiber, Ask, Calm, Due, server, auth, calls, Added, Late,
       HasDevice, Over
<1>StopFiber. ASSUME StopFiber PROVE ConnectionInv'
  <2>1. runs' \in Seq(ConnectCalls) /\ Outdated
    BY <1>StopFiber, StopFiberCalls
  <2>2. QED
    BY <1>StopFiber, <2>1 DEF ConnectionInv, StopFiber, Disconnect, StopOf, Ask, Calm, Due, server, auth,
       Outdated, SameCalls, Late, HasDevice, Over
<1>Logout. ASSUME Logout PROVE ConnectionInv'
  <2>1. runs' \in Seq(ConnectCalls) /\ Outdated
    BY <1>Logout, LogoutCalls
  <2>2. QED
    BY <1>Logout, <2>1 DEF ConnectionInv, Logout, Ask, Calm, Due, Authenticated, server, auth, Outdated,
       SameCalls, Late, HasDevice, Over
<1>Reload. ASSUME Reload PROVE ConnectionInv'
  <2>1. runs' \in Seq(ConnectCalls) /\ runs' = <<>> /\ RunIds' = {} /\ Len(runs') = 0
    BY <1>Reload, ReloadCalls
  <2>2. QED
    BY <1>Reload, <2>1 DEF ConnectionInv, Reload, Unload, server, HasDevice, Over
<1>SignIn. ASSUME SignIn PROVE ConnectionInv'
  BY <1>SignIn DEF ConnectionInv, SignIn, Ask, Calm, Due, nodes, calls, HasDevice, RunIds, Over
<1>same. ASSUME UNCHANGED <<habits, session, runs, conn>> PROVE ConnectionInv'
  BY <1>same DEF ConnectionInv, HasDevice, Patient, RunIds
<1> QED
  BY <1>AfterPrevious, <1>PreviousStopped, <1>Bootstrapped, <1>NodeStarts, <1>Connected, <1>PeersFail,
     <1>RunUndone, <1>NodeStops, <1>NodeDownForBackup, <1>BackUp, <1>Revoke, <1>Clear, <1>LeaveStops,
     <1>LeavesPage, <1>SignedOut, <1>SignedIn, <1>Restore, <1>Invalidate, <1>StartFiber, <1>StopFiber,
     <1>Logout, <1>Reload, <1>SignIn, <1>same DEF ProviderNext, ConnectStep, LogoutStep, EffectStep, UserStep,
     providerVars, server, auth, view, nodes, calls, LeaseLost, Disconnected, LogoutTakes, Reconnected,
     WalletBootstrapped, HoldEnds, Load, ServerEnds, Pay, PayEnds, Leave, LeaveFails

(* The effect, the bootstrap, the logout and the live call are about the session, or about one that has ended. *)
LEMMA SessionInvStep == ASSUME PageInv, [ProviderNext]_providerVars PROVE SessionInv'
<1> USE CallNumbers DEF PageInv, PageTypeOK
<1>AfterPrevious. ASSUME NEW i \in RunIds, AfterPrevious(i) PROVE SessionInv'
  <2>1. runs' \in Seq(ConnectCalls) /\ (IF runs[i].live THEN Replacing(i) ELSE MovedTo(i, "failed"))
    BY <1>AfterPrevious, AfterPreviousCalls
  <2>2. QED
    BY <1>AfterPrevious, <2>1 DEF SessionInv, AfterPrevious, Fail, StopOf, server, auth, calls, MovedTo,
       SameCalls, KeptLive, Others, Replacing, HasDevice
<1>PreviousStopped. ASSUME NEW i \in RunIds, PreviousStopped(i) PROVE SessionInv'
  <2>1. runs' \in Seq(ConnectCalls) /\ WaitOver(i)
    BY <1>PreviousStopped, PreviousStoppedCalls
  <2>2. QED
    BY <1>PreviousStopped, <2>1 DEF SessionInv, PreviousStopped, Fail, server, auth, calls, WaitOver, MovedTo, SameCalls,
       KeptLive, Others, HasDevice
<1>Bootstrapped. ASSUME NEW i \in RunIds, Bootstrapped(i) PROVE SessionInv'
  <2>1. runs' \in Seq(ConnectCalls) /\ (MovedTo(i, "start") \/ MovedTo(i, "failed"))
    BY <1>Bootstrapped, BootstrappedCalls
  <2>2. QED
    BY <1>Bootstrapped, <2>1 DEF SessionInv, Bootstrapped, Fail, server, auth, calls, MovedTo, SameCalls,
       KeptLive, Others, HasDevice
<1>NodeStarts. ASSUME NEW i \in RunIds, NodeStarts(i) PROVE SessionInv'
  <2>1. runs' \in Seq(ConnectCalls) /\ (StartsAlone(i) \/ MovedTo(i, "failed"))
    BY <1>NodeStarts, NodeStartsCalls
  <2>2. QED
    BY <1>NodeStarts, <2>1 DEF SessionInv, NodeStarts, Fail, server, auth, calls, MovedTo, SameCalls, KeptLive,
       Others, NodeIs, HasDevice, StartsAlone
<1>Connected. ASSUME NEW i \in RunIds, Connected(i) PROVE SessionInv'
  <2>1. runs' \in Seq(ConnectCalls) /\ MovedTo(i, IF runs[i].live THEN "done" ELSE "undoing")
    BY <1>Connected, ConnectedCalls
  <2>2. QED
    BY <1>Connected, <2>1 DEF SessionInv, Connected, StopOf, server, auth, calls, MovedTo, SameCalls, KeptLive,
       Others, HasDevice
<1>PeersFail. ASSUME NEW i \in RunIds, PeersFail(i) PROVE SessionInv'
  <2>1. runs' \in Seq(ConnectCalls) /\ MovedTo(i, "undoing")
    BY <1>PeersFail, PeersFailCalls
  <2>2. QED
    BY <1>PeersFail, <2>1 DEF SessionInv, PeersFail, StopOf, server, auth, view, calls, MovedTo, SameCalls,
       KeptLive, Others, HasDevice
<1>RunUndone. ASSUME NEW i \in RunIds, RunUndone(i) PROVE SessionInv'
  <2>1. runs' \in Seq(ConnectCalls) /\ MovedTo(i, "failed")
    BY <1>RunUndone, RunUndoneCalls
  <2>2. QED
    BY <1>RunUndone, <2>1 DEF SessionInv, RunUndone, Fail, server, auth, calls, MovedTo, SameCalls, KeptLive,
       Others, HasDevice
<1>NodeStops. ASSUME NEW i \in RunIds, NodeStops(i) PROVE SessionInv'
  <2>1. runs' \in Seq(ConnectCalls) /\ NodeGoes(i)
    BY <1>NodeStops, NodeStopsCalls
  <2>2. IF out.pc = "queued" /\ out.conn = i THEN OutIs("backing", out.after, out.conn) ELSE out' = out
    BY <1>NodeStops, NodeStopsOut
  <2>3. QED
    BY <1>NodeStops, <2>1, <2>2 DEF SessionInv, NodeStops, server, auth, NodeGoes, SameCalls, KeptLive, Others,
       OutIs, HasDevice
<1>LogoutTakes. ASSUME LogoutTakes PROVE SessionInv'
  <2>1. TakesConnection
    BY <1>LogoutTakes, LogoutTakesOut
  <2>2. QED
    BY <1>LogoutTakes, <2>1 DEF SessionInv, LogoutTakes, server, auth, view, nodes, OutIs, HasDevice, RunIds,
       TakesConnection
<1>NodeDownForBackup. ASSUME NodeDownForBackup PROVE SessionInv'
  <2>1. runs' \in Seq(ConnectCalls) /\ out.conn \in RunIds /\ NodeIs(out.conn, runs[out.conn].pc, "kept")
    BY <1>NodeDownForBackup, NodeDownForBackupCalls
  <2>2. QED
    BY <1>NodeDownForBackup, <2>1 DEF SessionInv, NodeDownForBackup, server, auth, view, calls, NodeIs,
       SameCalls, KeptLive, Others, HasDevice
<1>BackUp. ASSUME BackUp PROVE SessionInv'
  <2>1. runs' \in Seq(ConnectCalls) /\ out.pc = "backing" /\ out.conn \in RunIds /\ valid' = valid /\ BackUpEnds
    BY <1>BackUp, BackUpCalls
  <2>2. QED
    BY <1>BackUp, <2>1, NoCallType DEF SessionInv, BackUp, server, auth, BackUpEnds, NodeGoes, SameCalls,
       KeptLive, Others, Added, Late, Unmoved, OutIs, HasDevice
<1>Revoke. ASSUME Revoke PROVE SessionInv'
  <2>1. runs' \in Seq(ConnectCalls) /\ out.pc = "revoking" /\ RevokeEnds
    BY <1>Revoke, RevokeCalls
  <2>2. QED
    BY <1>Revoke, <2>1, NoCallType DEF SessionInv, Revoke, auth, RevokeEnds, NodeIs, SameCalls, KeptLive,
       Others, Added, Late, Unmoved, OutIs, HasDevice
<1>Clear. ASSUME Clear PROVE SessionInv'
  <2>1. runs' \in Seq(ConnectCalls) /\ Outdated
    BY <1>Clear, ClearCalls
  <2>2. QED
    BY <1>Clear, <2>1, NoCallType DEF SessionInv, Clear, Outdated, SameCalls, Late, HasDevice
<1>Reconnected. ASSUME Reconnected PROVE SessionInv'
  BY <1>Reconnected, NoCallType DEF SessionInv, Reconnected, server, auth, nodes, HasDevice, RunIds
<1>LeaveStops. ASSUME LeaveStops PROVE SessionInv'
  <2>1. runs' \in Seq(ConnectCalls) /\ (IF conn # 0 THEN Outdated ELSE Unmoved)
    BY <1>LeaveStops, LeaveStopsCalls
  <2>2. leave.pc = "waiting" /\ LeaveIs("stopping", conn)
    BY <1>LeaveStops, LeaveStopsLeave
  <2>3. QED
    BY <1>LeaveStops, <2>1, <2>2 DEF SessionInv, LeaveStops, Disconnect, StopOf, server, auth, Outdated,
       SameCalls, Late, LeaveIs, HasDevice, Unmoved
<1>LeavesPage. ASSUME LeavesPage PROVE SessionInv'
  <2>1. runs' \in Seq(ConnectCalls) /\ runs' = <<>> /\ RunIds' = {} /\ Len(runs') = 0
    BY <1>LeavesPage, LeavesPageCalls
  <2>2. QED
    BY <1>LeavesPage, <2>1, NoCallType DEF SessionInv, LeavesPage, Unload, server, HasDevice
<1>SignedOut. ASSUME SignedOut PROVE SessionInv'
  <2>1. runs' \in Seq(ConnectCalls) /\ (Outdated \/ Unmoved)
    BY <1>SignedOut, SignedOutCalls
  <2>2. QED
    BY <1>SignedOut, <2>1 DEF SessionInv, SignedOut, CleanUp, StopOf, Due, server, auth, calls, Outdated,
       SameCalls, Late, HasDevice, Unmoved
<1>SignedIn. ASSUME SignedIn PROVE SessionInv'
  <2>1. runs' \in Seq(ConnectCalls) /\ (Added(session) \/ Unmoved)
    BY <1>SignedIn, SignedInCalls
  <2>2. QED
    BY <1>SignedIn, <2>1 DEF SessionInv, SignedIn, StopOf, Due, server, auth, calls, Added, Late, HasDevice,
       Unmoved
<1>WalletBootstrapped. ASSUME WalletBootstrapped PROVE SessionInv'
  BY <1>WalletBootstrapped DEF SessionInv, WalletBootstrapped, server, auth, nodes, calls, HasDevice, RunIds
<1>Restore. ASSUME Restore PROVE SessionInv'
  BY <1>Restore DEF SessionInv, SessionTypeOK, CallTypeOK, LogoutTypeOK, AwayInv, Restore, view, nodes, calls,
     HasDevice, RunIds
<1>HoldEnds. ASSUME HoldEnds PROVE SessionInv'
  BY <1>HoldEnds DEF SessionInv, HoldEnds, server, auth, view, nodes, calls, HasDevice, RunIds
<1>Load. ASSUME Load PROVE SessionInv'
  BY <1>Load DEF SessionInv, SessionTypeOK, CallTypeOK, LogoutTypeOK, AwayInv, Load, server, view, nodes, calls,
     HasDevice, RunIds
<1>Invalidate. ASSUME Invalidate PROVE SessionInv'
  <2>1. runs' \in Seq(ConnectCalls) /\ Outdated
    BY <1>Invalidate, InvalidateCalls
  <2>2. QED
    BY <1>Invalidate, <2>1 DEF SessionInv, Invalidate, StopOf, view, calls, Outdated, SameCalls, Late, HasDevice
<1>ServerEnds. ASSUME NEW s \in valid, ServerEnds(s) PROVE SessionInv'
  BY <1>ServerEnds DEF SessionInv, ServerEnds, auth, view, nodes, calls, HasDevice, RunIds
<1>StartFiber. ASSUME StartFiber PROVE SessionInv'
  <2>1. runs' \in Seq(ConnectCalls) /\ Added(session)
    BY <1>StartFiber, StartFiberCalls
  <2>2. QED
    BY <1>StartFiber, <2>1 DEF SessionInv, StartFiber, Ask, Calm, Due, server, auth, calls, Added, Late,
       HasDevice
<1>StopFiber. ASSUME StopFiber PROVE SessionInv'
  <2>1. runs' \in Seq(ConnectCalls) /\ Outdated
    BY <1>StopFiber, StopFiberCalls
  <2>2. QED
    BY <1>StopFiber, <2>1 DEF SessionInv, StopFiber, Disconnect, StopOf, Ask, Calm, Due, server, auth, Outdated,
       SameCalls, Late, HasDevice
<1>Logout. ASSUME Logout PROVE SessionInv'
  <2>1. runs' \in Seq(ConnectCalls) /\ Outdated
    BY <1>Logout, LogoutCalls
  <2>2. QED
    BY <1>Logout, <2>1, NoCallType DEF SessionInv, Logout, Ask, Calm, Due, Authenticated, server, auth,
       Outdated, SameCalls, Late, HasDevice
<1>Reload. ASSUME Reload PROVE SessionInv'
  <2>1. runs' \in Seq(ConnectCalls) /\ runs' = <<>> /\ RunIds' = {} /\ Len(runs') = 0
    BY <1>Reload, ReloadCalls
  <2>2. QED
    BY <1>Reload, <2>1, NoCallType DEF SessionInv, Reload, Unload, server, HasDevice
<1>SignIn. ASSUME SignIn PROVE SessionInv'
  <2>1. /\ session = 0 /\ session' = logins + 1 /\ applied.login = 0 /\ boot = 0 /\ valid' = valid \cup {logins + 1}
        /\ UNCHANGED <<applied, hold, boot, out, runs>>
    BY <1>SignIn DEF SignIn, Due, SessionInv, AwayInv, SessionTypeOK, Ask, nodes, calls
  <2>2. /\ logins \in Nat /\ out.login <= logins /\ out.login \in Nat
        /\ \A i \in RunIds : runs[i].login \in Nat \ {0} /\ runs[i].login <= logins
    BY DEF SessionTypeOK, CallTypeOK, LogoutTypeOK, ConnectCalls
  <2>3. out.pc # "none" => out.login \notin valid'
    BY <2>1, <2>2 DEF SessionInv, LogoutTypeOK
  <2>4. \A i \in RunIds : runs[i].live =>
            runs[i].login \notin valid' /\ runs[i].pc \in {"queued", "replacing", "failed"}
    BY <2>1, <2>2 DEF SessionInv
  <2>5. QED
    BY <2>1, <2>3, <2>4 DEF SessionInv, RunIds
<1>same. ASSUME UNCHANGED <<habits, valid, session, hold, applied, boot, runs, out>> PROVE SessionInv'
  BY <1>same DEF SessionInv, HasDevice, Patient, RunIds
<1> QED
  BY <1>AfterPrevious, <1>PreviousStopped, <1>Bootstrapped, <1>NodeStarts, <1>Connected, <1>PeersFail,
     <1>RunUndone, <1>NodeStops, <1>LogoutTakes, <1>NodeDownForBackup, <1>BackUp, <1>Revoke, <1>Clear,
     <1>Reconnected, <1>LeaveStops, <1>LeavesPage, <1>SignedOut, <1>SignedIn, <1>WalletBootstrapped, <1>Restore,
     <1>HoldEnds, <1>Load, <1>Invalidate, <1>ServerEnds, <1>StartFiber, <1>StopFiber, <1>Logout, <1>Reload,
     <1>SignIn, <1>same DEF ProviderNext, ConnectStep, LogoutStep, EffectStep, UserStep, providerVars, server,
     auth, view, nodes, calls, LeaseLost, Disconnected, Pay, PayEnds, Leave, LeaveFails

(* A wallet is only shown for the session, and taken away by the effect that follows it. *)
LEMMA WalletInvStep == ASSUME PageInv, [ProviderNext]_providerVars PROVE WalletInv'
<1> USE CallNumbers DEF PageInv, PageTypeOK
<1>Bootstrapped. ASSUME NEW i \in RunIds, Bootstrapped(i) PROVE WalletInv'
  BY <1>Bootstrapped DEF WalletInv, SessionInv, AwayInv, Bootstrapped, Fail, At, server, auth, calls
<1>Clear. ASSUME Clear PROVE WalletInv'
  BY <1>Clear DEF WalletInv, Clear
<1>LeavesPage. ASSUME LeavesPage PROVE WalletInv'
  BY <1>LeavesPage DEF WalletInv, LeavesPage, Unload, server
<1>SignedOut. ASSUME SignedOut PROVE WalletInv'
  BY <1>SignedOut DEF WalletInv, SignedOut, CleanUp, StopOf, Due, server, auth, calls
<1>SignedIn. ASSUME SignedIn PROVE WalletInv'
  BY <1>SignedIn DEF WalletInv, SignedIn, StopOf, Connect, Due, server, auth, calls
<1>WalletBootstrapped. ASSUME WalletBootstrapped PROVE WalletInv'
  BY <1>WalletBootstrapped DEF WalletInv, SessionInv, AwayInv, WalletBootstrapped, server, auth, nodes, calls
<1>Restore. ASSUME Restore PROVE WalletInv'
  BY <1>Restore DEF WalletInv, SessionInv, AwayInv, Restore, view, nodes, calls
<1>Invalidate. ASSUME Invalidate PROVE WalletInv'
  BY <1>Invalidate DEF WalletInv, Invalidate, StopOf, view, calls
<1>Reload. ASSUME Reload PROVE WalletInv'
  BY <1>Reload DEF WalletInv, Reload, Unload, server
<1>SignIn. ASSUME SignIn PROVE WalletInv'
  BY <1>SignIn DEF WalletInv, SignIn, Ask, Calm, Due, nodes, calls
<1>same. ASSUME UNCHANGED <<habits, session, wallet, applied>> PROVE WalletInv'
  BY <1>same DEF WalletInv, HasDevice, Patient, RunIds
<1> QED
  BY <1>Bootstrapped, <1>Clear, <1>LeavesPage, <1>SignedOut, <1>SignedIn, <1>WalletBootstrapped, <1>Restore,
     <1>Invalidate, <1>Reload, <1>SignIn, <1>same DEF ProviderNext, ConnectStep, LogoutStep, EffectStep,
     UserStep, providerVars, server, auth, view, nodes, calls, AfterPrevious, PreviousStopped, NodeStarts,
     Connected, PeersFail, RunUndone, NodeStops, LeaseLost, Disconnected, LogoutTakes, NodeDownForBackup,
     BackUp, Revoke, Reconnected, LeaveStops, HoldEnds, Load, ServerEnds, StartFiber, StopFiber, Logout, Pay,
     PayEnds, Leave, LeaveFails

(* A patient app starts nothing behind a logout or a leave, which so waits for all calls there are. *)
LEMMA PatienceInvStep == ASSUME PageInv, [ProviderNext]_providerVars PROVE PatienceInv'
<1> USE CallNumbers DEF PageInv, PageTypeOK
<1>AfterPrevious. ASSUME NEW i \in RunIds, AfterPrevious(i) PROVE PatienceInv'
  <2>1. runs' \in Seq(ConnectCalls) /\ (IF runs[i].live THEN Replacing(i) ELSE MovedTo(i, "failed"))
    BY <1>AfterPrevious, AfterPreviousCalls
  <2>2. QED
    BY <1>AfterPrevious, <2>1 DEF PatienceInv, Patient, AfterPrevious, Fail, StopOf, server, auth, calls,
       MovedTo, SameCalls, KeptLive, Others, Replacing, HasDevice
<1>PreviousStopped. ASSUME NEW i \in RunIds, PreviousStopped(i) PROVE PatienceInv'
  <2>1. runs' \in Seq(ConnectCalls) /\ WaitOver(i)
    BY <1>PreviousStopped, PreviousStoppedCalls
  <2>2. QED
    BY <1>PreviousStopped, <2>1 DEF PatienceInv, Patient, PreviousStopped, Fail, server, auth, calls, WaitOver, MovedTo,
       SameCalls, KeptLive, Others, HasDevice
<1>Bootstrapped. ASSUME NEW i \in RunIds, Bootstrapped(i) PROVE PatienceInv'
  <2>1. runs' \in Seq(ConnectCalls) /\ (MovedTo(i, "start") \/ MovedTo(i, "failed"))
    BY <1>Bootstrapped, BootstrappedCalls
  <2>2. QED
    BY <1>Bootstrapped, <2>1 DEF PatienceInv, Patient, Bootstrapped, Fail, server, auth, calls, MovedTo,
       SameCalls, KeptLive, Others, HasDevice
<1>NodeStarts. ASSUME NEW i \in RunIds, NodeStarts(i) PROVE PatienceInv'
  <2>1. runs' \in Seq(ConnectCalls) /\ (StartsAlone(i) \/ MovedTo(i, "failed"))
    BY <1>NodeStarts, NodeStartsCalls
  <2>2. QED
    BY <1>NodeStarts, <2>1 DEF PatienceInv, Patient, NodeStarts, Fail, server, auth, calls, MovedTo, SameCalls,
       KeptLive, Others, NodeIs, HasDevice, StartsAlone
<1>Connected. ASSUME NEW i \in RunIds, Connected(i) PROVE PatienceInv'
  <2>1. runs' \in Seq(ConnectCalls) /\ MovedTo(i, IF runs[i].live THEN "done" ELSE "undoing")
    BY <1>Connected, ConnectedCalls
  <2>2. QED
    BY <1>Connected, <2>1 DEF PatienceInv, Patient, Connected, StopOf, server, auth, calls, MovedTo, SameCalls,
       KeptLive, Others, HasDevice
<1>PeersFail. ASSUME NEW i \in RunIds, PeersFail(i) PROVE PatienceInv'
  <2>1. runs' \in Seq(ConnectCalls) /\ MovedTo(i, "undoing")
    BY <1>PeersFail, PeersFailCalls
  <2>2. QED
    BY <1>PeersFail, <2>1 DEF PatienceInv, Patient, PeersFail, StopOf, server, auth, view, calls, MovedTo,
       SameCalls, KeptLive, Others, HasDevice
<1>RunUndone. ASSUME NEW i \in RunIds, RunUndone(i) PROVE PatienceInv'
  <2>1. runs' \in Seq(ConnectCalls) /\ MovedTo(i, "failed")
    BY <1>RunUndone, RunUndoneCalls
  <2>2. QED
    BY <1>RunUndone, <2>1 DEF PatienceInv, Patient, RunUndone, Fail, server, auth, calls, MovedTo, SameCalls,
       KeptLive, Others, HasDevice
<1>NodeStops. ASSUME NEW i \in RunIds, NodeStops(i) PROVE PatienceInv'
  <2>1. runs' \in Seq(ConnectCalls) /\ NodeGoes(i)
    BY <1>NodeStops, NodeStopsCalls
  <2>2. IF out.pc = "queued" /\ out.conn = i THEN OutIs("backing", out.after, out.conn) ELSE out' = out
    BY <1>NodeStops, NodeStopsOut
  <2>3. QED
    BY <1>NodeStops, <2>1, <2>2 DEF PatienceInv, Patient, NodeStops, server, auth, NodeGoes, SameCalls, KeptLive,
       Others, OutIs, HasDevice
<1>Disconnected. ASSUME NEW i \in RunIds, Disconnected(i) PROVE PatienceInv'
  BY <1>Disconnected DEF PatienceInv, Patient, Disconnected, server, auth, nodes, HasDevice, RunIds
<1>LogoutTakes. ASSUME LogoutTakes PROVE PatienceInv'
  <2>1. TakesConnection
    BY <1>LogoutTakes, LogoutTakesOut
  <2>2. QED
    BY <1>LogoutTakes, <2>1, NoCallType DEF PatienceInv, Patient, LogoutTakes, server, auth, view, nodes, OutIs,
       HasDevice, RunIds, TakesConnection
<1>NodeDownForBackup. ASSUME NodeDownForBackup PROVE PatienceInv'
  <2>1. runs' \in Seq(ConnectCalls) /\ out.conn \in RunIds /\ NodeIs(out.conn, runs[out.conn].pc, "kept")
    BY <1>NodeDownForBackup, NodeDownForBackupCalls
  <2>2. QED
    BY <1>NodeDownForBackup, <2>1 DEF PatienceInv, Patient, NodeDownForBackup, server, auth, view, calls,
       NodeIs, SameCalls, KeptLive, Others, HasDevice
<1>BackUp. ASSUME BackUp PROVE PatienceInv'
  <2>1. runs' \in Seq(ConnectCalls) /\ out.pc = "backing" /\ out.conn \in RunIds /\ valid' = valid /\ BackUpEnds
    BY <1>BackUp, BackUpCalls
  <2>2. QED
    BY <1>BackUp, <2>1, NoCallType DEF PatienceInv, Patient, BackUp, server, auth, BackUpEnds, NodeGoes,
       SameCalls, KeptLive, Others, Added, Late, Unmoved, OutIs, HasDevice
<1>Revoke. ASSUME Revoke PROVE PatienceInv'
  <2>1. runs' \in Seq(ConnectCalls) /\ out.pc = "revoking" /\ RevokeEnds
    BY <1>Revoke, RevokeCalls
  <2>2. QED
    BY <1>Revoke, <2>1, NoCallType DEF PatienceInv, Patient, Revoke, auth, RevokeEnds, NodeIs, SameCalls,
       KeptLive, Others, Added, Late, Unmoved, OutIs, HasDevice
<1>Clear. ASSUME Clear PROVE PatienceInv'
  <2>1. runs' \in Seq(ConnectCalls) /\ Outdated
    BY <1>Clear, ClearCalls
  <2>2. QED
    BY <1>Clear, <2>1, NoCallType DEF PatienceInv, Patient, Clear, Outdated, SameCalls, Late, HasDevice
<1>Reconnected. ASSUME Reconnected PROVE PatienceInv'
  BY <1>Reconnected, NoCallType DEF PatienceInv, Patient, Reconnected, server, auth, nodes, HasDevice, RunIds
<1>LeaveStops. ASSUME LeaveStops PROVE PatienceInv'
  <2>1. runs' \in Seq(ConnectCalls) /\ (IF conn # 0 THEN Outdated ELSE Unmoved)
    BY <1>LeaveStops, LeaveStopsCalls
  <2>2. leave.pc = "waiting" /\ LeaveIs("stopping", conn)
    BY <1>LeaveStops, LeaveStopsLeave
  <2>3. QED
    BY <1>LeaveStops, <2>1, <2>2, NoCallType DEF PatienceInv, Patient, LeaveStops, Disconnect, StopOf, server,
       auth, Outdated, SameCalls, Late, LeaveIs, HasDevice, Unmoved
<1>LeavesPage. ASSUME LeavesPage PROVE PatienceInv'
  <2>1. runs' \in Seq(ConnectCalls) /\ runs' = <<>> /\ RunIds' = {} /\ Len(runs') = 0
    BY <1>LeavesPage, LeavesPageCalls
  <2>2. QED
    BY <1>LeavesPage, <2>1, NoCallType DEF PatienceInv, Patient, LeavesPage, Unload, server, HasDevice
<1>LeaveFails. ASSUME LeaveFails PROVE PatienceInv'
  BY <1>LeaveFails, NoCallType DEF PatienceInv, Patient, LeaveFails, server, auth, nodes, HasDevice, RunIds
<1>SignedOut. ASSUME SignedOut PROVE PatienceInv'
  <2>1. runs' \in Seq(ConnectCalls) /\ (Outdated \/ Unmoved)
    BY <1>SignedOut, SignedOutCalls
  <2>2. QED
    BY <1>SignedOut, <2>1 DEF PatienceInv, Patient, SignedOut, CleanUp, StopOf, Due, server, auth, calls,
       Outdated, SameCalls, Late, HasDevice, Unmoved
<1>SignedIn. ASSUME SignedIn PROVE PatienceInv'
  <2>1. runs' \in Seq(ConnectCalls) /\ (Added(session) \/ Unmoved)
    BY <1>SignedIn, SignedInCalls
  <2>2. QED
    BY <1>SignedIn, <2>1 DEF PatienceInv, SessionTypeOK, CallTypeOK, LogoutTypeOK, Patient, SignedIn, StopOf,
       Due, server, auth, calls, Added, Late, HasDevice, Unmoved
<1>Restore. ASSUME Restore PROVE PatienceInv'
  BY <1>Restore DEF PatienceInv, SessionTypeOK, CallTypeOK, LogoutTypeOK, Patient, SessionInv, AwayInv, Restore,
     view, nodes, calls, HasDevice, RunIds
<1>HoldEnds. ASSUME HoldEnds PROVE PatienceInv'
  BY <1>HoldEnds DEF PatienceInv, Patient, HoldEnds, server, auth, view, nodes, calls, HasDevice, RunIds
<1>Load. ASSUME Load PROVE PatienceInv'
  BY <1>Load DEF PatienceInv, Patient, Load, server, view, nodes, calls, HasDevice, RunIds
<1>Invalidate. ASSUME Invalidate PROVE PatienceInv'
  <2>1. runs' \in Seq(ConnectCalls) /\ Outdated
    BY <1>Invalidate, InvalidateCalls
  <2>2. QED
    BY <1>Invalidate, <2>1 DEF PatienceInv, Patient, Invalidate, StopOf, view, calls, Outdated, SameCalls, Late,
       HasDevice
<1>StartFiber. ASSUME StartFiber PROVE PatienceInv'
  <2>1. runs' \in Seq(ConnectCalls) /\ Added(session)
    BY <1>StartFiber, StartFiberCalls
  <2>2. QED
    BY <1>StartFiber, <2>1 DEF PatienceInv, Patient, StartFiber, Ask, Calm, Due, server, auth, calls, Added,
       Late, HasDevice
<1>StopFiber. ASSUME StopFiber PROVE PatienceInv'
  <2>1. runs' \in Seq(ConnectCalls) /\ Outdated
    BY <1>StopFiber, StopFiberCalls
  <2>2. QED
    BY <1>StopFiber, <2>1 DEF PatienceInv, Patient, StopFiber, Disconnect, StopOf, Ask, Calm, Due, server, auth,
       Outdated, SameCalls, Late, HasDevice
<1>Logout. ASSUME Logout PROVE PatienceInv'
  <2>1. runs' \in Seq(ConnectCalls) /\ Outdated
    BY <1>Logout, LogoutCalls
  <2>2. QED
    BY <1>Logout, <2>1, NoCallType DEF PatienceInv, Patient, Logout, Ask, Calm, Due, Authenticated, server,
       auth, Outdated, SameCalls, Late, HasDevice
<1>Pay. ASSUME Pay PROVE PatienceInv'
  BY <1>Pay DEF PatienceInv, Patient, Pay, Ask, Calm, Due, server, auth, view, nodes, HasDevice, RunIds
<1>PayEnds. ASSUME PayEnds PROVE PatienceInv'
  BY <1>PayEnds DEF PatienceInv, Patient, PayEnds, server, auth, view, nodes, HasDevice, RunIds
<1>Leave. ASSUME Leave PROVE PatienceInv'
  BY <1>Leave, NoCallType DEF PatienceInv, Patient, Leave, Ask, Calm, Due, server, auth, view, nodes, HasDevice,
     RunIds
<1>Reload. ASSUME Reload PROVE PatienceInv'
  <2>1. runs' \in Seq(ConnectCalls) /\ runs' = <<>> /\ RunIds' = {} /\ Len(runs') = 0
    BY <1>Reload, ReloadCalls
  <2>2. QED
    BY <1>Reload, <2>1, NoCallType DEF PatienceInv, Patient, Reload, Unload, server, HasDevice
<1>SignIn. ASSUME SignIn PROVE PatienceInv'
  BY <1>SignIn DEF PatienceInv, Patient, SignIn, Ask, Calm, Due, nodes, calls, HasDevice, RunIds
<1>same. ASSUME UNCHANGED <<habits, session, hold, applied, runs, out, leave, stops, paying>> PROVE PatienceInv'
  BY <1>same DEF PatienceInv, HasDevice, Patient, RunIds
<1> QED
  BY <1>AfterPrevious, <1>PreviousStopped, <1>Bootstrapped, <1>NodeStarts, <1>Connected, <1>PeersFail,
     <1>RunUndone, <1>NodeStops, <1>Disconnected, <1>LogoutTakes, <1>NodeDownForBackup, <1>BackUp, <1>Revoke,
     <1>Clear, <1>Reconnected, <1>LeaveStops, <1>LeavesPage, <1>LeaveFails, <1>SignedOut, <1>SignedIn, <1>Restore, <1>HoldEnds,
     <1>Load, <1>Invalidate, <1>StartFiber, <1>StopFiber, <1>Logout, <1>Pay, <1>PayEnds, <1>Leave, <1>Reload,
     <1>SignIn, <1>same DEF ProviderNext, ConnectStep, LogoutStep, EffectStep, UserStep, providerVars, server,
     auth, view, nodes, calls, LeaseLost, WalletBootstrapped, ServerEnds

(* A logout or a leave that has taken the connection finds every call over, and no other connection. *)
LEMMA LogoutInvStep == ASSUME PageInv, [ProviderNext]_providerVars PROVE LogoutInv'
<1> USE CallNumbers DEF PageInv, PageTypeOK
<1>AfterPrevious. ASSUME NEW i \in RunIds, AfterPrevious(i) PROVE LogoutInv'
  <2>1. runs' \in Seq(ConnectCalls) /\ (IF runs[i].live THEN Replacing(i) ELSE MovedTo(i, "failed"))
    BY <1>AfterPrevious, AfterPreviousCalls
  <2>2. QED
    BY <1>AfterPrevious, <2>1 DEF LogoutInv, Patient, AfterPrevious, Fail, StopOf, server, auth, calls, MovedTo,
       SameCalls, KeptLive, Others, Replacing, HasDevice, Over
<1>PreviousStopped. ASSUME NEW i \in RunIds, PreviousStopped(i) PROVE LogoutInv'
  <2>1. runs' \in Seq(ConnectCalls) /\ WaitOver(i)
    BY <1>PreviousStopped, PreviousStoppedCalls
  <2>2. QED
    BY <1>PreviousStopped, <2>1 DEF LogoutInv, Patient, PreviousStopped, Fail, server, auth, calls, WaitOver, MovedTo,
       SameCalls, KeptLive, Others, HasDevice, Over
<1>Bootstrapped. ASSUME NEW i \in RunIds, Bootstrapped(i) PROVE LogoutInv'
  <2>1. runs' \in Seq(ConnectCalls) /\ (MovedTo(i, "start") \/ MovedTo(i, "failed"))
    BY <1>Bootstrapped, BootstrappedCalls
  <2>2. QED
    BY <1>Bootstrapped, <2>1 DEF LogoutInv, Patient, Bootstrapped, Fail, server, auth, calls, MovedTo,
       SameCalls, KeptLive, Others, HasDevice, Over
<1>NodeStarts. ASSUME NEW i \in RunIds, NodeStarts(i) PROVE LogoutInv'
  <2>1. runs' \in Seq(ConnectCalls) /\ (StartsAlone(i) \/ MovedTo(i, "failed"))
    BY <1>NodeStarts, NodeStartsCalls
  <2>2. QED
    BY <1>NodeStarts, <2>1 DEF LogoutInv, Patient, NodeStarts, Fail, server, auth, calls, MovedTo, SameCalls,
       KeptLive, Others, NodeIs, HasDevice, Over, StartsAlone
<1>Connected. ASSUME NEW i \in RunIds, Connected(i) PROVE LogoutInv'
  <2>1. runs' \in Seq(ConnectCalls) /\ MovedTo(i, IF runs[i].live THEN "done" ELSE "undoing")
    BY <1>Connected, ConnectedCalls
  <2>2. QED
    BY <1>Connected, <2>1 DEF LogoutInv, Patient, Connected, StopOf, server, auth, calls, MovedTo, SameCalls,
       KeptLive, Others, HasDevice, Over
<1>PeersFail. ASSUME NEW i \in RunIds, PeersFail(i) PROVE LogoutInv'
  <2>1. runs' \in Seq(ConnectCalls) /\ MovedTo(i, "undoing")
    BY <1>PeersFail, PeersFailCalls
  <2>2. QED
    BY <1>PeersFail, <2>1 DEF LogoutInv, Patient, PeersFail, StopOf, server, auth, view, calls, MovedTo,
       SameCalls, KeptLive, Others, HasDevice, Over
<1>RunUndone. ASSUME NEW i \in RunIds, RunUndone(i) PROVE LogoutInv'
  <2>1. runs' \in Seq(ConnectCalls) /\ MovedTo(i, "failed")
    BY <1>RunUndone, RunUndoneCalls
  <2>2. QED
    BY <1>RunUndone, <2>1 DEF LogoutInv, Patient, RunUndone, Fail, server, auth, calls, MovedTo, SameCalls,
       KeptLive, Others, HasDevice, Over
<1>NodeStops. ASSUME NEW i \in RunIds, NodeStops(i) PROVE LogoutInv'
  <2>1. runs' \in Seq(ConnectCalls) /\ NodeGoes(i)
    BY <1>NodeStops, NodeStopsCalls
  <2>2. IF out.pc = "queued" /\ out.conn = i THEN OutIs("backing", out.after, out.conn) ELSE out' = out
    BY <1>NodeStops, NodeStopsOut
  <2>3. QED
    BY <1>NodeStops, <2>1, <2>2 DEF LogoutInv, Patient, NodeStops, server, auth, NodeGoes, SameCalls, KeptLive,
       Others, OutIs, HasDevice, Over
<1>LogoutTakes. ASSUME LogoutTakes PROVE LogoutInv'
  <2>1. TakesConnection
    BY <1>LogoutTakes, LogoutTakesOut
  <2>2. UNCHANGED <<habits, runs, conn, leave>> /\ RunSettled(out.after)
    BY <1>LogoutTakes DEF LogoutTakes, nodes
  <2>3. Patient => \A i \in RunIds : runs[i].pc \in Over
    BY <2>1, <2>2, AllOver DEF PatienceInv, TakesConnection
  <2>4. 0 \notin RunIds
    OBVIOUS
  <2>5. QED
    BY <2>1, <2>2, <2>3, <2>4 DEF LogoutInv, TakesConnection, OutIs, Patient, RunIds, HasDevice
<1>NodeDownForBackup. ASSUME NodeDownForBackup PROVE LogoutInv'
  <2>1. runs' \in Seq(ConnectCalls) /\ out.conn \in RunIds /\ NodeIs(out.conn, runs[out.conn].pc, "kept")
    BY <1>NodeDownForBackup, NodeDownForBackupCalls
  <2>2. QED
    BY <1>NodeDownForBackup, <2>1 DEF LogoutInv, Patient, NodeDownForBackup, server, auth, view, calls, NodeIs,
       SameCalls, KeptLive, Others, HasDevice, Over
<1>BackUp. ASSUME BackUp PROVE LogoutInv'
  <2>1. runs' \in Seq(ConnectCalls) /\ out.pc = "backing" /\ out.conn \in RunIds /\ valid' = valid /\ BackUpEnds
    BY <1>BackUp, BackUpCalls
  <2>2. QED
    BY <1>BackUp, <2>1, NoCallType DEF LogoutInv, PatienceInv, Patient, BackUp, BackUpEnds, NodeGoes, SameCalls,
       Others, Unmoved, OutIs, HasDevice
<1>Revoke. ASSUME Revoke PROVE LogoutInv'
  <2>1. runs' \in Seq(ConnectCalls) /\ out.pc = "revoking" /\ RevokeEnds
    BY <1>Revoke, RevokeCalls
  <2>2. QED
    BY <1>Revoke, <2>1, NoCallType DEF LogoutInv, PatienceInv, Patient, Revoke, RevokeEnds, Unmoved, OutIs,
       HasDevice
<1>Clear. ASSUME Clear PROVE LogoutInv'
  <2>1. runs' \in Seq(ConnectCalls) /\ Outdated
    BY <1>Clear, ClearCalls
  <2>2. QED
    BY <1>Clear, <2>1, NoCallType DEF LogoutInv, Patient, Clear, Outdated, SameCalls, Late, HasDevice, Over
<1>Reconnected. ASSUME Reconnected PROVE LogoutInv'
  BY <1>Reconnected, NoCallType DEF LogoutInv, Patient, Reconnected, server, auth, nodes, HasDevice, RunIds,
     Over
<1>LeaveStops. ASSUME LeaveStops PROVE LogoutInv'
  <2>1. leave.pc = "waiting" /\ LeaveIs("stopping", conn)
    BY <1>LeaveStops, LeaveStopsLeave
  <2>2. IF conn # 0 THEN Outdated ELSE Unmoved
    BY <1>LeaveStops, LeaveStopsCalls
  <2>3. UNCHANGED <<habits, out>> /\ conn' = 0 /\ RunSettled(leave.after)
    BY <1>LeaveStops DEF LeaveStops, Disconnect
  <2>4. Patient => (\A i \in RunIds : runs[i].pc \in Over) /\ out.pc = "none"
    BY <2>1, <2>3, AllOver DEF PatienceInv
  <2>5. \A i \in RunIds' : i \in RunIds /\ runs'[i].pc = runs[i].pc
    BY <2>2 DEF Outdated, SameCalls, Late, Unmoved
  <2>6. QED
    BY <2>1, <2>3, <2>4, <2>5 DEF LogoutInv, LeaveIs, Patient
<1>LeavesPage. ASSUME LeavesPage PROVE LogoutInv'
  <2>1. runs' \in Seq(ConnectCalls) /\ runs' = <<>> /\ RunIds' = {} /\ Len(runs') = 0
    BY <1>LeavesPage, LeavesPageCalls
  <2>2. QED
    BY <1>LeavesPage, <2>1, NoCallType DEF LogoutInv, Patient, LeavesPage, Unload, server, HasDevice, Over
<1>LeaveFails. ASSUME LeaveFails PROVE LogoutInv'
  BY <1>LeaveFails, NoCallType DEF LogoutInv, Patient, LeaveFails, server, auth, nodes, HasDevice, RunIds
<1>SignedOut. ASSUME SignedOut PROVE LogoutInv'
  <2>1. runs' \in Seq(ConnectCalls) /\ (Outdated \/ Unmoved)
    BY <1>SignedOut, SignedOutCalls
  <2>2. QED
    BY <1>SignedOut, <2>1 DEF LogoutInv, Patient, SignedOut, CleanUp, StopOf, Due, server, auth, calls,
       Outdated, SameCalls, Late, HasDevice, Unmoved, Over
<1>SignedIn. ASSUME SignedIn PROVE LogoutInv'
  <2>1. runs' \in Seq(ConnectCalls) /\ (Added(session) \/ Unmoved)
    BY <1>SignedIn, SignedInCalls
  <2>2. QED
    BY <1>SignedIn, <2>1 DEF LogoutInv, SessionTypeOK, SessionInv, PatienceInv, Patient, SignedIn, Due, calls,
       Added, Late, HasDevice, Unmoved
<1>Invalidate. ASSUME Invalidate PROVE LogoutInv'
  <2>1. runs' \in Seq(ConnectCalls) /\ Outdated
    BY <1>Invalidate, InvalidateCalls
  <2>2. QED
    BY <1>Invalidate, <2>1 DEF LogoutInv, Patient, Invalidate, StopOf, view, calls, Outdated, SameCalls, Late,
       HasDevice, Over
<1>StartFiber. ASSUME StartFiber PROVE LogoutInv'
  BY <1>StartFiber, NoCallType DEF LogoutInv, Patient, StartFiber, Ask, Calm, calls
<1>StopFiber. ASSUME StopFiber PROVE LogoutInv'
  <2>1. runs' \in Seq(ConnectCalls) /\ Outdated
    BY <1>StopFiber, StopFiberCalls
  <2>2. QED
    BY <1>StopFiber, <2>1 DEF LogoutInv, Patient, StopFiber, Disconnect, StopOf, Ask, Calm, Due, server, auth,
       Outdated, SameCalls, Late, HasDevice, Over
<1>Logout. ASSUME Logout PROVE LogoutInv'
  <2>1. runs' \in Seq(ConnectCalls) /\ Outdated
    BY <1>Logout, LogoutCalls
  <2>2. QED
    BY <1>Logout, <2>1, NoCallType DEF LogoutInv, Patient, Logout, Ask, Calm, Due, Authenticated, server, auth,
       Outdated, SameCalls, Late, HasDevice, Over
<1>Leave. ASSUME Leave PROVE LogoutInv'
  BY <1>Leave, NoCallType DEF LogoutInv, Patient, Leave, Ask, Calm, Due, server, auth, view, nodes, HasDevice,
     RunIds, Over
<1>Reload. ASSUME Reload PROVE LogoutInv'
  <2>1. runs' \in Seq(ConnectCalls) /\ runs' = <<>> /\ RunIds' = {} /\ Len(runs') = 0
    BY <1>Reload, ReloadCalls
  <2>2. QED
    BY <1>Reload, <2>1, NoCallType DEF LogoutInv, Patient, Reload, Unload, server, HasDevice, Over
<1>same. ASSUME UNCHANGED <<habits, runs, conn, out, leave>> PROVE LogoutInv'
  BY <1>same DEF LogoutInv, HasDevice, Patient, RunIds
<1> QED
  BY <1>AfterPrevious, <1>PreviousStopped, <1>Bootstrapped, <1>NodeStarts, <1>Connected, <1>PeersFail,
     <1>RunUndone, <1>NodeStops, <1>LogoutTakes, <1>NodeDownForBackup, <1>BackUp, <1>Revoke, <1>Clear,
     <1>Reconnected, <1>LeaveStops, <1>LeavesPage, <1>LeaveFails, <1>SignedOut, <1>SignedIn, <1>Invalidate, <1>StartFiber,
     <1>StopFiber, <1>Logout, <1>Leave, <1>Reload, <1>same DEF ProviderNext, ConnectStep, LogoutStep,
     EffectStep, UserStep, providerVars, server, auth, view, nodes, calls, LeaseLost, Disconnected,
     WalletBootstrapped, Restore, HoldEnds, Load, ServerEnds, Pay, PayEnds, SignIn

(* Whoever drops a connection of a patient app stops it. *)
LEMMA TrackedInvStep == ASSUME PageInv, [ProviderNext]_providerVars PROVE TrackedInv'
<1> USE CallNumbers DEF PageInv, PageTypeOK
<1>AfterPrevious. ASSUME NEW i \in RunIds, AfterPrevious(i) PROVE TrackedInv'
  <2>1. runs' \in Seq(ConnectCalls) /\ (IF runs[i].live THEN Replacing(i) ELSE MovedTo(i, "failed"))
    BY <1>AfterPrevious, AfterPreviousCalls
  <2>2. UNCHANGED <<habits, unleased>> /\ unleased \subseteq RunIds
    BY <1>AfterPrevious DEF AfterPrevious, CallTypeOK
  <2>3. SameCalls /\ KeptLive /\ Others(i) /\ runs[i].pc = "queued" /\ runs'[i].node = runs[i].node
    BY <1>AfterPrevious, <2>1 DEF AfterPrevious, MovedTo, Replacing
  <2>4. \A k \in RunIds : HasDevice(k)' <=> HasDevice(k)
    BY <2>3 DEF SameCalls, Others, HasDevice
  <2>5. asked \subseteq asked' /\ (conn' = conn \/ (HasDevice(conn) /\ conn \in RunIds => conn \in asked'))
    BY <1>AfterPrevious DEF AfterPrevious, StopOf, HasDevice
  <2>6. \A k \in RunIds : HasDevice(k) => runs'[k].pc = runs[k].pc
    BY <2>3 DEF OneDeviceInv, Others
  <2>7. QED
    BY <2>2, <2>3, <2>4, <2>5, <2>6 DEF TrackedInv, Patient, SameCalls, KeptLive
<1>PreviousStopped. ASSUME NEW i \in RunIds, PreviousStopped(i) PROVE TrackedInv'
  <2>1. runs' \in Seq(ConnectCalls) /\ WaitOver(i)
    BY <1>PreviousStopped, PreviousStoppedCalls
  <2>2. QED
    BY <1>PreviousStopped, <2>1 DEF TrackedInv, CallTypeOK, OneDeviceInv, Patient, PreviousStopped, Fail,
       server, auth, calls, WaitOver, MovedTo, SameCalls, KeptLive, Others, HasDevice
<1>Bootstrapped. ASSUME NEW i \in RunIds, Bootstrapped(i) PROVE TrackedInv'
  <2>1. runs' \in Seq(ConnectCalls) /\ (MovedTo(i, "start") \/ MovedTo(i, "failed"))
    BY <1>Bootstrapped, BootstrappedCalls
  <2>2. QED
    BY <1>Bootstrapped, <2>1 DEF TrackedInv, CallTypeOK, OneDeviceInv, Patient, Bootstrapped, Fail, server,
       auth, calls, MovedTo, SameCalls, KeptLive, Others, HasDevice
<1>NodeStarts. ASSUME NEW i \in RunIds, NodeStarts(i) PROVE TrackedInv'
  <2>1. runs' \in Seq(ConnectCalls) /\ (StartsAlone(i) \/ MovedTo(i, "failed"))
    BY <1>NodeStarts, NodeStartsCalls
  <2>2. QED
    BY <1>NodeStarts, <2>1 DEF TrackedInv, CallTypeOK, OneDeviceInv, Patient, NodeStarts, Fail, server, auth,
       calls, MovedTo, SameCalls, KeptLive, Others, NodeIs, HasDevice, StartsAlone
<1>Connected. ASSUME NEW i \in RunIds, Connected(i) PROVE TrackedInv'
  <2>1. runs' \in Seq(ConnectCalls) /\ MovedTo(i, IF runs[i].live THEN "done" ELSE "undoing")
    BY <1>Connected, ConnectedCalls
  <2>2. QED
    BY <1>Connected, <2>1 DEF TrackedInv, CallTypeOK, OneDeviceInv, CallOrderInv, ConnectionInv, Over, Patient,
       Connected, StopOf, server, auth, calls, MovedTo, SameCalls, KeptLive, Others, HasDevice
<1>PeersFail. ASSUME NEW i \in RunIds, PeersFail(i) PROVE TrackedInv'
  <2>1. runs' \in Seq(ConnectCalls) /\ MovedTo(i, "undoing")
    BY <1>PeersFail, PeersFailCalls
  <2>2. QED
    BY <1>PeersFail, <2>1 DEF TrackedInv, CallTypeOK, OneDeviceInv, Patient, PeersFail, StopOf, server, auth,
       view, calls, MovedTo, SameCalls, KeptLive, Others, HasDevice
<1>RunUndone. ASSUME NEW i \in RunIds, RunUndone(i) PROVE TrackedInv'
  <2>1. runs' \in Seq(ConnectCalls) /\ MovedTo(i, "failed")
    BY <1>RunUndone, RunUndoneCalls
  <2>2. QED
    BY <1>RunUndone, <2>1 DEF TrackedInv, CallTypeOK, OneDeviceInv, Patient, RunUndone, Fail, server, auth,
       calls, MovedTo, SameCalls, KeptLive, Others, HasDevice
<1>NodeStops. ASSUME NEW i \in RunIds, NodeStops(i) PROVE TrackedInv'
  <2>1. runs' \in Seq(ConnectCalls) /\ NodeGoes(i)
    BY <1>NodeStops, NodeStopsCalls
  <2>2. QED
    BY <1>NodeStops, <2>1 DEF TrackedInv, CallTypeOK, LogoutTypeOK, OneDeviceInv, Patient, NodeStops, server,
       auth, NodeGoes, SameCalls, KeptLive, Others, HasDevice
<1>LeaseLost. ASSUME NEW i \in RunIds, LeaseLost(i) PROVE TrackedInv'
  BY <1>LeaseLost DEF TrackedInv, Patient, LeaseLost, server, auth, view, calls, HasDevice, RunIds
<1>NodeDownForBackup. ASSUME NodeDownForBackup PROVE TrackedInv'
  <2>1. runs' \in Seq(ConnectCalls) /\ out.conn \in RunIds /\ NodeIs(out.conn, runs[out.conn].pc, "kept")
    BY <1>NodeDownForBackup, NodeDownForBackupCalls
  <2>2. QED
    BY <1>NodeDownForBackup, <2>1 DEF TrackedInv, Patient, NodeDownForBackup, server, auth, view, calls, NodeIs,
       SameCalls, KeptLive, Others, HasDevice
<1>BackUp. ASSUME BackUp PROVE TrackedInv'
  <2>1. runs' \in Seq(ConnectCalls) /\ out.pc = "backing" /\ out.conn \in RunIds /\ valid' = valid /\ BackUpEnds
    BY <1>BackUp, BackUpCalls
  <2>2. QED
    BY <1>BackUp, <2>1 DEF TrackedInv, CallTypeOK, PatienceInv, Patient, BackUp, BackUpEnds, NodeGoes, SameCalls,
       KeptLive, Others, Added, Late, Unmoved, HasDevice
<1>Revoke. ASSUME Revoke PROVE TrackedInv'
  <2>1. runs' \in Seq(ConnectCalls) /\ out.pc = "revoking" /\ RevokeEnds
    BY <1>Revoke, RevokeCalls
  <2>2. QED
    BY <1>Revoke, <2>1 DEF TrackedInv, CallTypeOK, LogoutTypeOK, OneDeviceInv, Patient, Revoke, auth,
       RevokeEnds, NodeIs, SameCalls, KeptLive, Others, Added, Late, Unmoved, OutIs, HasDevice
<1>Clear. ASSUME Clear PROVE TrackedInv'
  <2>1. runs' \in Seq(ConnectCalls) /\ Outdated
    BY <1>Clear, ClearCalls
  <2>2. QED
    BY <1>Clear, <2>1 DEF TrackedInv, CallTypeOK, LogoutInv, Patient, Clear, Outdated, SameCalls, Late,
       HasDevice
<1>LeaveStops. ASSUME LeaveStops PROVE TrackedInv'
  <2>1. runs' \in Seq(ConnectCalls) /\ (IF conn # 0 THEN Outdated ELSE Unmoved)
    BY <1>LeaveStops, LeaveStopsCalls
  <2>2. QED
    BY <1>LeaveStops, <2>1 DEF TrackedInv, CallTypeOK, LogoutTypeOK, OneDeviceInv, Patient, LeaveStops,
       Disconnect, StopOf, server, auth, Outdated, SameCalls, Late, HasDevice, Unmoved
<1>LeavesPage. ASSUME LeavesPage PROVE TrackedInv'
  <2>1. runs' \in Seq(ConnectCalls) /\ runs' = <<>> /\ RunIds' = {} /\ Len(runs') = 0
    BY <1>LeavesPage, LeavesPageCalls
  <2>2. QED
    BY <1>LeavesPage, <2>1 DEF TrackedInv, Patient, LeavesPage, Unload, server, HasDevice
<1>SignedOut. ASSUME SignedOut PROVE TrackedInv'
  <2>1. runs' \in Seq(ConnectCalls) /\ (Outdated \/ Unmoved)
    BY <1>SignedOut, SignedOutCalls
  <2>2. QED
    BY <1>SignedOut, <2>1 DEF TrackedInv, CallTypeOK, Patient, OneDeviceInv, SignedOut, CleanUp, StopOf, Due,
       server, auth, calls, Outdated, SameCalls, Late, HasDevice, Unmoved
<1>SignedIn. ASSUME SignedIn PROVE TrackedInv'
  <2>1. runs' \in Seq(ConnectCalls) /\ (Added(session) \/ Unmoved)
    BY <1>SignedIn, SignedInCalls
  <2>2. QED
    BY <1>SignedIn, <2>1 DEF TrackedInv, CallTypeOK, Patient, OneDeviceInv, SignedIn, StopOf, Due, server, auth,
       calls, Added, Late, HasDevice, Unmoved
<1>Invalidate. ASSUME Invalidate PROVE TrackedInv'
  <2>1. runs' \in Seq(ConnectCalls) /\ Outdated
    BY <1>Invalidate, InvalidateCalls
  <2>2. QED
    BY <1>Invalidate, <2>1 DEF TrackedInv, CallTypeOK, LogoutTypeOK, OneDeviceInv, Patient, Invalidate, StopOf,
       view, calls, Outdated, SameCalls, Late, HasDevice
<1>StartFiber. ASSUME StartFiber PROVE TrackedInv'
  <2>1. runs' \in Seq(ConnectCalls) /\ Added(session)
    BY <1>StartFiber, StartFiberCalls
  <2>2. QED
    BY <1>StartFiber, <2>1 DEF TrackedInv, CallTypeOK, LogoutTypeOK, OneDeviceInv, Patient, StartFiber, Ask,
       Calm, Due, server, auth, calls, Added, Late, HasDevice
<1>StopFiber. ASSUME StopFiber PROVE TrackedInv'
  <2>1. runs' \in Seq(ConnectCalls) /\ Outdated
    BY <1>StopFiber, StopFiberCalls
  <2>2. QED
    BY <1>StopFiber, <2>1 DEF TrackedInv, CallTypeOK, LogoutTypeOK, OneDeviceInv, Patient, StopFiber,
       Disconnect, StopOf, Ask, Calm, Due, server, auth, Outdated, SameCalls, Late, HasDevice
<1>Logout. ASSUME Logout PROVE TrackedInv'
  <2>1. runs' \in Seq(ConnectCalls) /\ Outdated
    BY <1>Logout, LogoutCalls
  <2>2. QED
    BY <1>Logout, <2>1 DEF TrackedInv, CallTypeOK, LogoutTypeOK, OneDeviceInv, Patient, Logout, Ask, Calm, Due,
       Authenticated, server, auth, Outdated, SameCalls, Late, HasDevice
<1>Reload. ASSUME Reload PROVE TrackedInv'
  <2>1. runs' \in Seq(ConnectCalls) /\ runs' = <<>> /\ RunIds' = {} /\ Len(runs') = 0
    BY <1>Reload, ReloadCalls
  <2>2. QED
    BY <1>Reload, <2>1 DEF TrackedInv, Patient, Reload, Unload, server, HasDevice
<1>same. ASSUME UNCHANGED <<habits, runs, conn, asked, unleased>> PROVE TrackedInv'
  BY <1>same DEF TrackedInv, HasDevice, Patient, RunIds
<1> QED
  BY <1>AfterPrevious, <1>PreviousStopped, <1>Bootstrapped, <1>NodeStarts, <1>Connected, <1>PeersFail,
     <1>RunUndone, <1>NodeStops, <1>LeaseLost, <1>NodeDownForBackup, <1>BackUp, <1>Revoke, <1>Clear,
     <1>LeaveStops, <1>LeavesPage, <1>SignedOut, <1>SignedIn, <1>Invalidate, <1>StartFiber, <1>StopFiber,
     <1>Logout, <1>Reload, <1>same DEF ProviderNext, ConnectStep, LogoutStep, EffectStep, UserStep,
     providerVars, server, auth, view, nodes, calls, Disconnected, LogoutTakes, Reconnected, WalletBootstrapped,
     Restore, HoldEnds, Load, ServerEnds, Pay, PayEnds, Leave, SignIn, LeaveFails

(* Whoever stops a node of a patient app waits for it, if the session lasts. *)
LEMMA AwaitedInvStep == ASSUME PageInv, [ProviderNext]_providerVars PROVE AwaitedInv'
<1> USE CallNumbers DEF PageInv, PageTypeOK
<1>AfterPrevious. ASSUME NEW i \in RunIds, AfterPrevious(i) PROVE AwaitedInv'
  <2>1. runs' \in Seq(ConnectCalls) /\ (IF runs[i].live THEN Replacing(i) ELSE MovedTo(i, "failed"))
    BY <1>AfterPrevious, AfterPreviousCalls
  <2>2. UNCHANGED <<habits, session, valid, out, stops, leave>> /\ asked \subseteq RunIds
    BY <1>AfterPrevious DEF AfterPrevious, server, auth, calls, CallTypeOK
  <2>3. runs[i].pc = "queued" /\ i \in RunIds
    BY <1>AfterPrevious DEF AfterPrevious
  <2>4. CASE runs[i].live
    <3>1. conn' = 0 /\ asked' \subseteq asked \cup {conn} /\ Replacing(i)
      BY <1>AfterPrevious, <2>1, <2>4 DEF AfterPrevious, StopOf
    <3>2. QED
      BY <2>2, <2>3, <3>1 DEF AwaitedInv, Patient, MovedTo, SameCalls, Others, Replacing, HasDevice
  <2>5. CASE ~runs[i].live
    <3>1. UNCHANGED <<conn, asked>> /\ MovedTo(i, "failed")
      BY <1>AfterPrevious, <2>1, <2>5 DEF AfterPrevious
    <3>2. QED
      BY <2>2, <2>3, <3>1 DEF AwaitedInv, Patient, MovedTo, SameCalls, Others, HasDevice
  <2>6. QED
    BY <2>4, <2>5
<1>PreviousStopped. ASSUME NEW i \in RunIds, PreviousStopped(i) PROVE AwaitedInv'
  <2>1. runs' \in Seq(ConnectCalls) /\ WaitOver(i)
    BY <1>PreviousStopped, PreviousStoppedCalls
  <2>2. QED
    BY <1>PreviousStopped, <2>1 DEF AwaitedInv, CallTypeOK, OneDeviceInv, Patient, PreviousStopped, Fail,
       server, auth, calls, WaitOver, MovedTo, SameCalls, KeptLive, Others, HasDevice, Over
<1>Bootstrapped. ASSUME NEW i \in RunIds, Bootstrapped(i) PROVE AwaitedInv'
  <2>1. runs' \in Seq(ConnectCalls) /\ (MovedTo(i, "start") \/ MovedTo(i, "failed"))
    BY <1>Bootstrapped, BootstrappedCalls
  <2>2. QED
    BY <1>Bootstrapped, <2>1 DEF AwaitedInv, CallTypeOK, OneDeviceInv, Patient, Bootstrapped, Fail, server,
       auth, calls, MovedTo, SameCalls, KeptLive, Others, HasDevice, Over
<1>NodeStarts. ASSUME NEW i \in RunIds, NodeStarts(i) PROVE AwaitedInv'
  <2>1. runs' \in Seq(ConnectCalls) /\ (StartsAlone(i) \/ MovedTo(i, "failed"))
    BY <1>NodeStarts, NodeStartsCalls
  <2>2. QED
    BY <1>NodeStarts, <2>1 DEF AwaitedInv, CallTypeOK, OneDeviceInv, Patient, NodeStarts, Fail, server, auth,
       calls, MovedTo, SameCalls, KeptLive, Others, NodeIs, HasDevice, Over, StartsAlone
<1>Connected. ASSUME NEW i \in RunIds, Connected(i) PROVE AwaitedInv'
  <2>1. runs' \in Seq(ConnectCalls) /\ MovedTo(i, IF runs[i].live THEN "done" ELSE "undoing")
    BY <1>Connected, ConnectedCalls
  <2>2. QED
    BY <1>Connected, <2>1 DEF AwaitedInv, CallTypeOK, OneDeviceInv, CallOrderInv, ConnectionInv, Over, Patient,
       Connected, StopOf, server, auth, calls, MovedTo, SameCalls, KeptLive, Others, HasDevice
<1>PeersFail. ASSUME NEW i \in RunIds, PeersFail(i) PROVE AwaitedInv'
  <2>1. runs' \in Seq(ConnectCalls) /\ MovedTo(i, "undoing")
    BY <1>PeersFail, PeersFailCalls
  <2>2. QED
    BY <1>PeersFail, <2>1 DEF AwaitedInv, CallTypeOK, OneDeviceInv, Patient, PeersFail, StopOf, server, auth,
       view, calls, MovedTo, SameCalls, KeptLive, Others, HasDevice, Over
<1>RunUndone. ASSUME NEW i \in RunIds, RunUndone(i) PROVE AwaitedInv'
  <2>1. MovedTo(i, "failed")
    BY <1>RunUndone, RunUndoneCalls
  <2>2. i \notin asked /\ runs[i].pc = "undoing"
    BY <1>RunUndone DEF RunUndone
  <2>3. UNCHANGED <<habits, session, valid, out, asked, conn, stops, leave>>
    BY <1>RunUndone DEF RunUndone, server, auth, calls
  <2>4. asked \subseteq RunIds
    BY DEF CallTypeOK
  <2>5. QED
    BY <2>1, <2>2, <2>3, <2>4 DEF AwaitedInv, Patient, MovedTo, SameCalls, Others, HasDevice
<1>NodeStops. ASSUME NEW i \in RunIds, NodeStops(i) PROVE AwaitedInv'
  <2>1. runs' \in Seq(ConnectCalls) /\ NodeGoes(i)
    BY <1>NodeStops, NodeStopsCalls
  <2>2. IF out.pc = "queued" /\ out.conn = i THEN OutIs("backing", out.after, out.conn) ELSE out' = out
    BY <1>NodeStops, NodeStopsOut
  <2>3. /\ UNCHANGED <<habits, session, valid, stops, leave>> /\ asked \subseteq RunIds
        /\ out'.pc = "clearing" <=> out.pc = "clearing"
    BY <1>NodeStops, <2>2 DEF NodeStops, server, auth, CallTypeOK, OutIs
  <2>4. /\ asked' = asked \ {i} /\ RunIds' = RunIds
        /\ \A k \in RunIds : HasDevice(k)' => HasDevice(k) /\ k # i
    BY <1>NodeStops, <2>1 DEF NodeStops, NodeGoes, SameCalls, Others, HasDevice
  <2>5. Patient => \A k \in RunIds : HasDevice(k)' /\ k = conn => conn' = conn
    BY <1>NodeStops, <2>4 DEF NodeStops, OneDeviceInv, TrackedInv
  <2>6. QED
    BY <2>1, <2>3, <2>4, <2>5 DEF AwaitedInv, Patient, NodeGoes, SameCalls, Others
<1>LeaseLost. ASSUME NEW i \in RunIds, LeaseLost(i) PROVE AwaitedInv'
  BY <1>LeaseLost DEF AwaitedInv, CallTypeOK, TrackedInv, Patient, LeaseLost, server, auth, view, calls,
     HasDevice, RunIds, Over
<1>Disconnected. ASSUME NEW i \in RunIds, Disconnected(i) PROVE AwaitedInv'
  BY <1>Disconnected DEF AwaitedInv, Patient, Disconnected, server, auth, nodes, HasDevice, RunIds, Over
<1>LogoutTakes. ASSUME LogoutTakes PROVE AwaitedInv'
  <2>1. TakesConnection
    BY <1>LogoutTakes, LogoutTakesOut
  <2>2. QED
    BY <1>LogoutTakes, <2>1 DEF AwaitedInv, Patient, LogoutTakes, server, auth, view, nodes, OutIs, HasDevice,
       RunIds, Over, TakesConnection
<1>NodeDownForBackup. ASSUME NodeDownForBackup PROVE AwaitedInv'
  <2>1. runs' \in Seq(ConnectCalls) /\ out.conn \in RunIds /\ NodeIs(out.conn, runs[out.conn].pc, "kept")
    BY <1>NodeDownForBackup, NodeDownForBackupCalls
  <2>2. QED
    BY <1>NodeDownForBackup, <2>1 DEF AwaitedInv, Patient, NodeDownForBackup, server, auth, view, calls, NodeIs,
       SameCalls, KeptLive, Others, HasDevice, Over
<1>BackUp. ASSUME BackUp PROVE AwaitedInv'
  <2>1. out.pc = "backing" /\ out.conn \in RunIds /\ BackUpEnds
    BY <1>BackUp, BackUpCalls
  <2>2. UNCHANGED <<habits, session, valid, asked, conn, stops, leave>>
    BY <1>BackUp DEF BackUp, server, auth
  <2>3. Patient /\ "ends" \notin habits /\ session # 0 => session \in valid
    BY <2>1 DEF AwaitedInv
  <2>4. asked \subseteq RunIds
    BY DEF CallTypeOK
  <2>5. CASE Added(out.login)
    BY <2>2, <2>3, <2>4, <2>5 DEF AwaitedInv, Added, Late, HasDevice, Patient
  <2>6. CASE Unmoved
    BY <2>2, <2>3, <2>4, <2>6 DEF AwaitedInv, Unmoved, HasDevice, Patient
  <2>7. CASE NodeGoes(out.conn)
    BY <2>1, <2>2, <2>3, <2>4, <2>7 DEF AwaitedInv, NodeGoes, SameCalls, Others, HasDevice, Patient
  <2>8. QED
    BY <2>1, <2>5, <2>6, <2>7 DEF BackUpEnds
<1>Revoke. ASSUME Revoke PROVE AwaitedInv'
  <2>1. runs' \in Seq(ConnectCalls) /\ out.pc = "revoking" /\ RevokeEnds
    BY <1>Revoke, RevokeCalls
  <2>2. QED
    BY <1>Revoke, <2>1, NoCallType DEF AwaitedInv, CallTypeOK, Patient, Revoke, auth, RevokeEnds, NodeIs,
       SameCalls, KeptLive, Others, Added, Late, Unmoved, OutIs, HasDevice, Over
<1>Clear. ASSUME Clear PROVE AwaitedInv'
  <2>1. runs' \in Seq(ConnectCalls) /\ Outdated
    BY <1>Clear, ClearCalls
  <2>2. QED
    BY <1>Clear, <2>1 DEF AwaitedInv, CallTypeOK, LogoutInv, Patient, Clear, Outdated, SameCalls, Late,
       HasDevice
<1>Reconnected. ASSUME Reconnected PROVE AwaitedInv'
  BY <1>Reconnected, NoCallType DEF AwaitedInv, Patient, Reconnected, server, auth, nodes, HasDevice, RunIds,
     Over
<1>LeaveStops. ASSUME LeaveStops PROVE AwaitedInv'
  <2>1. runs' \in Seq(ConnectCalls) /\ (IF conn # 0 THEN Outdated ELSE Unmoved)
    BY <1>LeaveStops, LeaveStopsCalls
  <2>2. leave.pc = "waiting" /\ LeaveIs("stopping", conn)
    BY <1>LeaveStops, LeaveStopsLeave
  <2>3. QED
    BY <1>LeaveStops, <2>1, <2>2 DEF AwaitedInv, CallTypeOK, Patient, LeaveStops, Disconnect, StopOf, server,
       auth, Outdated, SameCalls, Late, LeaveIs, HasDevice, Unmoved, Over
<1>LeavesPage. ASSUME LeavesPage PROVE AwaitedInv'
  <2>1. runs' \in Seq(ConnectCalls) /\ runs' = <<>> /\ RunIds' = {} /\ Len(runs') = 0
    BY <1>LeavesPage, LeavesPageCalls
  <2>2. QED
    BY <1>LeavesPage, <2>1, NoCallType DEF AwaitedInv, Patient, LeavesPage, Unload, server, HasDevice, Over
<1>LeaveFails. ASSUME LeaveFails PROVE AwaitedInv'
  BY <1>LeaveFails, NoCallType DEF AwaitedInv, Patient, LeaveFails, server, auth, nodes, HasDevice, RunIds
<1>SignedOut. ASSUME SignedOut PROVE AwaitedInv'
  <2>1. runs' \in Seq(ConnectCalls) /\ (Outdated \/ Unmoved)
    BY <1>SignedOut, SignedOutCalls
  <2>2. QED
    BY <1>SignedOut, <2>1 DEF AwaitedInv, CallTypeOK, ConnectionInv, SessionInv, Patient, SessionTypeOK,
       SignedOut, CleanUp, StopOf, Due, server, auth, calls, Outdated, SameCalls, Late, HasDevice, Unmoved, Over
<1>SignedIn. ASSUME SignedIn PROVE AwaitedInv'
  <2>1. runs' \in Seq(ConnectCalls) /\ (Added(session) \/ Unmoved)
    BY <1>SignedIn, SignedInCalls
  <2>2. QED
    BY <1>SignedIn, <2>1 DEF AwaitedInv, CallTypeOK, ConnectionInv, SessionInv, Patient, SessionTypeOK,
       SignedIn, StopOf, Due, server, auth, calls, Added, Late, HasDevice, Unmoved, Over
<1>Restore. ASSUME Restore PROVE AwaitedInv'
  BY <1>Restore DEF AwaitedInv, Patient, Restore, view, nodes, calls, HasDevice, RunIds, Over
<1>Invalidate. ASSUME Invalidate PROVE AwaitedInv'
  <2>1. runs' \in Seq(ConnectCalls) /\ Outdated
    BY <1>Invalidate, InvalidateCalls
  <2>2. QED
    BY <1>Invalidate, <2>1 DEF AwaitedInv, CallTypeOK, LogoutInv, Patient, Invalidate, StopOf, view, calls,
       Outdated, SameCalls, Late, HasDevice, Over
<1>ServerEnds. ASSUME NEW s \in valid, ServerEnds(s) PROVE AwaitedInv'
  BY <1>ServerEnds DEF AwaitedInv, Patient, ServerEnds, auth, view, nodes, calls, HasDevice, RunIds, Over
<1>StartFiber. ASSUME StartFiber PROVE AwaitedInv'
  <2>1. runs' \in Seq(ConnectCalls) /\ Added(session)
    BY <1>StartFiber, StartFiberCalls
  <2>2. QED
    BY <1>StartFiber, <2>1 DEF AwaitedInv, CallTypeOK, Patient, StartFiber, server, auth, calls, Added, Late,
       HasDevice
<1>StopFiber. ASSUME StopFiber PROVE AwaitedInv'
  <2>1. runs' \in Seq(ConnectCalls) /\ Outdated
    BY <1>StopFiber, StopFiberCalls
  <2>2. QED
    BY <1>StopFiber, <2>1 DEF AwaitedInv, CallTypeOK, Patient, StopFiber, Disconnect, StopOf, Ask, Calm, Due,
       server, auth, Outdated, SameCalls, Late, HasDevice, Over
<1>Logout. ASSUME Logout PROVE AwaitedInv'
  <2>1. runs' \in Seq(ConnectCalls) /\ Outdated
    BY <1>Logout, LogoutCalls
  <2>2. QED
    BY <1>Logout, <2>1, NoCallType DEF AwaitedInv, CallTypeOK, Patient, Logout, Ask, Calm, Due, Authenticated,
       server, auth, Outdated, SameCalls, Late, HasDevice, Over
<1>Leave. ASSUME Leave PROVE AwaitedInv'
  BY <1>Leave, NoCallType DEF AwaitedInv, Patient, Leave, Ask, Calm, Due, server, auth, view, nodes, HasDevice,
     RunIds, Over
<1>Reload. ASSUME Reload PROVE AwaitedInv'
  <2>1. runs' \in Seq(ConnectCalls) /\ runs' = <<>> /\ RunIds' = {} /\ Len(runs') = 0
    BY <1>Reload, ReloadCalls
  <2>2. QED
    BY <1>Reload, <2>1, NoCallType DEF AwaitedInv, Patient, Reload, Unload, server, HasDevice, Over
<1>SignIn. ASSUME SignIn PROVE AwaitedInv'
  BY <1>SignIn DEF AwaitedInv, Patient, SignIn, Ask, Calm, Due, nodes, calls, HasDevice, RunIds, Over
<1>same. ASSUME UNCHANGED <<habits, valid, session, runs, conn, asked, out, leave, stops>> PROVE AwaitedInv'
  BY <1>same DEF AwaitedInv, HasDevice, Patient, RunIds
<1> QED
  BY <1>AfterPrevious, <1>PreviousStopped, <1>Bootstrapped, <1>NodeStarts, <1>Connected, <1>PeersFail,
     <1>RunUndone, <1>NodeStops, <1>LeaseLost, <1>Disconnected, <1>LogoutTakes, <1>NodeDownForBackup, <1>BackUp,
     <1>Revoke, <1>Clear, <1>Reconnected, <1>LeaveStops, <1>LeavesPage, <1>LeaveFails, <1>SignedOut, <1>SignedIn, <1>Restore,
     <1>Invalidate, <1>ServerEnds, <1>StartFiber, <1>StopFiber, <1>Logout, <1>Leave, <1>Reload, <1>SignIn,
     <1>same DEF ProviderNext, ConnectStep, LogoutStep, EffectStep, UserStep, providerVars, server, auth, view,
     nodes, calls, WalletBootstrapped, HoldEnds, Load, Pay, PayEnds

-----------------------------------------------------------------------------
(* The page starts with nothing under way. *)
LEMMA InitPageInv == ProviderInit => PageInv
<1> SUFFICES ASSUME ProviderInit PROVE PageInv
  OBVIOUS
<1>1. runs = <<>> /\ RunIds = {} /\ Len(runs) = 0 /\ runs \in Seq(ConnectCalls)
  BY DEF ProviderInit, RunIds
<1>2. out = NoCall /\ leave = NoCall /\ out.pc = "none" /\ leave.pc = "none" /\ out.login = 0 /\ out.conn = 0
  BY NoCallType DEF ProviderInit
<1>3. PageTypeOK
  <2>1. SessionTypeOK
    <3>1. applied = [login |-> 0, hold |-> FALSE] /\ hold = FALSE
      BY DEF ProviderInit
    <3>2. applied \in [login : Nat, hold : BOOLEAN] /\ applied.login = 0 /\ hold \in BOOLEAN
      BY <3>1
    <3>3. QED
      BY <3>2 DEF ProviderInit, SessionTypeOK
  <2>2. CallTypeOK
    BY <1>1 DEF ProviderInit, CallTypeOK
  <2>3. LogoutTypeOK
    <3>1. logins = 0 /\ stops = {} /\ paying = FALSE
      BY DEF ProviderInit
    <3>2. paying \in BOOLEAN
      BY <3>1
    <3>3. QED
      BY <1>1, <1>2, <3>1, <3>2, NoCallType DEF LogoutTypeOK
  <2>4. QED
    BY <2>1, <2>2, <2>3 DEF PageTypeOK
<1>4. AwayInv /\ CallOrderInv /\ OneDeviceInv /\ ConnectionInv /\ SessionInv /\ WalletInv
  BY <1>1, <1>2 DEF ProviderInit, AwayInv, CallOrderInv, OneDeviceInv, ConnectionInv, SessionInv, WalletInv
<1>5. PatienceInv /\ LogoutInv /\ TrackedInv /\ AwaitedInv
  BY <1>1, <1>2 DEF ProviderInit, PatienceInv, LogoutInv, TrackedInv, AwaitedInv
<1>6. QED
  BY <1>3, <1>4, <1>5 DEF PageInv

(* Every step keeps the invariant. *)
LEMMA PageInvStep == PageInv /\ [ProviderNext]_providerVars => PageInv'
<1> SUFFICES ASSUME PageInv, [ProviderNext]_providerVars PROVE PageInv'
  OBVIOUS
<1>1. PageTypeOK'
  BY SessionTypeOKStep, CallTypeOKStep, LogoutTypeOKStep DEF PageTypeOK
<1>2. AwayInv' /\ CallOrderInv' /\ OneDeviceInv' /\ ConnectionInv' /\ SessionInv' /\ WalletInv'
  BY AwayInvStep, CallOrderInvStep, OneDeviceInvStep, ConnectionInvStep, SessionInvStep, WalletInvStep
<1>3. PatienceInv' /\ LogoutInv' /\ TrackedInv' /\ AwaitedInv'
  BY PatienceInvStep, LogoutInvStep, TrackedInvStep, AwaitedInvStep
<1>4. QED
  BY <1>1, <1>2, <1>3 DEF PageInv

(* The invariant holds of every page. *)
LEMMA PageInvHolds == ProviderSpec => []PageInv
  BY InitPageInv, PageInvStep, PTL DEF ProviderSpec

-----------------------------------------------------------------------------
(* What the page promises. *)

(* Every variable of the page has its type: no call, effect or logout names a session that has not been, and what is
   being stopped is a connect call (keyway-provider.tsx, KeyWayProvider). *)
THEOREM PageTypes == ProviderSpec => []PageTypeOK
<1>1. PageInv => PageTypeOK
  BY DEF PageInv
<1>2. QED
  BY <1>1, PageInvHolds, PTL

(* The wallet on show is the signed-in user's: a superseded connect call and a bootstrap that answers after its
   effect was cleaned up show none (connectKeyWay's onWalletReady and the authenticated effect). *)
THEOREM WalletIsOwn == ProviderSpec => []OwnWallet
<1>1. PageInv => OwnWallet
  BY DEF PageInv, WalletInv, OwnWallet
<1>2. QED
  BY <1>1, PageInvHolds, PTL

(* No call, disconnect, logout or effect of a patient app leaves a node with the device behind that nobody can stop:
   only a node whose stop was rejected runs on, and that one has let the device go. *)
THEOREM NodesAreTracked == ProviderSpec => []NoStrayNode
<1>1. PageInv => NoStrayNode
  BY DEF PageInv, TrackedInv, NoStrayNode
<1>2. QED
  BY <1>1, PageInvHolds, PTL

(* When leaveForJoyId lets the page go, everything is over: no payment, no node with the device, and the one it
   stopped is down. *)
LEMMA LeavesWithNothing ==
    ASSUME PageInv, LeavesPage, Patient, "ends" \notin habits
    PROVE  ~paying /\ \A i \in RunIds : ~HasDevice(i) /\ (i = leave.conn => runs[i].node = "none")
<1>1. leave.pc = "stopping" /\ leave.conn \notin asked /\ ~Rejected(leave.conn)
  BY DEF LeavesPage
<1>2. ~paying /\ stops = {} /\ out.pc = "none"
  BY <1>1 DEF PageInv, PatienceInv
<1>3. conn = 0 /\ \A i \in RunIds : runs[i].pc \in Over
  BY <1>1 DEF PageInv, LogoutInv
<1>4. \A i \in RunIds : ~HasDevice(i)
  <2>1. SUFFICES ASSUME NEW i \in RunIds, HasDevice(i) PROVE FALSE
    OBVIOUS
  <2>2. 0 \notin RunIds
    BY CallNumbers DEF PageInv, PageTypeOK
  <2>3. i \in asked
    BY <1>3, <2>1, <2>2 DEF PageInv, TrackedInv, Over
  <2>4. QED
    BY <1>1, <1>2, <1>3, <2>1, <2>2, <2>3 DEF PageInv, AwaitedInv, Over
<1>5. \A i \in RunIds : i = leave.conn => runs[i].node = "none"
  BY <1>1, <1>4, CallNumbers DEF PageInv, PageTypeOK, ConnectCalls, HasDevice, Rejected
<1>6. QED
  BY <1>2, <1>4, <1>5

(* A patient app's page leaves for JoyID with its node stopped and in the middle of no payment (leaveForJoyId
   waits for the operation before it, and for the stop; if the stop is rejected the page stays). *)
THEOREM LeavesWithNodeStopped == ProviderSpec => LeavesStopped
<1>1. PageInv =>
          [LeavesPage /\ Patient /\ "ends" \notin habits =>
           ~paying /\ \A i \in RunIds : ~HasDevice(i) /\ (i = leave.conn => runs[i].node = "none")]_providerVars
  BY LeavesWithNothing
<1>2. QED
  BY <1>1, PageInvHolds, PTL DEF LeavesStopped
=============================================================================
