--------------------------- MODULE NodeLifecycle ---------------------------
(***************************************************************************)
(* The browser Fiber node of one page: createNodeLifecycle                 *)
(* (sdk/browser/node-lifecycle.ts) with the parts createKeyWay gives it.   *)
(*                                                                         *)
(* A start(), a stop() and a logout() are async functions: each runs up to *)
(* its next await and then lets the others run.  One action is one such    *)
(* stretch.  A call is a process, an element of Runs (start calls that     *)
(* make an entry; other start calls join one or return at once) or of      *)
(* Stops (stop and logout calls); its promise has settled when its pc is   *)
(* "settled" or "failed".                                                  *)
(*                                                                         *)
(* The WASM node (@fiber-pay/sdk) is outside the repository.  It is        *)
(* modelled from how the lifecycle uses it: a stop doesn't cancel a start  *)
(* that is still unlocking the key, a stop that finds the node not running *)
(* returns at once, and a stop it has to wait for may be rejected, with    *)
(* the node still up.                                                      *)
(***************************************************************************)
EXTENDS Naturals, FiniteSets

CONSTANTS
    Runs,            \* the start() calls that make an entry
    Stops,           \* the stop() and logout() calls
    MaxCalls,        \* bound on the watchtower calls the node sends
    None

ASSUME LifecycleAssumption ==
    /\ Runs \cap Stops = {}
    /\ None \notin Runs \cup Stops
    /\ MaxCalls \in Nat

Calls == Runs \cup Stops

VARIABLES
    generation,      \* bumped by every stop
    starting,        \* the run of the start in progress, or None
    stopping,        \* the stop or logout in progress, or None
    pc,              \* where each call is
    calledAt,        \* a run's `startedAt`; for a stop, the generation it made
    before,          \* the promises a call waits for before it does anything
    overtakenStart,  \* the run a stop overtook, as a set of at most one
    kind,            \* "stop", "logout", or "rejected": a stop whose
                     \* node.stop() was rejected
    copy,            \* how many watchtower calls a logout's backup holds
    node,            \* the WASM node
    timers,          \* the sweep and watchtower timers (~watchStopped)
    pass,            \* a watchtower pass is in progress (watchPass)
    bridge,          \* the watchtower bridge: closed, open or draining
    queue,           \* calls the bridge received and has not stored yet
    stored,          \* calls in the watchtower store
    refused,         \* calls the store would not take: the node was told so
    lost,            \* calls sent while no bridge listened
    lock,            \* the Web Lock: free, ours, or another tab's
    lease,           \* whether deviceLease is set
    backup,          \* how many calls the last saved backup holds
    leftUp           \* history: a stop or logout that failed, or a stop whose
                     \* failure was swallowed, has left the node up

callVars == <<generation, starting, stopping, calledAt, before, overtakenStart>>
bridgeVars == <<bridge, queue, stored, refused, lost>>
deviceVars == <<lock, lease>>
vars == <<callVars, pc, kind, copy, node, timers, pass, bridgeVars, deviceVars,
          backup, leftUp>>

Claiming == {"locking", "leasing", "restoring"}
WithNode == {"nodeStart", "nodeStarted", "undoing"}
Releasing == {"closeBridge", "draining", "release", "releasing"}
Done == {"settled", "failed"}
RunPc == {"idle", "waiting", "finished"} \cup Claiming \cup WithNode
         \cup Releasing \cup Done
StopPc == {"idle", "waiting", "timers", "stopNode", "nodeStopping",
           "awaitStart", "loadKey", "backupStopNode", "backupNodeStopping",
           "backupDraining", "copy", "save", "finished", "failing"}
          \cup Releasing \cup Done

Settled(c) == pc[c] \in Done
Unsettled(c) == pc[c] \notin Done \cup {"idle"}
Overtaken(r) == calledAt[r] # generation
Sent == queue + stored + refused + lost
IsRunning == node = "up"

Present(c) == {c} \ {None}

Init ==
    /\ generation = 0
    /\ starting = None
    /\ stopping = None
    /\ pc = [c \in Calls |-> "idle"]
    /\ calledAt = [c \in Calls |-> 0]
    /\ before = [c \in Calls |-> {}]
    /\ overtakenStart = [s \in Stops |-> {}]
    /\ kind = [s \in Stops |-> "stop"]
    /\ copy = [s \in Stops |-> 0]
    /\ node = "down"
    /\ timers = FALSE
    /\ pass = FALSE
    /\ bridge = "closed"
    /\ queue = 0
    /\ stored = 0
    /\ refused = 0
    /\ lost = 0
    /\ lock = "free"
    /\ lease = FALSE
    /\ backup = 0
    /\ leftUp = FALSE

-----------------------------------------------------------------------------
(* Start calls *)

Goto(c, label) == pc' = [pc EXCEPT ![c] = label]

(* start(): a running node with no stop in progress answers at once, and a
   start of this generation is joined; only another call makes an entry. *)
Start(r) ==
    /\ pc[r] = "idle"
    /\ ~(IsRunning /\ stopping = None)
    /\ ~(starting # None /\ calledAt[starting] = generation)
    /\ Goto(r, "waiting")
    /\ starting' = r
    /\ calledAt' = [calledAt EXCEPT ![r] = generation]
    /\ before' = [before EXCEPT ![r] = Present(starting) \cup Present(stopping)]
    /\ UNCHANGED <<generation, stopping, overtakenStart, kind, copy, node,
                   timers, pass, bridgeVars, deviceVars, backup, leftUp>>

(* Mutant: run() without `before`, the promises of the calls made earlier. *)
BeginRunAtOnce(r) ==
    /\ pc[r] = "waiting"
    /\ Goto(r, IF Overtaken(r) THEN "finished" ELSE "locking")
    /\ UNCHANGED <<callVars, kind, copy, node, timers, pass, bridgeVars,
                   deviceVars, backup, leftUp>>

(* Mutant: run() waits until `stopping` is unset, whichever stop that is. *)
BeginRunWhenNoneStopping(r) ==
    /\ pc[r] = "waiting"
    /\ stopping = None
    /\ \A c \in before[r] : Settled(c)
    /\ Goto(r, IF Overtaken(r) THEN "finished" ELSE "locking")
    /\ UNCHANGED <<callVars, kind, copy, node, timers, pass, bridgeVars,
                   deviceVars, backup, leftUp>>

(* run(): nothing is claimed for a start that a stop overtook. *)
BeginRun(r) ==
    /\ pc[r] = "waiting"
    /\ \A c \in before[r] : Settled(c)
    /\ Goto(r, IF Overtaken(r) THEN "finished" ELSE "locking")
    /\ UNCHANGED <<callVars, kind, copy, node, timers, pass, bridgeVars,
                   deviceVars, backup, leftUp>>

(* Where run()'s catch block goes on: the stop that overtook a start lets go
   of the device itself. *)
CatchLabel(r) == IF Overtaken(r) THEN "finished" ELSE "closeBridge"

(* acquireDeviceLock asks for the Web Lock only if it is available. *)
AcquireLock(r) ==
    /\ pc[r] = "locking"
    /\ \/ /\ lock = "free"
          /\ lock' = "ours"
          /\ Goto(r, "leasing")
       \/ /\ lock # "free"
          /\ Goto(r, CatchLabel(r))
          /\ UNCHANGED lock
    /\ UNCHANGED <<callVars, kind, copy, node, timers, pass, bridgeVars, lease,
                   backup, leftUp>>

(* acquireDeviceLease: the server grants the lease or refuses it. *)
AcquireLease(r) ==
    /\ pc[r] = "leasing"
    /\ \/ /\ lease' = TRUE
          /\ Goto(r, "restoring")
       \/ /\ Goto(r, CatchLabel(r))
          /\ UNCHANGED lease
    /\ UNCHANGED <<callVars, kind, copy, node, timers, pass, bridgeVars, lock,
                   backup, leftUp>>

(* The claim ends with the restore of a node backup when one is due, which
   may fail.  A start that was overtaken meanwhile does not open the bridge. *)
EndClaim(r) ==
    /\ pc[r] = "restoring"
    /\ \/ /\ ~Overtaken(r)
          /\ bridge' = "open"
          /\ Goto(r, "nodeStart")
       \/ /\ Goto(r, CatchLabel(r))
          /\ UNCHANGED bridge
    /\ UNCHANGED <<callVars, kind, copy, node, timers, pass, queue, stored,
                   refused, lost, deviceVars, backup, leftUp>>

(* node.start(): the node comes up, or the start is rejected. *)
NodeStart(r) ==
    /\ pc[r] = "nodeStart"
    /\ \/ /\ node' = "up"
          /\ Goto(r, "nodeStarted")
       \/ /\ Goto(r, CatchLabel(r))
          /\ UNCHANGED node
    /\ UNCHANGED <<callVars, kind, copy, timers, pass, bridgeVars, deviceVars,
                   backup, leftUp>>

(* node.stop(), up to where it waits: a node that isn't running needs nothing. *)
CallNodeStop(c, waiting, next) ==
    /\ Goto(c, IF IsRunning THEN waiting ELSE next)
    /\ node' = IF IsRunning THEN "stopping" ELSE node

(* How it ends: the node is down, or the call is rejected and leaves it up. *)
NodeIsDown == node = "down" /\ UNCHANGED <<node, leftUp>>

NodeStopRejected ==
    /\ node' = IF node = "stopping" THEN "up" ELSE node
    /\ leftUp' = (leftUp \/ node # "down")

(* Mutant: a start does not look whether it was overtaken meanwhile. *)
AfterNodeStartUnchecked(r) ==
    /\ pc[r] = "nodeStarted"
    /\ timers' = (timers \/ IsRunning)
    /\ Goto(r, "finished")
    /\ UNCHANGED <<callVars, kind, copy, node, pass, bridgeVars, deviceVars,
                   backup, leftUp>>

(* After node.start(): an overtaken start stops its node again, another one
   starts the timers (startSweeping checks isRunning). *)
AfterNodeStart(r) ==
    /\ pc[r] = "nodeStarted"
    /\ IF Overtaken(r)
       THEN CallNodeStop(r, "undoing", "finished") /\ UNCHANGED timers
       ELSE /\ timers' = (timers \/ IsRunning)
            /\ Goto(r, "finished")
            /\ UNCHANGED node
    /\ UNCHANGED <<callVars, kind, copy, pass, bridgeVars, deviceVars, backup, leftUp>>

(* ...and swallows the failure of that stop. *)
Undone(r) ==
    /\ pc[r] = "undoing"
    /\ Goto(r, "finished")
    /\ NodeIsDown \/ NodeStopRejected
    /\ UNCHANGED <<callVars, kind, copy, timers, pass, bridgeVars, deviceVars,
                   backup>>

(* The entry's `clear` handler: the start has settled, one way or the other. *)
SettleRun(r) ==
    /\ pc[r] = "finished"
    /\ Goto(r, "settled")
    /\ starting' = IF starting = r THEN None ELSE starting
    /\ UNCHANGED <<generation, stopping, calledAt, before, overtakenStart, kind,
                   copy, node, timers, pass, bridgeVars, deviceVars, backup, leftUp>>

-----------------------------------------------------------------------------
(* releaseGuards: drain the bridge, then let go of the device *)

(* closeWatchtowerBridge stops listening; overlapping callers share a drain. *)
CloseBridge(c) ==
    /\ pc[c] = "closeBridge"
    /\ bridge' = IF bridge = "open" THEN "draining" ELSE bridge
    /\ Goto(c, "draining")
    /\ UNCHANGED <<callVars, kind, copy, node, timers, pass, queue, stored,
                   refused, lost, deviceVars, backup, leftUp>>

BridgeClosed(c) ==
    /\ pc[c] = "draining"
    /\ bridge # "draining"
    /\ Goto(c, "release")
    /\ UNCHANGED <<callVars, kind, copy, node, timers, pass, bridgeVars,
                   deviceVars, backup, leftUp>>

(* release(): the flush of the remote watchtower is bounded by 10 s; then the
   page forgets the lease and asks for both to be released. *)
ForgetLease(c) ==
    /\ pc[c] = "release"
    /\ lease' = FALSE
    /\ Goto(c, "releasing")
    /\ UNCHANGED <<callVars, kind, copy, node, timers, pass, bridgeVars, lock,
                   backup, leftUp>>

ReleaseLock(c) ==
    /\ pc[c] = "releasing"
    /\ lock' = IF lock = "ours" THEN "free" ELSE lock
    /\ Goto(c, "finished")
    /\ UNCHANGED <<callVars, kind, copy, node, timers, pass, bridgeVars, lease,
                   backup, leftUp>>

ReleaseGuards(c) ==
    CloseBridge(c) \/ BridgeClosed(c) \/ ForgetLease(c) \/ ReleaseLock(c)

-----------------------------------------------------------------------------
(* Stop and logout calls *)

(* stopping_(): overtakes the start in progress; later starts wait for it. *)
CallStop(s, k) ==
    /\ pc[s] = "idle"
    /\ generation' = generation + 1
    /\ calledAt' = [calledAt EXCEPT ![s] = generation + 1]
    /\ before' = [before EXCEPT ![s] = Present(stopping)]
    /\ overtakenStart' = [overtakenStart EXCEPT ![s] = Present(starting)]
    /\ kind' = [kind EXCEPT ![s] = k]
    /\ stopping' = s
    /\ Goto(s, "waiting")
    /\ UNCHANGED <<starting, copy, node, timers, pass, bridgeVars, deviceVars,
                   backup, leftUp>>

(* Both kinds begin by stopping the timers... *)
StopTimers(s) ==
    /\ pc[s] = "waiting"
    /\ \A c \in before[s] : Settled(c)
    /\ timers' = FALSE
    /\ Goto(s, "timers")
    /\ UNCHANGED <<callVars, kind, copy, node, pass, bridgeVars, deviceVars,
                   backup, leftUp>>

(* ...and waiting for a watchtower pass in progress. *)
TimersStopped(s) ==
    /\ pc[s] = "timers"
    /\ ~pass
    /\ Goto(s, IF kind[s] = "logout" THEN "awaitStart" ELSE "stopNode")
    /\ UNCHANGED <<callVars, kind, copy, node, timers, pass, bridgeVars,
                   deviceVars, backup, leftUp>>

StopNode(s) ==
    /\ pc[s] = "stopNode"
    /\ CallNodeStop(s, "nodeStopping", "awaitStart")
    /\ UNCHANGED <<callVars, kind, copy, timers, pass, bridgeVars, deviceVars,
                   backup, leftUp>>

(* `finally`: a stop whose node.stop() is rejected waits for the start and
   lets go of the device like any other, and then fails. *)
NodeStopped(s) ==
    /\ pc[s] = "nodeStopping"
    /\ Goto(s, "awaitStart")
    /\ \/ NodeIsDown /\ UNCHANGED kind
       \/ NodeStopRejected /\ kind' = [kind EXCEPT ![s] = "rejected"]
    /\ UNCHANGED <<callVars, copy, timers, pass, bridgeVars, deviceVars, backup>>

(* Mutant: a stop releases the guards without waiting for the start. *)
StartNotAwaited(s) ==
    /\ pc[s] = "awaitStart"
    /\ IF kind[s] = "logout" /\ lease
       THEN Goto(s, "loadKey")
       ELSE Goto(s, "closeBridge")
    /\ UNCHANGED <<callVars, kind, copy, node, timers, pass, bridgeVars,
                   deviceVars, backup, leftUp>>

(* The overtaken start has settled.  A stop lets go of the device.  A logout
   backs up first if the page holds a lease; with nothing to back up it goes
   on as a plain stop. *)
StartSettled(s) ==
    /\ pc[s] = "awaitStart"
    /\ \A r \in overtakenStart[s] : Settled(r)
    /\ \/ /\ kind[s] # "logout"
          /\ Goto(s, "closeBridge")
          /\ UNCHANGED <<kind, timers>>
       \/ /\ kind[s] = "logout" /\ lease
          /\ Goto(s, "loadKey")
          /\ UNCHANGED <<kind, timers>>
       \/ /\ kind[s] = "logout" /\ ~lease
          /\ kind' = [kind EXCEPT ![s] = "stop"]
          /\ timers' = FALSE
          /\ Goto(s, "timers")
    /\ UNCHANGED <<callVars, copy, node, pass, bridgeVars, deviceVars, backup, leftUp>>

(* backUpBeforeLogout: without the Fiber key the logout fails as it stands. *)
LoadKey(s) ==
    /\ pc[s] = "loadKey"
    /\ \/ Goto(s, "backupStopNode") /\ UNCHANGED leftUp
       \/ Goto(s, "failing") /\ leftUp' = (leftUp \/ node # "down")
    /\ UNCHANGED <<callVars, kind, copy, node, timers, pass, bridgeVars,
                   deviceVars, backup>>

BackupStopNode(s) ==
    /\ pc[s] = "backupStopNode"
    /\ IF IsRunning
       THEN /\ node' = "stopping"
            /\ Goto(s, "backupNodeStopping")
            /\ UNCHANGED bridge
       ELSE /\ bridge' = IF bridge = "open" THEN "draining" ELSE bridge
            /\ Goto(s, "backupDraining")
            /\ UNCHANGED node
    /\ UNCHANGED <<callVars, kind, copy, timers, pass, queue, stored, refused, lost,
                   deviceVars, backup, leftUp>>

(* stopNodeAndDrain: a rejected node.stop() fails the logout, device claimed. *)
BackupNodeStopped(s) ==
    /\ pc[s] = "backupNodeStopping"
    /\ \/ /\ NodeIsDown
          /\ bridge' = IF bridge = "open" THEN "draining" ELSE bridge
          /\ Goto(s, "backupDraining")
       \/ NodeStopRejected /\ Goto(s, "failing") /\ UNCHANGED bridge
    /\ UNCHANGED <<callVars, kind, copy, timers, pass, queue, stored, refused,
                   lost, deviceVars, backup>>

(* Mutant: the backup does not wait for the drain. *)
BackupNotDrained(s) ==
    /\ pc[s] = "backupDraining"
    /\ Goto(s, "copy")
    /\ UNCHANGED <<callVars, kind, copy, node, timers, pass, bridgeVars,
                   deviceVars, backup, leftUp>>

BackupDrained(s) ==
    /\ pc[s] = "backupDraining"
    /\ bridge # "draining"
    /\ Goto(s, "copy")
    /\ UNCHANGED <<callVars, kind, copy, node, timers, pass, bridgeVars,
                   deviceVars, backup, leftUp>>

(* createBackup reads the page's databases, the watchtower store included... *)
CreateBackup(s) ==
    /\ pc[s] = "copy"
    /\ copy' = [copy EXCEPT ![s] = stored]
    /\ Goto(s, "save")
    /\ UNCHANGED <<callVars, kind, node, timers, pass, bridgeVars, deviceVars,
                   backup, leftUp>>

(* Mutant: ownership is released even if the upload failed. *)
SaveBackupOrNot(s) ==
    /\ pc[s] = "save"
    /\ Goto(s, "closeBridge")
    /\ backup' \in {copy[s], backup}
    /\ UNCHANGED <<callVars, kind, copy, node, timers, pass, bridgeVars,
                   deviceVars, leftUp>>

(* ...and saveBackup uploads them.  If it fails, the device stays claimed. *)
SaveBackup(s) ==
    /\ pc[s] = "save"
    /\ \/ /\ backup' = copy[s]
          /\ Goto(s, "closeBridge")
       \/ /\ Goto(s, "failing")
          /\ UNCHANGED backup
    /\ UNCHANGED <<callVars, kind, copy, node, timers, pass, bridgeVars,
                   deviceVars, leftUp>>

(* stopping_'s `clear` handler. *)
SettleStop(s) ==
    /\ pc[s] \in {"finished", "failing"}
    /\ Goto(s, IF pc[s] = "finished" /\ kind[s] # "rejected"
               THEN "settled" ELSE "failed")
    /\ stopping' = IF stopping = s THEN None ELSE stopping
    /\ UNCHANGED <<generation, starting, calledAt, before, overtakenStart, kind,
                   copy, node, timers, pass, bridgeVars, deviceVars, backup, leftUp>>

-----------------------------------------------------------------------------
(* What runs beside the calls *)

NodeDown ==
    /\ node = "stopping"
    /\ node' = "down"
    /\ UNCHANGED <<callVars, pc, kind, copy, timers, pass, bridgeVars,
                   deviceVars, backup, leftUp>>

(* The node sends a watchtower call; only an open bridge listens. *)
SendCall ==
    /\ node # "down"
    /\ Sent < MaxCalls
    /\ IF bridge = "open"
       THEN queue' = queue + 1 /\ UNCHANGED lost
       ELSE lost' = lost + 1 /\ UNCHANGED queue
    /\ UNCHANGED <<callVars, pc, kind, copy, node, timers, pass, bridge, stored,
                   refused, deviceVars, backup, leftUp>>

(* The next call in the queue is stored, or handling it throws: then it is
   answered with the error and the queue goes on. *)
StoreCall ==
    /\ queue > 0
    /\ queue' = queue - 1
    /\ \/ stored' = stored + 1 /\ UNCHANGED refused
       \/ refused' = refused + 1 /\ UNCHANGED stored
    /\ UNCHANGED <<callVars, pc, kind, copy, node, timers, pass, bridge, lost,
                   deviceVars, backup, leftUp>>

BridgeDrained ==
    /\ bridge = "draining"
    /\ queue = 0
    /\ bridge' = "closed"
    /\ UNCHANGED <<callVars, pc, kind, copy, node, timers, pass, queue, stored,
                   refused, lost, deviceVars, backup, leftUp>>

(* watchNow: one pass at a time, none once the timers are stopped. *)
WatchNow ==
    /\ timers /\ ~pass /\ IsRunning
    /\ pass' = TRUE
    /\ UNCHANGED <<callVars, pc, kind, copy, node, timers, bridgeVars,
                   deviceVars, backup, leftUp>>

EndPass ==
    /\ pass
    /\ pass' = FALSE
    /\ UNCHANGED <<callVars, pc, kind, copy, node, timers, bridgeVars,
                   deviceVars, backup, leftUp>>

(* The same identity in another tab of this browser. *)
OtherTab ==
    /\ \/ lock = "free" /\ lock' = "other"
       \/ lock = "other" /\ lock' = "free"
    /\ UNCHANGED <<callVars, pc, kind, copy, node, timers, pass, bridgeVars,
                   lease, backup, leftUp>>

-----------------------------------------------------------------------------

RunStep(r) ==
    \/ BeginRun(r) \/ AcquireLock(r) \/ AcquireLease(r) \/ EndClaim(r)
    \/ NodeStart(r) \/ AfterNodeStart(r) \/ Undone(r) \/ SettleRun(r)
    \/ ReleaseGuards(r)

StopStep(s) ==
    \/ StopTimers(s) \/ TimersStopped(s) \/ StopNode(s) \/ NodeStopped(s)
    \/ StartSettled(s) \/ LoadKey(s) \/ BackupStopNode(s)
    \/ BackupNodeStopped(s) \/ BackupDrained(s) \/ CreateBackup(s)
    \/ SaveBackup(s) \/ SettleStop(s) \/ ReleaseGuards(s)

Background == NodeDown \/ SendCall \/ StoreCall \/ BridgeDrained \/ WatchNow
              \/ EndPass \/ OtherTab

Next ==
    \/ \E r \in Runs : Start(r) \/ RunStep(r)
    \/ \E s \in Stops : CallStop(s, "stop") \/ CallStop(s, "logout")
                        \/ StopStep(s)
    \/ Background

Spec == Init /\ [][Next]_vars

(* The event loop runs every continuation, and every call to the node, the
   store, the browser and the server is answered one way or another.  Nobody
   is obliged to call start(), stop() or logout(). *)
Fairness ==
    /\ \A r \in Runs : WF_vars(RunStep(r))
    /\ \A s \in Stops : WF_vars(StopStep(s))
    /\ WF_vars(NodeDown)
    /\ WF_vars(StoreCall)
    /\ WF_vars(BridgeDrained)
    /\ WF_vars(EndPass)

FairSpec == Spec /\ Fairness

-----------------------------------------------------------------------------
(* Properties *)

(* Every variable has its type. *)
TypeOK ==
    /\ generation \in Nat
    /\ starting \in Runs \cup {None}
    /\ stopping \in Stops \cup {None}
    /\ pc \in [Calls -> RunPc \cup StopPc]
    /\ \A r \in Runs : pc[r] \in RunPc
    /\ \A s \in Stops : pc[s] \in StopPc
    /\ calledAt \in [Calls -> Nat]
    /\ before \in [Calls -> SUBSET Calls]
    /\ overtakenStart \in [Stops -> SUBSET Runs]
    /\ kind \in [Stops -> {"stop", "logout", "rejected"}]
    /\ copy \in [Stops -> Nat]
    /\ node \in {"down", "up", "stopping"}
    /\ timers \in BOOLEAN
    /\ pass \in BOOLEAN
    /\ bridge \in {"closed", "open", "draining"}
    /\ queue \in Nat
    /\ stored \in Nat
    /\ refused \in Nat
    /\ lost \in Nat
    /\ lock \in {"free", "ours", "other"}
    /\ lease \in BOOLEAN
    /\ backup \in Nat
    /\ leftUp \in BOOLEAN

(* While the node is up, or a start may still bring it up, the page holds the
   Web Lock and the lease and its bridge listens: however starts, stops and
   logouts overtake one another, no stop that succeeds lets go of the device
   under a node (node-lifecycle.ts lines 4-8 and 57).  A node a failed stop
   left up is excepted: a stop whose node.stop() is rejected releases the
   device all the same (line 115), an overtaken start swallows the rejection
   (line 59), and a logout that cannot load the Fiber key or stop the node
   leaves a node under which the next start, refused the lock its own page
   holds, releases the device. *)
NodeHoldsDevice ==
    ~leftUp /\ (node # "down" \/ \E r \in Runs : pc[r] \in WithNode)
        => lock = "ours" /\ lease /\ bridge = "open"

(* Two calls never claim and release the device at once (line 44). *)
NeverClaimAndRelease ==
    \A c, d \in Calls :
        c # d => ~(/\ pc[c] \in Claiming \cup Releasing
                   /\ pc[d] \in Claiming \cup Releasing)

(* The backup a logout uploads holds every watchtower call the node ever
   sent and was not told had failed: none is queued, lost or still to come
   when it is made.  (A node that a failed stop left up may send into a
   closed bridge.) *)
BackupHoldsEveryCall ==
    ~leftUp =>
        \A s \in Stops :
            pc[s] = "save" => copy[s] + refused = Sent /\ node = "down"

(* A logout of a claimed device lets go of it only after a saved backup that
   holds everything in the store. *)
BackedUpBeforeRelease ==
    \A s \in Stops :
        kind[s] = "logout" /\ pc[s] \in Releasing => backup = stored

(* Once every stop called so far has succeeded and nobody called start() since
   the last of them, nothing is left: no start in progress, the node down,
   the bridge closed, the device free of this page.  (A stop that was rejected
   has not succeeded; an overtaken start that swallows the rejection leaves
   its node up although the stop that awaited it succeeds.) *)
StopIsFinal ==
    (/\ ~leftUp /\ generation > 0
     /\ \A s \in Stops : pc[s] \in {"idle", "settled"}
     /\ \A r \in Runs : pc[r] = "idle" \/ calledAt[r] < generation)
        => /\ \A r \in Runs : ~Unsettled(r)
           /\ node = "down" /\ ~timers /\ bridge = "closed"
           /\ ~lease /\ lock # "ours"

(* Every start, stop and logout settles: the promises they wait for never
   form a cycle, in whatever order they are called. *)
EveryCallSettles ==
    \A c \in Calls : pc[c] = "waiting" ~> Settled(c)

-----------------------------------------------------------------------------
(* The inductive invariant behind the safety properties (proved inductive in
   NodeLifecycleProofs): promises form chains, and the device follows them. *)

(* What a stop does before it has waited for the start it overtook. *)
BeforeAwait == {"waiting", "timers", "stopNode", "nodeStopping", "awaitStart"}

(* Calls wait only for calls that were made, and made no later. *)
WaitsForCalled ==
    /\ \A c \in Calls : calledAt[c] <= generation
    /\ \A c \in Calls : \A d \in before[c] : pc[d] # "idle"
    /\ \A s \in Stops : \A r \in overtakenStart[s] : pc[r] # "idle"

(* `starting` and `stopping` name the newest call that has not settled. *)
NewestStop ==
    IF stopping = None
    THEN \A s \in Stops : ~Unsettled(s)
    ELSE /\ Unsettled(stopping)
         /\ \A s \in Stops :
                Unsettled(s) => calledAt[s] <= calledAt[stopping]

NewestStart ==
    IF starting = None
    THEN \A r \in Runs : ~Unsettled(r)
    ELSE /\ Unsettled(starting)
         /\ \A r \in Runs :
                Unsettled(r) => calledAt[r] <= calledAt[starting]

(* c waits, directly or through a later one, for every earlier d. *)
WaitsFor(c, d, promises) ==
    \E e \in promises : Unsettled(e) /\ calledAt[e] >= calledAt[d]

StopsInOrder ==
    \A s, t \in Stops :
        s # t /\ Unsettled(s) /\ Unsettled(t)
        => /\ calledAt[s] # calledAt[t]
           /\ calledAt[s] > calledAt[t] =>
                pc[s] = "waiting" /\ WaitsFor(s, t, before[s] \cap Stops)

StartsInOrder ==
    \A r, q \in Runs :
        r # q /\ Unsettled(r) /\ Unsettled(q)
        => /\ calledAt[r] # calledAt[q]
           /\ calledAt[r] > calledAt[q] =>
                pc[r] = "waiting" /\ WaitsFor(r, q, before[r] \cap Runs)

StartAfterStop ==
    \A r \in Runs, s \in Stops :
        Unsettled(r) /\ Unsettled(s) /\ calledAt[r] >= calledAt[s]
        => pc[r] = "waiting" /\ WaitsFor(r, s, before[r] \cap Stops)

StopAfterStart ==
    \A r \in Runs, s \in Stops :
        Unsettled(r) /\ Unsettled(s) /\ calledAt[r] < calledAt[s]
        => pc[s] \in BeforeAwait /\ WaitsFor(s, r, overtakenStart[s])

(* A start in progress was overtaken by a stop that is still in progress. *)
OvertakenByStop ==
    \A r \in Runs :
        Unsettled(r) /\ Overtaken(r)
        => \E s \in Stops : Unsettled(s) /\ calledAt[s] > calledAt[r]

OrderInv ==
    /\ TypeOK /\ WaitsForCalled /\ NewestStop /\ NewestStart /\ StopsInOrder
    /\ StartsInOrder /\ StartAfterStop /\ StopAfterStart /\ OvertakenByStop

(* What a start has claimed so far. *)
ClaimedSoFar ==
    \A r \in Runs :
        /\ pc[r] \in {"leasing", "restoring"} \cup WithNode => lock = "ours"
        /\ pc[r] \in {"restoring"} \cup WithNode => lease
        /\ pc[r] \in WithNode => bridge = "open"
        /\ pc[r] \in Claiming \cup {"nodeStart"} \cup Releasing => node = "down"
        /\ pc[r] = "undoing" => Overtaken(r)

(* Past this point of a stop, the node is down for good. *)
NodeDownFor ==
    Releasing \cup {"backupDraining", "copy", "save", "finished", "failing"}

StopTakesNodeDown ==
    \A s \in Stops :
        /\ pc[s] \in NodeDownFor => node = "down"
        /\ pc[s] = "awaitStart" /\ kind[s] # "logout" /\ node # "down"
           => \E r \in Runs : pc[r] \in {"nodeStarted", "undoing"}

(* Somebody waits for a node that is stopping. *)
StoppingIsAwaited ==
    node = "stopping"
    => \/ \E r \in Runs : pc[r] = "undoing"
       \/ \E s \in Stops : pc[s] \in {"nodeStopping", "backupNodeStopping"}

(* A start that will claim finds the node down, or a stop taking it down. *)
StartFindsNodeDown ==
    \A r \in Runs :
        pc[r] = "waiting" /\ ~Overtaken(r) /\ node # "down"
        => \E s \in Stops : Unsettled(s)

DeviceInv ==
    /\ node # "down" => lock = "ours" /\ lease /\ bridge = "open"
    /\ ClaimedSoFar /\ StopTakesNodeDown /\ StoppingIsAwaited
    /\ StartFindsNodeDown

(* How far the bridge has drained. *)
BridgeInv ==
    /\ bridge = "closed" => queue = 0
    /\ \A c \in Calls :
        /\ pc[c] \in {"draining", "backupDraining"} => bridge # "open"
        /\ pc[c] \in {"release", "releasing", "copy", "save"}
           => bridge = "closed"
    /\ \A s \in Stops :
        /\ pc[s] = "save" => copy[s] = stored
        /\ kind[s] = "logout" /\ pc[s] \in Releasing
           => bridge = "closed" /\ backup = stored

(* What a stop has put away when it is this far, and what stays away until
   start() is called again. *)
FinalInv ==
    /\ \A s \in Stops :
        /\ pc[s] \notin Done \cup {"idle", "waiting"} => ~timers
        /\ pc[s] \in {"releasing", "finished"} => ~lease
        /\ pc[s] = "finished" => lock # "ours" /\ bridge = "closed"
    /\ StopIsFinal

IInv ==
    /\ OrderInv /\ BridgeInv /\ FinalInv
    /\ ~leftUp => DeviceInv /\ lost = 0

-----------------------------------------------------------------------------
(* What the lifecycle promises, abstractly, until a failed stop leaves a node
   up: see DeviceSession. *)
Session == INSTANCE DeviceSession
    WITH held <- ~leftUp /\ lease,
         up <- ~leftUp /\ node # "down",
         unstored <- IF leftUp THEN 0 ELSE queue + lost,
         broken <- leftUp

SessionSpec == Session!Spec
=============================================================================
