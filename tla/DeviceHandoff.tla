--------------------------- MODULE DeviceHandoff ---------------------------
(***************************************************************************)
(* How a browser account's Fiber state moves between devices: the server's *)
(* bootstrap, device lease and node-backup routes (bootstrap.ts,           *)
(* device-lease.ts, node-backup.ts, user-wallet.ts, http.ts under          *)
(* src/server) and the page that calls them (connect-keyway.ts,            *)
(* create-keyway.ts, node-migration.ts, node-backup.ts, device-lease.ts    *)
(* under src/sdk/browser).  One account, provisioned, with nodeMode        *)
(* "browser"; one page per device, because the page holds a Web Lock while *)
(* its node runs (module NodeLifecycle models that page in detail).        *)
(*                                                                         *)
(* What can go wrong is an old channel state: a node that starts on        *)
(* channel databases older than the account's last update publishes        *)
(* revoked commitments.  So the channel databases are abstracted to a      *)
(* version: 0 for none, 1 for databases without a channel (or with part of *)
(* an import), 2 and more for each later state of the channels.            *)
(***************************************************************************)
EXTENDS Integers, FiniteSets, FiniteSetsExt

CONSTANTS
    Devices,   \* the account's browsers
    MaxState,  \* bound: channel states the nodes reach
    MaxGen,    \* bound: backup generations saved
    Keep,      \* KEYWAY_BACKUP_GENERATIONS
    FaultSets, \* the combinations of failures a behaviour may meet, see FaultKinds
    None       \* no lease, no bootstrap, no copy

(***************************************************************************)
(* "sleep": the browser suspends a page for longer than the lease lasts.   *)
(* "slowSave": a save request the page has given up on is stored later.    *)
(* "bootDies": the server dies between the claim and saveWallet.           *)
(* "unmarked": the tab closes between a channel's opening and its mark.    *)
(* "slowBoot": a bootstrap and a start overlap for longer than usual.      *)
(* "sameInstance": start() again after stopForLogout(), no new bootstrap.  *)
(***************************************************************************)
FaultKinds == {"sleep", "slowSave", "bootDies", "unmarked", "slowBoot",
               "sameInstance"}

VARIABLES
    primary,    \* wallet.primaryDeviceIdHash
    hasOpened,  \* wallet.hasOpenedChannel
    lease,      \* the account's row of keyway_v2_device_leases
    backups,    \* the account's rows of keyway_v2_node_backups
    boot,       \* the bootstrap that holds the user lock
    late,       \* the save that passed its checks and is not inserted yet, if any
    pc,         \* what each device's page is doing
    mustRestore,\* restoreRequired in each page
    copy,       \* the backup each page has loaded
    asleep,     \* the suspended pages
    local,      \* the version of each device's channel databases
    latest,     \* the account's last channel state
    faults      \* the failures of this behaviour, which never change

server == <<primary, hasOpened, lease, backups, boot, late>>
pages == <<pc, mustRestore, copy, asleep>>
state == <<local, latest>>
vars == <<server, pages, state, faults>>

Pages == {"off", "idle", "booting", "leasing", "acquiring", "loading", "restoring",
          "confirming", "starting", "unlocked", "up", "marking", "saving",
          "leaving", "releasing"}

Leases == [dev : Devices, mine : BOOLEAN, live : BOOLEAN]
Statuses == {"available", "claimed", "consumed"}
Backups == [gen : 1..MaxGen, ver : 0..MaxState, src : Devices, status : Statuses,
            by : Devices \cup {None}, expired : BOOLEAN]
Boots == [dev : Devices, leased : Devices \cup {None}, stage : {"read", "consume", "claim", "save"},
          restore : BOOLEAN, heard : BOOLEAN]
Copies == [gen : 1..MaxGen, ver : 0..MaxState]

ASSUME HandoffAssumption ==
    /\ MaxState \in Nat \ {0}
    /\ MaxGen \in Nat \ {0}
    /\ Keep \in Nat \ {0}
    /\ FaultSets \subseteq SUBSET FaultKinds
    /\ None \notin Devices \cup Leases \cup Boots \cup Copies

Init ==
    /\ primary \in Devices
    /\ hasOpened = FALSE
    /\ lease = None
    /\ backups = {}
    /\ boot = None
    /\ late = {}
    /\ pc = [d \in Devices |-> "off"]
    /\ mustRestore = [d \in Devices |-> FALSE]
    /\ copy = [d \in Devices |-> None]
    /\ asleep = {}
    /\ local = [d \in Devices |-> 0]
    /\ latest = 1
    /\ faults \in FaultSets

-----------------------------------------------------------------------------
(* The rows the server reads.                                              *)

NewestGen == IF backups = {} THEN 0 ELSE Max({b.gen : b \in backups})

\* readBackup: the row with the highest generation.
Newest == CHOOSE b \in backups : b.gen = NewestGen

NewestIs(status) == backups # {} /\ Newest.status = status

ClaimedBy(d) == NewestIs("claimed") /\ Newest.by = d

\* readActiveLease: the device of the unexpired lease.
ActiveLease == IF lease # None /\ lease.live THEN lease.dev ELSE None

\* requireLease: the row has this page's lease id and has not expired.
LeaseHeld(d) == lease # None /\ lease.dev = d /\ lease.mine /\ lease.live

\* What the key, save and load routes check before they answer.
Admitted(d) == primary = d /\ LeaseHeld(d)

Awake(d) == d \notin asleep

NodeUp(d) == pc[d] \in {"up", "marking"}

Goto(d, label) == pc' = [pc EXCEPT ![d] = label]

WithNewest(row) == (backups \ {Newest}) \cup {row}

-----------------------------------------------------------------------------
(* Bootstrap, one at a time under the user lock (withUserLock is an        *)
(* advisory lock, not a transaction: each statement commits on its own).   *)

AnswerBoot(d, restore) ==
    /\ boot' = None
    /\ IF boot.heard
       THEN /\ Goto(d, "leasing")
            /\ mustRestore' = [mustRestore EXCEPT ![d] = restore]
       ELSE UNCHANGED <<pc, mustRestore>>

RefuseBoot(d) ==
    /\ boot' = None
    /\ IF boot.heard THEN Goto(d, "off") ELSE UNCHANGED pc
    /\ UNCHANGED mustRestore

\* A page connects: the server takes the lock, reads the wallet and the active lease.
Bootstrap(d) ==
    /\ Awake(d)
    /\ pc[d] \in {"off", "idle"}
    /\ boot = None
    /\ boot' = [dev |-> d, leased |-> ActiveLease, stage |-> "read", restore |-> FALSE, heard |-> TRUE]
    /\ Goto(d, "booting")
    /\ UNCHANGED <<primary, hasOpened, lease, backups, late, mustRestore, copy, asleep, state>>

Booting(d, stage) == boot # None /\ boot.dev = d /\ boot.stage = stage

NextStage(stage, restore) == boot' = [boot EXCEPT !.stage = stage, !.restore = restore]

\* Mutant: a device that claimed the backup before is not told to restore it.
PrepareSameForgetsClaim(d) ==
    /\ primary = d
    /\ IF NewestIs("available") /\ Newest.src = d
       THEN NextStage("consume", FALSE) /\ UNCHANGED <<pc, mustRestore>>
       ELSE AnswerBoot(d, FALSE)

\* prepareBackupForDevice for the device the wallet is bound to.
PrepareSame(d) ==
    /\ primary = d
    /\ IF NewestIs("available") /\ Newest.src = d
       THEN NextStage("consume", FALSE) /\ UNCHANGED <<pc, mustRestore>>
       ELSE AnswerBoot(d, ClaimedBy(d))

\* Mutant: the wallet is bound to a device that claims nothing, although it has a channel.
PrepareOtherUnbound(d) ==
    /\ primary # d
    /\ IF boot.leased \notin {None, d}
       THEN RefuseBoot(d)
       ELSE /\ IF backups # {} /\ ~NewestIs("consumed") THEN NextStage("claim", TRUE) ELSE NextStage("save", FALSE)
            /\ UNCHANGED <<pc, mustRestore>>

\* prepareBackupForDevice for another device, then rebindReadyWallet when there is no backup to claim.
PrepareOther(d) ==
    /\ primary # d
    /\ IF boot.leased \notin {None, d}
       THEN RefuseBoot(d)
       ELSE IF backups # {} /\ ~NewestIs("consumed")
            THEN NextStage("claim", TRUE) /\ UNCHANGED <<pc, mustRestore>>
            ELSE IF hasOpened
                 THEN RefuseBoot(d)
                 ELSE NextStage("save", FALSE) /\ UNCHANGED <<pc, mustRestore>>

BootPrepare(d) ==
    /\ Booting(d, "read")
    /\ PrepareSame(d) \/ PrepareOther(d)
    /\ UNCHANGED <<primary, hasOpened, lease, backups, late, copy, asleep, state>>

\* consumeBackup: this device comes back before any other took its backup.
BootConsume(d) ==
    /\ Booting(d, "consume")
    /\ backups' = WithNewest([Newest EXCEPT !.status = "consumed", !.expired = FALSE])
    /\ AnswerBoot(d, boot.restore)
    /\ UNCHANGED <<primary, hasOpened, lease, late, copy, asleep, state>>

\* The claiming update: the newest backup, if available or its claim expired.
BootClaim(d) ==
    /\ Booting(d, "claim")
    /\ IF NewestIs("available") \/ (NewestIs("claimed") /\ Newest.expired)
       THEN /\ backups' = WithNewest([Newest EXCEPT !.status = "claimed", !.by = d, !.expired = FALSE])
            /\ NextStage("save", TRUE)
            /\ UNCHANGED <<pc, mustRestore>>
       ELSE RefuseBoot(d) /\ UNCHANGED backups
    /\ UNCHANGED <<primary, hasOpened, lease, late, copy, asleep, state>>

\* saveWallet with the new primary device, and the answer.
BootSave(d) ==
    /\ Booting(d, "save")
    /\ primary' = d
    /\ AnswerBoot(d, boot.restore)
    /\ UNCHANGED <<hasOpened, lease, backups, late, copy, asleep, state>>

\* The server process dies after its claim and before saveWallet.
BootDies(d) ==
    /\ "bootDies" \in faults
    /\ Booting(d, "save")
    /\ RefuseBoot(d)
    /\ UNCHANGED <<primary, hasOpened, lease, backups, late, copy, asleep, state>>

-----------------------------------------------------------------------------
(* The page's start: lease, restore, key, node.                            *)

At(d, label) == Awake(d) /\ pc[d] = label

\* The acquire request: deviceLeaseRequest reads the wallet before acquireLease.
AcquireCheck(d) ==
    /\ At(d, "leasing")
    /\ Goto(d, IF primary = d THEN "acquiring" ELSE "idle")
    /\ UNCHANGED <<server, mustRestore, copy, asleep, state>>

\* Mutant: the upsert has no condition on the row it replaces.
AcquireInsertAnyway(d) ==
    /\ At(d, "acquiring")
    /\ \E answered \in BOOLEAN :
          /\ lease' = [dev |-> d, mine |-> answered, live |-> TRUE]
          /\ Goto(d, IF ~answered THEN "idle" ELSE IF mustRestore[d] THEN "loading" ELSE "starting")
    /\ UNCHANGED <<primary, hasOpened, backups, boot, late, mustRestore, copy, asleep, state>>

\* acquireLease: insert, or take over an expired row or this device's own.  The answer may be lost.
AcquireInsert(d) ==
    /\ At(d, "acquiring")
    /\ IF ActiveLease \in {None, d}
       THEN \E answered \in BOOLEAN :
              /\ lease' = [dev |-> d, mine |-> answered, live |-> TRUE]
              /\ Goto(d, IF ~answered THEN "idle" ELSE IF mustRestore[d] THEN "loading" ELSE "starting")
       ELSE Goto(d, "idle") /\ UNCHANGED lease
    /\ UNCHANGED <<primary, hasOpened, backups, boot, late, mustRestore, copy, asleep, state>>

\* loadFiberKey and loadNodeBackup: the newest backup, if this device claimed it.
LoadBackup(d) ==
    /\ At(d, "loading")
    /\ IF Admitted(d) /\ ClaimedBy(d)
       THEN /\ copy' = [copy EXCEPT ![d] = [gen |-> Newest.gen, ver |-> Newest.ver]]
            /\ Goto(d, "restoring")
       ELSE Goto(d, "releasing") /\ UNCHANGED copy
    /\ UNCHANGED <<server, mustRestore, asleep, state>>

\* restoreEncryptedNodeBackup: never over databases the device already has.
RestoreLocal(d) ==
    /\ At(d, "restoring")
    /\ IF local[d] = 0
       THEN /\ local' = [local EXCEPT ![d] = copy[d].ver]
            /\ Goto(d, "confirming")
       ELSE Goto(d, "releasing") /\ UNCHANGED local
    /\ UNCHANGED <<server, mustRestore, copy, asleep, latest>>

\* confirmNodeBackupRequest: checks the lease and the claim, not the wallet.  The answer may be lost.
Confirm(d) ==
    /\ At(d, "confirming")
    /\ copy' = [copy EXCEPT ![d] = None]
    /\ \/ \E b \in backups, answered \in BOOLEAN :
            /\ LeaseHeld(d)
            /\ b.gen = copy[d].gen /\ b.status = "claimed" /\ b.by = d
            /\ backups' = (backups \ {b}) \cup {[b EXCEPT !.status = "consumed", !.expired = FALSE]}
            /\ mustRestore' = [mustRestore EXCEPT ![d] = ~answered]
            /\ Goto(d, IF answered THEN "starting" ELSE "releasing")
       \/ /\ ~ \E b \in backups : LeaseHeld(d) /\ b.gen = copy[d].gen /\ b.status = "claimed" /\ b.by = d
          /\ Goto(d, "releasing")
          /\ UNCHANGED <<backups, mustRestore>>
    /\ UNCHANGED <<primary, hasOpened, lease, boot, late, asleep, state>>

\* fiberKeyRequest: the key is unlocked for the primary device with the lease.
Unlock(d) ==
    /\ At(d, "starting")
    /\ Goto(d, IF Admitted(d) THEN "unlocked" ELSE "releasing")
    /\ UNCHANGED <<server, mustRestore, copy, asleep, state>>

\* node.start(): opens the channel databases, or creates them.  It outlasts the statements of a bootstrap
\* that read the lease before this page had it, except with "slowBoot".
StartNode(d) ==
    /\ At(d, "unlocked")
    /\ boot # None => d \in {boot.dev, boot.leased} \/ "slowBoot" \in faults
    /\ local' = [local EXCEPT ![d] = IF @ = 0 THEN 1 ELSE @]
    /\ Goto(d, "up")
    /\ UNCHANGED <<server, mustRestore, copy, asleep, latest>>

-----------------------------------------------------------------------------
(* The running node.                                                       *)

\* openFundedChannel opens the account's first channel: funding it takes longer than the 30 s in which
\* a page whose wallet was bound to another device fails its heartbeat, except with "slowBoot".
OpenChannel(d) ==
    /\ At(d, "up")
    /\ primary = d \/ "slowBoot" \in faults
    /\ latest = 1 /\ MaxState > 1
    /\ latest' = 2
    /\ local' = [local EXCEPT ![d] = 2]
    /\ Goto(d, "marking")
    /\ UNCHANGED <<server, mustRestore, copy, asleep>>

\* markChannelOpened takes the user lock and checks the primary device.
MarkOpened(d) ==
    /\ At(d, "marking")
    /\ boot = None
    /\ hasOpened' = (hasOpened \/ primary = d)
    /\ Goto(d, "up")
    /\ UNCHANGED <<primary, lease, backups, boot, late, mustRestore, copy, asleep, state>>

\* A payment or any other change of the channels.
UpdateState(d) ==
    /\ At(d, "up")
    /\ local[d] = latest
    /\ latest \in 2..(MaxState - 1)
    /\ latest' = latest + 1
    /\ local' = [local EXCEPT ![d] = latest']
    /\ UNCHANGED <<server, pages>>

-----------------------------------------------------------------------------
(* The page's stop and logout.                                             *)

\* stop(), a failed start's clean-up, or a lost heartbeat (onLost): the node stops, then the guards go.
Stop(d) ==
    /\ Awake(d)
    /\ pc[d] \in {"starting", "unlocked", "up"}
    /\ Goto(d, "releasing")
    /\ UNCHANGED <<server, mustRestore, copy, asleep, state>>

\* stopForLogout: the key (and so the wallet and the lease) first, then the node stops.
\* KeyWayProvider.logout answers a failure with stop() and a new connect().
LogoutBackup(d) ==
    /\ At(d, "up")
    /\ Goto(d, IF Admitted(d) THEN "saving" ELSE "leaving")
    /\ UNCHANGED <<server, mustRestore, copy, asleep, state>>

\* pruneNodeBackups: all but the newest Keep rows, except claimed ones.
Prune(rows) ==
    {b \in rows : b.status = "claimed" \/ Cardinality({r \in rows : r.gen > b.gen}) < Keep}

\* saveNodeBackup: the next generation, available to any device.
Insert(d, ver) ==
    backups' = Prune(backups \cup {[gen |-> NewestGen + 1, ver |-> ver, src |-> d,
                                    status |-> "available", by |-> None, expired |-> FALSE]})

\* saveNodeBackupRequest.  Answered or not, the page goes on to release.
Save(d) ==
    /\ At(d, "saving")
    /\ NewestGen < MaxGen
    /\ IF Admitted(d)
       THEN \/ Insert(d, local[d]) /\ UNCHANGED late
            \/ /\ "slowSave" \in faults
               /\ late = {}  \* bound: one slow save at a time
               /\ late' = {[dev |-> d, ver |-> local[d]]}
               /\ UNCHANGED backups
       ELSE UNCHANGED <<backups, late>>
    /\ Goto(d, "leaving")
    /\ UNCHANGED <<primary, hasOpened, lease, boot, mustRestore, copy, asleep, state>>

\* A save whose page gave up reaches the table.
LateInsert ==
    /\ NewestGen < MaxGen
    /\ \E s \in late : Insert(s.dev, s.ver) /\ late' = late \ {s}
    /\ UNCHANGED <<primary, hasOpened, lease, boot, pages, state>>

\* The release request: refused when the wallet is bound to another device, and it may be lost.
Release(d) ==
    /\ Awake(d)
    /\ pc[d] \in {"leaving", "releasing"}
    /\ \/ primary = d /\ LeaseHeld(d) /\ lease' = None
       \/ lease # None /\ lease.dev = d /\ lease' = [lease EXCEPT !.mine = FALSE]
       \/ (lease # None => lease.dev # d) /\ UNCHANGED lease
    /\ Goto(d, IF pc[d] = "leaving" /\ "sameInstance" \notin faults THEN "off" ELSE "idle")
    /\ copy' = [copy EXCEPT ![d] = None]
    /\ UNCHANGED <<primary, hasOpened, backups, boot, late, mustRestore, asleep, state>>

\* start() again on the instance that stopped: no bootstrap, restoreRequired as it was.
Restart(d) ==
    /\ At(d, "idle")
    /\ Goto(d, "leasing")
    /\ UNCHANGED <<server, mustRestore, copy, asleep, state>>

-----------------------------------------------------------------------------
(* The tab, the clock.                                                     *)

\* The tab closes or crashes.  An import cut short leaves databases behind.
Crash(d) ==
    /\ pc[d] # "off"
    /\ pc[d] = "marking" => "unmarked" \in faults
    /\ Goto(d, "off")
    /\ mustRestore' = [mustRestore EXCEPT ![d] = FALSE]
    /\ copy' = [copy EXCEPT ![d] = None]
    /\ asleep' = asleep \ {d}
    /\ lease' = IF lease # None /\ lease.dev = d THEN [lease EXCEPT !.mine = FALSE] ELSE lease
    /\ boot' = IF boot # None /\ boot.dev = d THEN [boot EXCEPT !.heard = FALSE] ELSE boot
    /\ \/ UNCHANGED local
       \/ pc[d] = "restoring" /\ local[d] = 0 /\ local' = [local EXCEPT ![d] = 1]
    /\ UNCHANGED <<primary, hasOpened, backups, late, latest>>

Sleep(d) ==
    /\ "sleep" \in faults
    /\ Awake(d) /\ NodeUp(d)
    /\ asleep' = asleep \cup {d}
    /\ UNCHANGED <<server, pc, mustRestore, copy, state>>

Wake(d) ==
    /\ d \in asleep
    /\ asleep' = asleep \ {d}
    /\ UNCHANGED <<server, pc, mustRestore, copy, state>>

\* The page of this device holds the lease and its 30 s heartbeat runs.
Beating(d) == LeaseHeld(d) /\ Awake(d)

\* 120 s without a heartbeat.
ExpireLease ==
    /\ lease # None /\ lease.live
    /\ ~Beating(lease.dev)
    /\ lease' = [lease EXCEPT !.live = FALSE, !.mine = FALSE]
    /\ UNCHANGED <<primary, hasOpened, backups, boot, late, pages, state>>

\* 2 minutes since the claim.
ExpireClaim ==
    /\ NewestIs("claimed") /\ ~Newest.expired
    /\ backups' = WithNewest([Newest EXCEPT !.expired = TRUE])
    /\ UNCHANGED <<primary, hasOpened, lease, boot, late, pages, state>>

-----------------------------------------------------------------------------

BootStep(d) ==
    \/ Bootstrap(d) \/ BootPrepare(d) \/ BootConsume(d)
    \/ BootClaim(d) \/ BootSave(d) \/ BootDies(d)

StartStep(d) ==
    \/ AcquireCheck(d) \/ AcquireInsert(d) \/ LoadBackup(d) \/ RestoreLocal(d)
    \/ Confirm(d) \/ Unlock(d) \/ StartNode(d)

RunStep(d) == OpenChannel(d) \/ MarkOpened(d) \/ UpdateState(d)

StopStep(d) == Stop(d) \/ LogoutBackup(d) \/ Save(d) \/ Release(d) \/ Restart(d)

TabStep(d) == Crash(d) \/ Sleep(d) \/ Wake(d)

Next ==
    /\ \/ \E d \in Devices : BootStep(d) \/ StartStep(d) \/ RunStep(d) \/ StopStep(d) \/ TabStep(d)
       \/ LateInsert \/ ExpireLease \/ ExpireClaim
    /\ UNCHANGED faults

Spec == Init /\ [][Next]_vars

-----------------------------------------------------------------------------
(* Properties.                                                             *)

TypeOK ==
    /\ primary \in Devices
    /\ hasOpened \in BOOLEAN
    /\ lease \in Leases \cup {None}
    /\ backups \subseteq Backups
    /\ boot \in Boots \cup {None}
    /\ late \subseteq [dev : Devices, ver : 0..MaxState]
    /\ pc \in [Devices -> Pages]
    /\ mustRestore \in [Devices -> BOOLEAN]
    /\ copy \in [Devices -> Copies \cup {None}]
    /\ asleep \subseteq Devices
    /\ local \in [Devices -> 0..MaxState]
    /\ latest \in 1..MaxState

\* At most one awake browser runs the account's Fiber identity, whatever fails: only a page that slept
\* through its lease can find another one running.
OneNode ==
    "sleep" \notin faults => \A d, e \in Devices : NodeUp(d) /\ NodeUp(e) /\ Awake(d) /\ Awake(e) => d = e

\* A running node has the account's last channel state, as long as nothing fails but what the protocol
\* itself handles: crashes, lost answers, leases and claims that run out.
StartsOnLatest == faults = {} => \A d \in Devices : NodeUp(d) => local[d] = latest

\* Once the account has a channel, its last state is never lost: the device the wallet is bound to has it, or
\* the newest backup does, and it is claimed by that device or by the one the wallet is being bound to.
StateKept ==
    faults \subseteq {"sleep", "unmarked"} /\ hasOpened =>
        \/ local[primary] = latest
        \/ /\ backups # {} /\ Newest.ver = latest
           /\ \/ ClaimedBy(primary)
              \/ boot # None /\ boot.stage = "save" /\ ClaimedBy(boot.dev)
=============================================================================
