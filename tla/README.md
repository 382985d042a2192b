# KeyWay in TLA+

TLA+ models of KeyWay (`ckb-keyway`), checked with TLC and, in all but their liveness, proved with TLAPS for
every value of the constants. KeyWay gives an application a CKB wallet and a Fiber (payment channel) node per
user. The node runs in the user's browser or on KeyWay's host; the server keeps bindings, leases, encrypted
backups, approvals and a watchtower; Lit signs what its policy Action allows.

Paths are relative to the repository, whose root holds `src/sdk`, `src/server`, `managed-host`, `lit-actions`,
`contracts`, `app` and `docs`. `PROJECT.json` has the exact lines behind every definition, the hazards each
property is about, and a plausible bug (a *mutant*) that breaks each property.

## 1. The system

A Fiber node's channel state is worth money in a way ordinary data is not: whoever runs a node on an *old*
copy of it can publish a revoked commitment and lose the channel to the penalty. So the first promise of the
code is that **an account has one node at a time, and it always runs on the last channel state**. The second
is about money: **nothing is paid twice, nothing is signed that was not shown, and what leaves without the
emailed code stays under the user's daily amount**. The third is about loss: **a cheating peer is punished, an
account can be recovered, and the money of a closed channel comes back**.

| Component | State it keeps | Operations | Talks to | Module |
|---|---|---|---|---|
| Browser node lifecycle (`node-lifecycle.ts`, `create-keyway.ts`, `device-lock.ts`, `watchtower-bridge.ts`) | start in progress, newest stop, generation, Web Lock, lease, bridge, timers | `start`, `stop`, `logout` with backup | lease and backup routes; the wasm node | `NodeLifecycle` |
| Device handoff (`bootstrap.ts`, `node-backup.ts`, `device-lease.ts` on both sides) | the wallet's device, `has_opened_channel`, lease, backup generations; databases of each browser | bootstrap, acquire, heartbeat, release, save, claim, confirm, restore | Postgres, Lit, HTTP | `DeviceHandoff` |
| Payments and approvals (`fiber-payments.ts`, `general-signing.ts`, `idempotency.ts`) | pending approvals, 24-hour totals, idempotency records | preview, send, sign, reconcile | hosted node, Lit, mail | `FiberPayments` |
| Hosted nodes (`managed-host/index.mjs`) | fnn processes, ports, per-user queue, directories, snapshots | start, call, snapshot, restore, retire, purge | fnn | `ManagedHost` |
| Remote watchtower queue (`watchtower-remote.ts`, `watchtower-store.ts`) | the newest update of each channel that the server may not have | watch, revoke, unwatch, flush, retry | watchtower routes | `WatchQueue` |
| Server watchtower (`server/watchtower.ts`) | a row per channel, an advisory lock | scan, punish, confirm | chain | `Watchtower` |
| Recovery and legacy sweep (`recovery.ts`, `account-recovery.ts`, `legacy-sweep.ts`) | list of backups, pending change, last sweep | preview, code, apply, settle; sweep | Lit, chain | `Recovery` |
| Backups on chain and the rescue page (`sign-ckb-transaction.js`, `rescue.ts`, `rescue-view.tsx`, `contracts/`) | list cells, codes emailed by Lit, the page's plan | enable, change, send; look up, plan, sign, send | Lit, chain, wallets | `BackupRescue` |
| Send limits (`sign-ckb-transaction.js`, `send-limits.ts`, `pending-transactions.ts`) | a chain of send-limit cells with records | preview, code, sign, change limits | Lit, node, indexer | `SendLimits` |
| Transaction policy (`transaction-policy.ts`, `funding-transaction.ts`, `account-lock.ts`, the Action's analysis) | none | preview, refuse, count | – | `TransactionRules` |
| React provider (`keyway-provider.tsx`) | session, wallet, connection, calls under way | sign-in, connect, disconnect, logout, leave, return | the SDK, the server | `Provider` |
| JoyID signing (`joyid-redirect.ts`) | a request in `sessionStorage` or a helper window | ask, leave, return, apply | JoyID | `JoyId` |
| Settlement in the browser (`settlement-sweep.ts`, `fee-reserve.ts`, `watchtower-settle.ts`) | cells of the node's key, claims to sweep | open, claim, sweep | chain | `Settlement` |
| Sign-in, schema, sites, scripts | sessions, tables | – | – | – |

The hard behaviours, which the hazards of `PROJECT.json` list at their lines: calls of one page overlap at
every await and two devices, tabs or server instances act on one account; the tab closes or the server exits
between two awaits; answers are lost, late or repeated, and a timeout is no refusal; a backup must be read
after the node stopped *and* the bridge stored its last call; an indexer, a row read at the start of a pass,
or a plan made ten minutes ago is out of date when it is used.

## 2. Modules

A process is one asynchronous call (a promise chain, a page, an HTTP request, a pass), a label of `pc` is an
`await`, and an action is the code from one `await` to the next. Operators commented as mutants are variants,
with one plausible bug, of the definition that follows them; no action uses them. Most component modules end
with their inductive invariant; for the others it stands in the proof module, before its lemmas.

**`NodeLifecycle`, `DeviceSession`.** `Runs` are the `start()` calls and `Stops` the `stop()`/`logout()` calls
that may ever be made. `generation` is the code's counter; `starting` and `stopping` are the promises a call
chains on, `before[c]` and `overtakenStart[c]` those it captured. The node's revocations go to the bridge,
which stores them one after the other, may fail to (the node is told so: `refused`), and is *draining* until
its last request is answered. Acquiring the lock or the lease, starting the node, stopping it, loading the key
for a logout and saving the backup may fail. A stop that is rejected goes the ways the code has for it: a
`stop()` lets go of the device all the same (the `finally` of `node-lifecycle.ts:109-116`) and fails, a logout
fails where it is (`:133`), and an overtaken start swallows it (`:59`) and settles with its node up. `leftUp`
remembers that one of these left a node up, which nothing takes down but another stop; the properties that
such a node breaks speak of the time before it. `DeviceSession` is the abstract contract: claim the device,
bring the node up, store what it sends, take it down, let go; or *break*, over a node that a failed stop left
up, after which nothing is promised.

**`DeviceHandoff`.** One page per device; per account the bound `primary` device, `hasOpened`, the backup
generations (available, claimed, consumed), one lease row with expiry as an action, and the channel databases
as a version number. Bootstraps run in stages under the advisory user lock, all other routes interleave with
them. Answers of acquire, confirm, release and save may be lost and pages may crash at any time. `faults`,
fixed per behaviour and drawn from `FaultSets`, are the failures beyond those the protocol handles itself:

| fault | means | breaks |
|---|---|---|
| `sleep` | a page is suspended past its lease and resumes later | `OneNode`, `StartsOnLatest` |
| `unmarked` | the tab closes between the opened channel and `markChannelOpened` | `StartsOnLatest` |
| `slowSave` | a save request outlives the page's patience and the lease | `StartsOnLatest`, `StateKept` |
| `bootDies` | the server dies between `claim` and `saveWallet` (`bootstrap.ts:57`, which are not atomic) | `StartsOnLatest`, `StateKept` |
| `slowBoot` | a bootstrap and a start overlap for longer than usual | `StartsOnLatest`, `StateKept` |
| `sameInstance` | `start()` on an instance that logged out | `StartsOnLatest`, `StateKept` |

Each property is stated under the faults it survives, and the run lets them all happen.

**`FiberPayments`.** A request handles one send; several requests with one of `Keys` are the client's repeats.
Every approval moves one unit, so the 24-hour total `counted` is a set and `Limit` a number of approvals. The
node makes or refuses a payment at any time after the call and its answer may be lost before or after;
`lookupPayment` answers *made*, *absent*, or cannot tell. A transfer uses its approval up before Lit signs,
or, with a code that Lit holds, after (`SignCoded`). `Crash` stops every handler at its await.

**`ManagedHost`.** `withUserOperation` runs one operation of a user at a time, so `pc[u]` and `kind[u]` are
that operation. `proc` are the fnn processes (*spawned*, *open*, *dead*: exited with the exit event not
handled, *gone*). A directory, a digest and a snapshot are the number of writes they hold. A snapshot is an
archive and the record that lists it: `Archive` writes them, `Prune` removes the archive of an old one and
`Unlist` its record, and the host may die, or the removal fail, in between (`index.mjs:366-367`). `orphans`
remembers the processes `waitForRpc` gave up, which were sent SIGTERM and are awaited by nobody; the
properties except them (a start that times out, `managed-host/index.mjs:186`, leaves a process that `stopNode`
does not know). `Faults` are two races with the operating system: the same free port handed out twice
(`samePort`) and an exit event handled before the last answer of the process (`lateAnswer`). The run leaves
them out; the first two parts of `RegistryHolds` fail with them and are stated without them, every other
property and proof holds with them.

**`WatchQueue`.** The page's queue holds one coalesced update per channel; one flush at a time visits the
queued channels and sends watch, revoke and unwatch in this order. A request may be lost before or after it
takes effect, arrive late from a page that is gone, be refused for good (capacity), or find its channel
unknown. Pages are opened and closed up to `MaxPages` times. The server may forget the channels of
`Forgettable`.

**`Watchtower`.** Instances that hold the advisory lock run passes on the rows they read when the pass began,
one chain request or write at a time; the page's requests and the chain move in between. A transaction is in
the pool, in a block that may be reorganized away, or final. Faults (counted) are reorganizations, failed
requests, a died process, and a lost lock whose holder goes on.

**`Recovery`.** Pages preview, confirm a code and apply turning recovery on or a change of its backups; the
apply handler holds the user's lock and signs, consumes, saves and sends in steps that may die. A transaction
is its content. The account's cells move, an indexer lags, the signer is switched, sign-ins settle changes and
sweep the old address.

**`BackupRescue`.** The other end of recovery: the policy Action, asked by anybody for anything, on nodes that
lag and fail between its two reads; and a backup's rescue with the page's asynchronous reads. A list is named
by its Type ID, which is the salt of its backups' identities. `Bounds` trades requests to the Action against
moves of the rescuer. A node may have yet to see even a cell that the transaction it is asked about spends;
`missed` remembers that the Action signed an enable by the reads of such a node, and two properties speak of
the time before that.

**`SendLimits`, `TransactionRules`, `AccountSigning`.** A send-limit cell is the number of the transaction
that made it. A chained transaction carries a *record*: a function from numbers of earlier sends to their
commit times. Clients preview, confirm and sign at once on stale lists; signed transactions are sent late,
dropped and sent again; the indexer lags; the server plans with a clock ahead of Lit's by at most `Margin`
(`PLAN_MARGIN_MS`). A plan reads commit times from a node that knows the chain or one as far behind as the
indexer (`Nodes`); when Lit signs, one that is behind only refuses more, which a request that ends unanswered
stands for. The oldest cell is read before the send-limit cells and may be spent by then (`WasOldest`).
`TransactionRules` are the pure rules the server and the Action apply to a transaction's cells. A cell has one
of the locks and types that the rules tell apart, a capacity and a number of units, and a side is a sequence
of at most `MaxCells` of the cells of `Sources` or `Targets`. `AccountSigning` puts the two together: what a
request shows and what Lit counts, for any transaction at all.

**`Provider`.** The page as the app's user sees it: which session is signed in, whose wallet shows, and the
connect, disconnect, logout and leave calls that overlap. `habits`, fixed per behaviour, are what kinds of app
and user there are: `autoStart`, `returns` (the page comes back from JoyID), `hurried` (asks for more while a
call of its own is under way; the SDK's own buttons are disabled then), `ends` (the session may end at the
server). A patient app is one whose calls never overlap: neither `hurried` nor starting Fiber by itself when a
hold ends. A `keyway.stop()` may be rejected: the connection is dropped before it (`keyway-provider.tsx:354`,
`423-436`, `515`) and the node stays as a *stray* one, up with no device; a rejected stop of the previous
connection (`:356`) also fails the connect call, whose status stays "connecting". `SignIn` waits until React's
authenticated effect has run (`~Due`).

**`JoyId`.** A behaviour uses one transport: the helper window (a tab and a window over a BroadcastChannel; a
page that is not loaded gets nothing) or the redirect (a record in `sessionStorage`, history entries, Back and
Forward). A blocked window behaves as a redirect.

**`Settlement`.** Capacities in CKB. A channel is opened with a fee reserve owed, closed one way or another,
its commitment claimed from; the timer's and the pass's sweeps run at once. `minimum` is the account's
smallest cell (61, or 95 once recovery is on). `overlapped` remembers an open that found the reserve there
while a sweep that returns it was under way, `unsent` one whose reserve could not be sent: a channel may then
be without one.

| Module | Checked by | Proved in |
|---|---|---|
| `NodeLifecycle`, `DeviceSession` | `lifecycle` | `NodeLifecycleProofs` |
| `Provider` | `provider` | `NodeLifecycleProofs`, second part |
| `DeviceHandoff` | `handoff` | `DeviceHandoffProofs` |
| `BackupRescue` | `backup_rescue` | `DeviceHandoffProofs`, second part |
| `FiberPayments` | `payments` | `FiberPaymentsProofs` |
| `Settlement` | `settlement` | `FiberPaymentsProofs`, second part |
| `ManagedHost` | `host` | `ManagedHostProofs` |
| `WatchQueue` | `watch_queue` | `WatchQueueProofs` |
| `Watchtower` | `watch_chain` | `WatchtowerProofs` |
| `JoyId` | `joyid` | `WatchtowerProofs`, second part |
| `Recovery` | `recovery` | `RecoveryProofs` |
| `SendLimits` | `send_limits` | `SendLimitsProofs` |
| `TransactionRules`, `AccountSigning` | `send_limits` | `SendLimitsProofs`, second part |

Some proof modules hold the theorems of two components, whose variables and operators have names of their own;
a second part uses nothing of the first but general facts (about sequences, cardinalities and sums).

How they meet: `DeviceSession` is what `DeviceHandoff` takes for the atomic steps of a page, and
`NodeLifecycle` implements it. `WatchQueue` promises that the rows `Watchtower` acts on are the newest.
`Recovery` and `BackupRescue` are the server's and the chain's view of the same list. `Provider` takes the
node of `NodeLifecycle` as running or not, and `JoyId` the page's leaving from `Provider`.

## 3. Properties

Every inductive invariant has a part that types the variables (`TypeOK` or, in the second parts, a name with
`Type`). The properties that the runs check:

| Module | Property | What it says |
|---|---|---|
| `NodeLifecycle` | `NodeHoldsDevice` | the node runs only while the page holds lock and lease, until a failed stop leaves one up |
| | `BackupHoldsEveryCall`, `BackedUpBeforeRelease` | a logout's backup holds every call the node sent and was not told had failed, and is saved before the device is let go |
| | `StopIsFinal` | after the last stop, if all succeeded, no start, node, timer, bridge, lock or lease is left |
| | `SessionSpec`, `EveryCallSettles` | the page behaves as one `DeviceSession`; every call settles |
| `DeviceHandoff` | `OneNode` | at most one awake browser runs the node (all faults but `sleep`) |
| | `StartsOnLatest` | a running node has the last state (no fault) |
| | `StateKept` | the last state is on the bound device, or in the newest backup, claimed by it or its successor (`sleep`, `unmarked`) |
| `FiberPayments` | `PaidOnce`, `FailedIsFinal` | one payment per key and per approval; a keyed send told "failed" never pays |
| | `SpentIsCounted`, `PaidUnderLimit` | what left is in the total; without the code it stays under the amount |
| `ManagedHost` | `AloneWithData`, `SnapshotIntact` | nobody but an orphan writes while files are archived or swapped; every one of the newest snapshots passes a restore's check |
| | `RegistryHolds`, `IdentityKept` | registered nodes are alive, alone on their port and within capacity; no identity is lost or doubled |
| `WatchQueue` | `QuietMeansKnown` | with nothing pending the server has every newest revocation and removal |
| | `EveryRevocationArrives` | while the page stays open, each one gets there |
| `Watchtower` | `NeverOverlooked` | a close is called current only if the stored revocation does not cover it |
| | `MissedToThePeer` | "missed" means the peer spent it, without faults |
| | `EventuallyPunished` | a covered close is punished unless the peer was faster |
| `Recovery` | `ApprovedOnly` | only what the user saw and confirmed is signed |
| | `SweepLeavesPool`, `PendingSettles` | no sweep of cells spent by a sweep that is in the pool and that the server did not give up; a pending change settles |
| `BackupRescue` | `BackupsCanRescue`, `ChangesConfirmed` | funds are only where a listed backup can move them; each change had its own code (both unless `missed`) |
| | `SentIsShown` | the rescue the page says was sent is the one it shows |
| `SendLimits` | `DailyAmountHolds` | what leaves in any 24 hours stays below the amount unless the last send had the code |
| | `PlanStands`, `OneChain` | a planned record is never refused for being old; one genesis, and the server finds the chain's end |
| `AccountSigning` | `AskedInFull`, `SignedIsCounted` | a preview or funding hides nothing; Lit counts at least what is lost |
| `Provider` | `OwnWallet`, `NoStrayNode`, `LeavesStopped` | the wallet on show is the user's; no node with the device is lost track of; the page leaves with its node stopped (both of a patient app) |
| `JoyId` | `WaitsForJoyId`, `AnsweredOnce` | a waiting tab will be told; an answer is taken once |
| `Settlement` | `ReserveKept`, `ShareArrives` | the fee cell stays while it may be needed; every claimable share reaches the account (both unless `unsent` or `overlapped`) |

`QuietMeansKnown` and `EveryRevocationArrives` except channels the server refused or forgot, and the first, of
removals, channels whose record a late request of a page that is gone has made again. `NeverOverlooked` and
`EventuallyPunished` except a revocation that came after the close was on the chain (`overtaken`) or while a
pass checked the row it had read before (`unread`): that pass does close the row (`watchtower.ts:660`).
`SweepLeavesPool` excepts what the server gave up because the node did not know it, or because its send failed
(`disowned`). `hazards` in `PROJECT.json` says which part of a hazard such an exception leaves uncovered.

## 4. Runs

All twelve runs pass. None replaces a definition; every bound is a constant of the `.cfg`.

| Run | Instance | States | Why it is enough |
|---|---|---|---|
| `lifecycle` | 2 starts, 2 stops or logouts, 1 revocation | 543 k | a call interacts with the newest start and the newest stop only; the proofs cover any number |
| `handoff` | 2 devices, 3 versions, 2 generations of which 1 is kept; no fault, each of six, and two pairs | 5.5 M | versions tell *last*, *previous* and *older* apart; with `Keep` 1 pruning happens; the proofs cover any number |
| `payments` | 2 requests, 2 keys or none, two payments of one invoice, a keysend, a transfer, an amount of 2 | 5.5 M | one payment alone needs no code and two together do; the proofs cover any number |
| `host` | one user who asks for everything and one who only calls, 2 processes, 2 ports, room for 1 node, 1 snapshot kept and 2 listed, 1 write by the first user's node, 1 process given up at a time | 8.3 M | users meet in capacity, ports and processes only; one write tells a snapshot from what its node wrote later |
| `watch_queue` | 2 channels of which the server has room for one, 2 revocations, 2 pages | 1.1 M | two revocations can overtake one another; the second channel is the refused one |
| `watch_chain` | 1 channel, 2 instances, 1 revocation, 2 penalties, 1 fault | 522 k | channels of a pass do not act on one another; two instances are what a lost lock needs |
| `recovery` | 2 pages, 2 backups, 3 transactions, 2 previews, 2 faults, 1 move of the account's cells | 908 k | one page replaces the other's request; a change follows an enable, and a sweep comes between |
| `backup_rescue` | 2 backups, 2 nodes, 4 cells; 4 requests to Lit, or 7 moves of the rescuer, or one request and 5 moves | 2.8 M | each side alone in depth, and both together; the proofs cover any number of each |
| `joyid` | 2 users, 2 requests, 4 moves (reloads, closings, steps back and forward, sign-outs) | 7.2 M | the second request meets what the first one left; the proofs cover any number |
| `provider` | 5 things the user or app asks for, five kinds of app | 3.5 M | sign-in, start, a call that overtakes it, and a second session; the proofs cover any number and any habits |
| `send_limits` | one asset, 3 transactions, 3 times, a window of 2 and a margin of 1, 1 change, 1 transaction outside; every transaction of 1 or 2 of 20 cells on each side | 1.3 M | two sends of 2 reach the amount of 4; an entry can be past the window and not past the margin; the proofs cover transactions of any length |
| `settlement` | 2 channels, either minimum, a small share and one behind payments in flight | 443 k | one channel's claim meets the other's open and both sweeps; the proof covers any number and any commitments |

*Symmetry* is used where elements are interchangeable and no property is temporal: devices (`handoff`),
requests and keys (`payments`), processes and ports (`host`), backups and nodes (`backup_rescue`). *Deadlock*
is not checked: in each instance the bounds are used up, or every call has been made and answered, and the
system rests.

*Fairness.* It is weak fairness of steps that the code's scheduling makes happen, and nothing obliges users to
act or failures to stay away, except as said here. `lifecycle`: each call's own steps, the bridge's stores,
the end of a node's stop and of a watchtower pass: continuations the event loop runs, each over a request with
a timeout. `watch_queue`: the flush, the retry timer and the end of a request, and strong fairness of a
request that is repeated for ever reaching the server. `watch_chain`: passes of each instance, strong fairness
of reading a channel's history, and transactions becoming final. `recovery`: the handler, later sign-ins (the
code settles a change only then or when a page polls), the ageing of a pending change, and the chain including
or dropping a transaction. `settlement`: the page's steps and timers, commitment of valid transactions, and
reloads that end one day.

## 5. Where the code and its documents disagree

No run expects a violation: what follows was seen in the models or while reading for them, is left out by a
stated condition or bound, and is not claimed by any property.

*Nodes and devices.* A `stop()` whose node cannot be stopped lets go of the device under it
(`node-lifecycle.ts:109-116`); an overtaken start swallows such a failure (`:59`), and the stop that waited
for it succeeds with the node up. A logout whose Fiber key cannot be loaded, or whose node cannot be stopped,
leaves the node up; the start queued behind it is refused the lock its own page holds and releases the device
under the running node (all this is `leftUp`). A provider drops its connection before it stops the node, so
after a rejected stop nobody can stop that node (`keyway-provider.tsx:354-356`, `423-436`, `515`), and a
connect call that fails so leaves the status "connecting" without an error (`:356` is outside the `try`). A
watchtower call that cannot be stored is logged and answered with an error (`watchtower-bridge.ts:186-189`),
so a backup may lack it. A logout after a stop backs nothing up (`keyway-provider.tsx:451-453`, `419-425`,
against `authentication.mdx:90`). Claim and `saveWallet` are not atomic (`bootstrap.ts:57`);
`hasOpenedChannel` is sent after the channel is open (`create-keyway.ts:446`); a restore is refused over local
databases (`node-backup.ts:73`). A start during a logout, or one that `autoStartFiber` makes when a hold ends
during a logout or a leave, leaves a node that nobody can stop (hence *patient*); a session that ends while
the page leaves stops the node without waiting for it.

*Payments.* Two transfers that overlap each see a total without the other (`general-signing.ts:84`, `188`), so
`PaidUnderLimit` speaks of Fiber payments. A send *without* an idempotency key takes its amount back after a
lost answer although the node may have paid; the SDK always sends one. A pool of connections all held by
sweeps that wait for the lock cannot serve them (`legacy-sweep.ts:144`, `database.ts:12`).

*JoyID and sessions.* `leaveForJoyId` evaluates whether the page is busy once; a late answer of a session
check after a logout stores the session again; a sign-out during the check of an answer holds it after the
effect that should have cleared it (`keyway-provider.tsx:550`; the server still refuses the proof); an
answered page kept in the browser's cache is shown again (`joyid-redirect.ts:703`), as is one that "continues"
(`keyway-provider.tsx:623`). A second prompt for an email code or a daily limit replaces an unresolved one,
and settling an approval closes a newer busy dialog (`signing-modals.tsx:183`).

*Rescue.* Changing the destination while a review is in flight shows the old plan, truthfully; changing it
while the wallet is open means a rescue that was sent is never shown; after a blocked cell with nothing left
the old plan stays signable. An enable signed by the reads of a node that has yet to see a cell it spends can
make a second list of a key, which the comment at `sign-ckb-transaction.js:846-847` says cannot be (`missed`;
TLC finds one when the account begins without cells and they are deposited while two enables are prepared).

*Settlement.* (a) A recovery account's minimum is 95 CKB, so 62 CKB of reserve alone never come back (against
`fiber-node.mdx:135`, `signing-modals.tsx:443`, `settlement-sweep.ts:5-10`). (b) Top-ups of token cells are
taken from the plain total before the reserve. (c) A plain total just under 62 CKB with a secp256k1
destination is swept entirely. (d) An open that checks the reserve while a sweep which returns it is under way
is left without one (`overlapped`; without this exception TLC finds `ReserveKept` violated). (e) Concurrent
opens share the variables of `openingWithReserve` and `openingPeer`. (f) An excess of 61.01 to 95 CKB over the
reserve is sent by the key to itself every ten minutes.

*Transaction rules.* An output at another known Omnilock deployment with the account's own args is taken for
the account's: `account-lock.ts:267` compares the args only, against its comment (`:252-256`), so a preview
shows it as sent and does not refuse it. (The Action refuses it, and what is counted is unchanged.) The
server's `tokenOutflows` leaves out Spore NFTs, which Lit counts per cell. `previewFunding` names the whole
debit less the fee as the channel's CKB (against the comment at `funding-transaction.ts:17`), because it does
not restrict other plain outputs. A DAO withdrawal with interest is refused as a negative fee although
withdrawals are decoded. Type ID cells leaving are not shown.

## 6. Proofs

`tlapm` checks eight proof modules from nothing. Every invariant and action property of section 3 has a
theorem, for every value of the constants that their assumptions allow; these are the code's (a limit is a
number, a window is positive, a cell is well formed) and TLC evaluates them on every run. No theorem has a
hypothesis besides. Conditions that belong to a property (which faults, a patient app, no node left up by a
failed stop, no open that met a sweep) are in the property's own statement, over states of the model that the
runs reach. Each proof is laid out alike: one lemma for each part of the inductive invariant, one step for
each action, and one theorem for each property. Parts are ordered so that a part's lemma may use those before
it.

**`NodeLifecycleProofs`** – any number of starts and stops. `LifecycleTypes`; `CallsInOrder` (`OrderInv`: a
call waits only for earlier calls, stops form a chain and starts form a chain; no property mentions it and
everything needs it); `ClaimsAndReleasesApart`, from the order alone; `DeviceHeld`, `BackupsComplete`,
`ReleasedAfterBackup`, by `DeviceInv` (what each call has claimed so far, and whether the node is down) and
`BridgeInv` (what is stored once the bridge is closed); `StoppedForGood`, by `FinalInv` (what a stop has put
away when it is this far stays away until `start()` is called); `LifecycleImplementsSession`, step by step:
`Spec => SessionSpec`.

*Second part, `Provider`* – any number of sign-ins and connect calls, any habits. `PageTypes`, `WalletIsOwn`,
`NodesAreTracked`, `LeavesWithNodeStopped`. Connect calls are a queue of which only the newest is not
superseded (`CallOrderInv`), at most one has the device and only at a few of its places (`OneDeviceInv`), and
the connection on show was made by a call none of whose successors has got anywhere (`ConnectionInv`).
`SessionInv` says for whose session each call, logout and leave is; with it the wallet on show is the
session's, or the effect that takes it away is due (`WalletInv`). For a patient app, `PatienceInv` and
`LogoutInv` say that a logout or a leave is alone with the connection it took, `TrackedInv` that a node that
is up is the connection's or a call's that will see to it, and `AwaitedInv`, when the session does not end by
itself, that whoever was told to stop one waits until it has.

**`DeviceHandoffProofs`** – any number of devices, versions and generations. `TypeCorrect`, `OneNodeHolds`,
`StateIsKept`, `StartsOnLatestHolds`. `IInv == Basic /\ LeaseOK /\ Custody /\ StrictOK`: `Basic` holds
whatever fails (each row well formed, generations not repeated, what a page has loaded exists); `LeaseOK`,
without `sleep`, says that a page past acquiring holds the one row of the lease; `Custody`, under at most
`sleep` and `unmarked`, says who may have the last version: a bound device or a newest backup claimed by it,
what a bootstrap in progress has still to save, and that no page works on a backup that was superseded;
`StrictOK`, without faults, says that a page about to run its node has it. No property is inductive alone:
that a running node is current depends on who might still claim an older backup, which depends on which
bootstraps can be under way.

*Second part, `BackupRescue`* – any number of backups, e-mails, nodes, cells and lists. `BackupsRescue`,
`ChangesAreConfirmed`, `SentRescueIsShown`. A second list would need a second enabling transaction to commit.
Two of them that can still commit spend a common cell (`EnablesInv`): one is signed only after its request
read the plain cells, every earlier one that is alive spends some of those, and the Action insists that all
that were read are spent. Once the key has a list, whoever is shown none also reads a plain cell that is
already spent (`NodesInv`, `RunInv`), so what it signs cannot commit; unless the node had yet to see a cell
that the transaction spends, which `missed` tells of. With one list, whose version only grows, a change that
commits replaces exactly what it was confirmed for (`ChangesInv`), and each change carries a code of the
e-mail that is bound (`MailInv`). `SentRescueIsShown` has an invariant of the page alone: while a plan is
being signed or sent, the page shows that plan or none.

**`FiberPaymentsProofs`** – any number of requests, keys and approvals, any limit. `PaymentTypes`,
`NothingPaidTwice`, `FailuresAreFinal`, `SpentStaysCounted`, `PaidStaysUnderLimit`. `PlaceInv`: where a
handler is when something of it has left; `OwnerInv`: one request runs the mutation of a key, because the
record it inserted is never "none" again; `UserInv`: one uses an approval, because the row it deleted is never
back; `FailInv`: what failed has not left and nobody works on its key; `CountInv`: what is about to leave is
counted; `LimitInv`: the counted payments without a code are fewer than the limit at every reservation, which
sees all earlier ones (a fact about cardinalities).

*Second part, `Settlement`* – any number of channels, either minimum and any commitments. `ReserveStays`. A
cell that can pay for a claim is there, or comes in a transaction that the peer cannot make void
(`ReserveThere`), from the open that found or sent it for as long as the node's list has a channel that needs
it (`ReserveInv`, by `ListInv`). A claim gives back a cell no smaller than it took. A sweep that keeps the
reserve leaves one, which is a fact about the total of the cells: the total is shown to exist, to split, and
to be more than any one cell's, by least numbers. A sweep that returns the reserve runs while nothing needs it
and nothing is being opened (`ReturnInv`), or `overlapped` tells of it.

**`ManagedHostProofs`** – any number of users, processes, ports, snapshots and writes. `HostTypesOK`,
`NobodyElseWrites`, `RegistryIsRight`, `IdentityIsKept`, `SnapshotsAreIntact`. `OwnInv` says whose each live
process is (registered, being started, being stopped, or given up), so at the places where files are touched
nobody is left but an orphan; `PortInv` that no two of them listen on one port, if `samePort` does not happen;
`CountInv` that `Cardinality(InUse)` stays within capacity; `FileInv` where directory and `.previous` are at
each place of a restore, crash included; `DigestInv` that the digest taken is the content's unless an orphan
wrote.

**`WatchQueueProofs`** – any number of channels, revocations and pages. `QueueTypes`, `QuietPageIsSafe`. What
the queue holds of a channel and what the server has recorded are complementary (`KnownInv` for registrations
and revocations, `UnwatchInv` for removals, which a registration may not overtake). An update leaves the queue
only with an answer that says it was recorded (`AnswerInv`), and is not lost when a newer one replaced it
during the request (`FlushInv`).

**`WatchtowerProofs`** – any number of channels, instances, revocations, penalties and faults. `TowerTypes`,
`NothingOverlooked`, `OnlyThePeerWins`. The many steps of a check are summed up first: it goes on with what it
read, or ends and leaves its row as it was, drops or saves it. `ReadInv` then says that the row has no
revocation newer than the one the check read, unless `unread` tells of it; `OneTower` and `OnePenalty`, while
nothing has failed, that only the holder of the lock works, on rows that are as it read them, and that every
penalty is recorded or about to be. A cell spent otherwise was spent by the peer.

*Second part, `JoyId`* – any number of users, requests and moves. `RunWaitsForJoyId`,
`RedirectIsAnsweredOnce`. With the window transport the invariant says what makes silence harmless: a window
that is away (at JoyID, loading, or about to leave) has a record in its `sessionStorage` with which it will
answer, or the tab was told, or will be, that it is gone (`AwayInv`). With the redirect transport it says
which requests the pages of the session history hold, whether shown or kept by the browser: no two of them
hold one request, and none holds one that is still recorded or was applied (`PagesInv`). So taking the record,
which is what makes an answer count, happens once for each request, whichever way the user goes back and
forward.

**`RecoveryProofs`** – any number of pages, backups, previews, transactions and faults. `RecoveryTypes`,
`SignedAsShown`, `NoSweepTwice`. A transaction once signed keeps its number and its content. `ShownInv`: while
a page's nonce is the stored request's, that request is for the plan the page shows; `ApplyInv`: the handler
works on that plan, approved once the code was right; `SweepInv`: the only sweep the node has had that is not
final and not given up is the recorded one.

**`SendLimitsProofs`** – any assets, amounts, windows, clocks and numbers of transactions. `SendLimitTypes`,
`PlansStand`, `DailyAmounts`, `SingleChain`. The invariant (at the head of the module) says: the signed
history only grows, and each transaction fits the cells it was signed over (`FitInv`, `TimeInv`); what a
signed record leaves out is past the window by Lit's clock (`RecordInv`), and so is what a request leaves out
(`AskedInv`); the transactions the node holds do not conflict (`NodeInv`); the send-limit cells it holds are a
*line*, each spending the newest before it, with the genesis first, because a second genesis would spend the
same oldest plain cell (`FirstInv`, `LineInv`); every earlier send on the line is a previous entry of the next
one or past the window (`CoverInv`); and the totals were below the amount when Lit signed (`AmountInv`) and
only shrink as time passes. Sums over sets of sends need induction, and the library's induction theorems
cannot be instantiated here. So a least-number lemma about *sets* of numbers is derived from the
well-foundedness of `<`, an induction over finite sets from it, by taking away the number that a sum takes
next, and from that what the proofs need: that a sum is a number, adds up over disjoint sets and compares term
by term. The assumptions are that the server's clock is at most `PLAN_MARGIN_MS` ahead of Lit's and, in the
model, that no committed transaction is reorganized away.

*Second part, `TransactionRules` in `AccountSigning`* – transactions of any number of cells, with any
capacities and units. `AskedIsShownInFull`, `SignedIsCountedInFull`. What the account loses of an asset is a
difference of two sums over the cells of a side, and what a preview shows or Lit counts is another one; they
are compared cell by cell (`Within`, `Worths`). A preview shows every gain and loss of CKB, tokens and NFTs at
the account's addresses, and marks what it cannot name (`PreviewsInFull`); a funding loses exactly the amount
and the fee it names and no other asset (`FundingsExact`). Lit counts at the locks it signs for, which can be
more than the account's: the proof shows that an accepted transaction has no output at one of those that is
not also the account's (`OutputsCovered`, by what the Action demands of list cells and admin identities), so
that what leaves the account is never set off against it (`LitCountsInFull`).

**Only model-checked.** The five liveness properties, `EveryCallSettles`, `EveryRevocationArrives`,
`EventuallyPunished`, `PendingSettles` and `ShareArrives`: liveness under fairness is out of the prover's
reach, and so is `ENABLED`, in which weak fairness is defined. Everything else that a run checks is also a
theorem.

## 7. Not modelled

See `components`. The map covers 22 % of the repository's implementation lines. The rest is mostly interface,
encodings and calls to libraries: the demo application and the documentation site, `signing-modals.tsx` and
the dialogs, sign-in (a library's sessions and one-time codes), wallet adapters, molecule and witness layouts,
the sparse Merkle tree of a recovery list, signature verification in the contracts, the calls to Lit,
migrations, e-mail and the parameter checks of the payment methods. A model of these would restate them.

Of the modelled components: the set-up of keys in a first bootstrap; encryption and the content of backups;
rate limits, attempt counts and lifetimes of emailed codes that the server sends; amounts other than one unit
in `FiberPayments`; the gateway and `shuttingDown` of the hosted node; the fee search of a penalty; the
lifetime of codes Lit emails, the "short" refusal, fees and list-cell capacity of a rescue; in `Recovery` the
account cell a short sweep adds (`legacy-sweep.ts:256-263`) and tries without a blamed cell; mainnet;
reorganizations except in `Watchtower`; in `SendLimits` a request's lifetime, encodings, and fees; in
`Settlement` token cells, the hosted node's sweep, fees below 1 CKB, the batches of 50 cells, and a
self-sweep; in `JoyId` the history of a helper window that goes on to another site, aborting while the page
prepares to leave, and JoyID's own "popup" transport; in `TransactionRules` recipients and DAO lines of a
preview, sizes, and short token data.

## 8. Plan

Modelled, checked and, liveness apart, proved: every module above. What would come next, in this order: the
settings and codes of `general-signing.ts` (attempts and lifetimes) as actions of `FiberPayments`; the channel
calls of a running node in `create-keyway.ts` between `NodeLifecycle` and `WatchQueue`; `WatchQueue` and
`Watchtower` composed, so that "every revocation arrives" meets "every covered close is punished" in one run;
`DeviceSession` as what `DeviceHandoff`'s pages implement, as `NodeLifecycle` does.
