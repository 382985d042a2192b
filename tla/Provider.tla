------------------------------ MODULE Provider ------------------------------
(***************************************************************************)
(* The React provider of one page in browser mode (KeyWayProvider in       *)
(* src/sdk/react/keyway-provider.tsx with connect-keyway.ts): who is       *)
(* signed in, which wallet is shown, and the chain of connect, disconnect, *)
(* logout and leave-for-JoyID calls that start and stop Fiber nodes.  Each *)
(* connect call makes a KeyWay of its own; its node is abstracted to       *)
(* whether it is "up", down with the device "kept" for a backup, gone, or  *)
(* a "stray": a node whose stop was rejected runs on after its KeyWay has  *)
(* let go of the device (module NodeLifecycle has the details).  One       *)
(* action is the code between two awaits; a React effect runs some time    *)
(* after the state it depends on was set.                                  *)
(***************************************************************************)
EXTENDS Naturals, Sequences

CONSTANTS
    MaxAsks,   \* bound: sign-ins, starts, stops, logouts, payments, leaves and reloads
    HabitSets  \* the combinations of habits a behaviour may have

(***************************************************************************)
(* "autoStart": autoStartFiber is set.                                     *)
(* "returns": the page may be loaded with a JoyID answer, and holds Fiber. *)
(* "hurried": the app asks for more while a call of its own is under way;  *)
(* KeyWayLoginButton and KeyWayFiberButton are disabled then.              *)
(* "ends": the session can end at the server while the page uses it.       *)
(***************************************************************************)
Habits == {"autoStart", "returns", "hurried", "ends"}

ASSUME ProviderAssumption == MaxAsks \in Nat /\ HabitSets \subseteq SUBSET Habits

VARIABLES
    habits,   \* the habits of this behaviour, which never change
    asks,     \* what the user and the app have asked for so far
    logins,   \* sign-ins so far: a session and its user are the number of the sign-in, 0 is none
    valid,    \* the sessions the server knows
    token,    \* the session in localStorage
    page,     \* "loading" until ready is set, "ready", "away" at JoyID
    restoring,\* the session the page is restoring
    session,  \* authToken and user
    wallet,   \* whose wallet is shown
    status,   \* status
    hold,     \* joyIdHold
    applied,  \* the session and hold the authenticated effect last ran for
    boot,     \* the session of the managed bootstrap the active effect waits for
    runs,     \* the connect calls of this page, oldest first
    conn,     \* connectionRef: the connect call that made it, 0 is none
    shown,    \* connection, as rendered
    asked,    \* the connect calls whose KeyWay is being stopped
    unleased, \* those of them that lost the device's lease
    out,      \* the logout call under way
    leave,    \* the JoyID backup about to leave the page
    stops,    \* what the disconnect calls under way stop
    paying    \* fiberOperationsRef: a tracked payment is under way

server == <<valid, token>>
auth == <<logins, session, restoring>>
view == <<wallet, status, shown>>
nodes == <<runs, conn, asked, unleased>>
calls == <<out, leave, stops, paying>>
providerVars == <<habits, asks, server, page, auth, view, hold, applied, boot, nodes, calls>>

NoCall == [pc |-> "none", login |-> 0, after |-> 0, conn |-> 0]

ProviderInit ==
    /\ habits \in HabitSets
    /\ asks = 0 /\ logins = 0 /\ valid = {} /\ token = 0
    /\ page = "ready" /\ restoring = 0 /\ session = 0 /\ hold = FALSE /\ applied = [login |-> 0, hold |-> FALSE]
    /\ wallet = 0 /\ status = "idle" /\ shown = 0 /\ boot = 0
    /\ runs = <<>> /\ conn = 0 /\ asked = {} /\ unleased = {}
    /\ out = NoCall /\ leave = NoCall /\ stops = {} /\ paying = FALSE

-----------------------------------------------------------------------------
(* What the calls share. *)

RunIds == DOMAIN runs
RunSettled(i) == \A j \in RunIds : j = i => runs[j].pc \in {"done", "failed"}
HasDevice(i) == runs[i].node \in {"up", "kept"}
\* Of a KeyWay that was stopped: keyway.stop() was rejected.
Rejected(i) == \E j \in RunIds : j = i /\ runs[j].node = "stray"
Authenticated == page = "ready" /\ session # 0

\* ++runRef.current: no connect call is the newest one any more.
Superseded == [i \in RunIds |-> [runs[i] EXCEPT !.live = FALSE]]

At(i, pc) == runs' = [runs EXCEPT ![i].pc = pc]

\* keyway.stop() of the connection a call has taken, if any.
StopOf(i) == asked' = asked \cup ({i} \cap {j \in RunIds : runs[j].node # "none"})

\* The first lines of connect(): a new run, behind the operation before it.
Connect(login) ==
    /\ runs' = Append(Superseded, [login |-> login, live |-> TRUE, pc |-> "queued", node |-> "none", previous |-> 0])
    /\ status' = "connecting"

\* A failed connect call reports its error if no other has superseded it.
Fail(i) ==
    /\ At(i, "failed")
    /\ status' = IF runs[i].live THEN "error" ELSE status

\* The effect on the session or the hold has not run yet.
Due == page = "ready" /\ applied # [login |-> session, hold |-> hold]

Calm == out = NoCall /\ leave = NoCall /\ stops = {} /\ ~Due
Ask ==
    /\ asks < MaxAsks /\ asks' = asks + 1
    /\ page = "ready"
    /\ Calm \/ "hurried" \in habits
Pending == status = "disconnecting" /\ "hurried" \notin habits

-----------------------------------------------------------------------------
(* connect(), from the end of the operation before it. *)

AfterPrevious(i) ==
    /\ runs[i].pc = "queued" /\ RunSettled(i - 1)
    /\ IF runs[i].live
       THEN /\ runs' = [runs EXCEPT ![i].pc = "replacing", ![i].previous = conn]
            /\ StopOf(conn) /\ conn' = 0 /\ shown' = 0
            /\ UNCHANGED status
       ELSE Fail(i) /\ UNCHANGED <<conn, shown, asked>>
    /\ UNCHANGED <<habits, asks, server, page, auth, wallet, hold, applied, boot, unleased, calls>>

\* The stop of the previous connection is outside the try block: if it is rejected no error is shown.
PreviousStopped(i) ==
    /\ runs[i].pc = "replacing" /\ runs[i].previous \notin asked
    /\ \/ Rejected(runs[i].previous) /\ At(i, "failed") /\ UNCHANGED status
       \/ ~Rejected(runs[i].previous) /\ runs[i].login \in valid /\ At(i, "boot") /\ UNCHANGED status
       \/ ~Rejected(runs[i].previous) /\ runs[i].login \notin valid /\ Fail(i)
    /\ UNCHANGED <<habits, asks, server, page, auth, wallet, shown, hold, applied, boot, conn, asked, unleased,
                   calls>>

\* Mutant: a superseded connect call shows its wallet.
BootstrappedAnyway(i) ==
    /\ runs[i].pc = "boot"
    /\ \/ At(i, "start") /\ wallet' = runs[i].login /\ UNCHANGED status
       \/ Fail(i) /\ UNCHANGED wallet
    /\ UNCHANGED <<habits, asks, server, page, auth, shown, hold, applied, boot, conn, asked, unleased, calls>>

\* bootstrapKeyWay answers, however late, and onWalletReady shows the wallet; or it fails.
Bootstrapped(i) ==
    /\ runs[i].pc = "boot"
    /\ \/ /\ At(i, "start")
          /\ wallet' = IF runs[i].live THEN runs[i].login ELSE wallet
          /\ UNCHANGED status
       \/ Fail(i) /\ UNCHANGED wallet
    /\ UNCHANGED <<habits, asks, server, page, auth, shown, hold, applied, boot, conn, asked, unleased, calls>>

\* keyway.start(): one node of the account in the page has the device lock.
NodeStarts(i) ==
    /\ runs[i].pc = "start"
    /\ \/ /\ runs[i].login \in valid /\ ~\E j \in RunIds : HasDevice(j)
          /\ runs' = [runs EXCEPT ![i].pc = "peers", ![i].node = "up"]
          /\ UNCHANGED status
       \/ Fail(i)
    /\ UNCHANGED <<habits, asks, server, page, auth, wallet, shown, hold, applied, boot, conn, asked, unleased,
                   calls>>

\* Mutant: a superseded connect call keeps what it started.
ConnectedAnyway(i) ==
    /\ runs[i].pc = "peers"
    /\ IF runs[i].live
       THEN At(i, "done") /\ conn' = i /\ shown' = i /\ status' = "connected" /\ UNCHANGED asked
       ELSE At(i, "failed") /\ UNCHANGED <<conn, shown, status, asked>>
    /\ UNCHANGED <<habits, asks, server, page, auth, wallet, hold, applied, boot, unleased, calls>>

\* The connection is made: it is the page's, unless the run was superseded.
Connected(i) ==
    /\ runs[i].pc = "peers"
    /\ IF runs[i].live
       THEN At(i, "done") /\ conn' = i /\ shown' = i /\ status' = "connected" /\ UNCHANGED asked
       ELSE At(i, "undoing") /\ StopOf(i) /\ UNCHANGED <<conn, shown, status>>
    /\ UNCHANGED <<habits, asks, server, page, auth, wallet, hold, applied, boot, unleased, calls>>

\* connectTestnetPeers or the balance fails.
PeersFail(i) ==
    /\ runs[i].pc = "peers"
    /\ At(i, "undoing") /\ StopOf(i)
    /\ UNCHANGED <<habits, asks, server, page, auth, view, hold, applied, boot, conn, unleased, calls>>

RunUndone(i) ==
    /\ runs[i].pc = "undoing" /\ i \notin asked
    /\ Fail(i)
    /\ UNCHANGED <<habits, asks, server, page, auth, wallet, shown, hold, applied, boot, conn, asked, unleased,
                   calls>>

\* keyway.stop() of one of them ends, behind a logout of the same KeyWay, or is rejected with the node up and the
\* device let go; if the lease was lost, onLeaseLost follows either way.
NodeStops(i) ==
    /\ i \in asked /\ ~(out.pc = "backing" /\ out.conn = i)
    /\ \/ runs' = [runs EXCEPT ![i].node = "none"]
       \/ runs[i].node \in {"up", "stray"} /\ runs' = [runs EXCEPT ![i].node = "stray"]
    /\ asked' = asked \ {i} /\ unleased' = unleased \ {i}
    /\ out' = IF out.pc = "queued" /\ out.conn = i THEN [out EXCEPT !.pc = "backing"] ELSE out
    /\ IF i \in unleased /\ runs[i].live
       THEN conn' = 0 /\ shown' = 0 /\ status' = "error"
       ELSE UNCHANGED <<conn, shown, status>>
    /\ UNCHANGED <<habits, asks, server, page, auth, wallet, hold, applied, boot, leave, stops, paying>>

LeaseLost(i) ==
    /\ HasDevice(i) /\ i \notin asked
    /\ asked' = asked \cup {i} /\ unleased' = unleased \cup {i}
    /\ UNCHANGED <<habits, asks, server, page, auth, view, hold, applied, boot, runs, conn, calls>>

StartFiber ==
    /\ Ask /\ session # 0 /\ ~Pending
    /\ "hurried" \in habits \/ (status # "connecting" /\ shown = 0)
    /\ Connect(session)
    /\ UNCHANGED <<habits, server, page, auth, wallet, shown, hold, applied, boot, conn, asked, unleased, calls>>

-----------------------------------------------------------------------------
(* disconnect(). *)

Disconnect ==
    /\ runs' = Superseded /\ StopOf(conn) /\ conn' = 0 /\ shown' = 0
    /\ status' = IF conn = 0 THEN "idle" ELSE "disconnecting"

StopFiber ==
    /\ Ask /\ ~Pending
    /\ "hurried" \in habits \/ shown # 0
    /\ Disconnect
    /\ stops' = stops \cup ({conn} \ {0})
    /\ UNCHANGED <<habits, server, page, auth, wallet, hold, applied, boot, unleased, out, leave, paying>>

Disconnected(i) ==
    /\ i \in stops \ asked
    /\ stops' = stops \ {i} /\ status' = "idle"
    /\ UNCHANGED <<habits, asks, server, page, auth, wallet, shown, hold, applied, boot, nodes, out, leave, paying>>

-----------------------------------------------------------------------------
(* logout(). *)

Logout ==
    /\ Ask /\ Authenticated /\ ~Pending /\ out = NoCall
    /\ runs' = Superseded /\ status' = "disconnecting"
    /\ out' = [pc |-> "waiting", login |-> session, after |-> Len(runs), conn |-> 0]
    /\ UNCHANGED <<habits, server, page, auth, wallet, shown, hold, applied, boot, conn, asked, unleased,
                   leave, stops, paying>>

\* stopForLogout runs behind a stop of the same KeyWay, and before one asked for later.
TakesTo == IF conn = 0 THEN "revoking" ELSE IF conn \in asked THEN "queued" ELSE "backing"

LogoutTakes ==
    /\ out.pc = "waiting" /\ RunSettled(out.after)
    /\ out' = [out EXCEPT !.pc = TakesTo, !.conn = conn]
    /\ UNCHANGED <<habits, asks, server, page, auth, view, hold, applied, boot, nodes, leave, stops, paying>>

\* The catch of logout(): a connection it had is connected again.
LogoutFails ==
    IF out.conn = 0
    THEN out' = NoCall /\ status' = "error" /\ UNCHANGED runs
    ELSE Connect(out.login) /\ out' = [out EXCEPT !.pc = "reconnecting", !.after = Len(runs) + 1]

\* stopForLogout stops the node and keeps the device for the backup.
NodeDownForBackup ==
    /\ out.pc = "backing" /\ runs[out.conn].node = "up"
    /\ runs' = [runs EXCEPT ![out.conn].node = "kept"]
    /\ UNCHANGED <<habits, asks, server, page, auth, view, hold, applied, boot, conn, asked, unleased, calls>>

\* The backup is stored and the device let go; without the lease there is none, and a plain stop takes down a node
\* left up; or a step before fails.
BackUp ==
    /\ out.pc = "backing"
    /\ \/ /\ runs[out.conn].node = "kept" => out.login \in valid
          /\ runs[out.conn].node # "up"
          /\ runs' = [runs EXCEPT ![out.conn].node = "none"]
          /\ out' = [out EXCEPT !.pc = "revoking"] /\ UNCHANGED status
       \/ runs[out.conn].node # "none" /\ LogoutFails
    /\ UNCHANGED <<habits, asks, server, page, auth, wallet, shown, hold, applied, boot, conn, asked, unleased,
                   leave, stops, paying>>

Revoke ==
    /\ out.pc = "revoking"
    /\ \/ /\ out.login \in valid /\ valid' = valid \ {out.login}
          /\ out' = [out EXCEPT !.pc = "clearing"] /\ UNCHANGED <<runs, status>>
       \/ LogoutFails /\ UNCHANGED valid
    /\ UNCHANGED <<habits, asks, token, page, auth, wallet, shown, hold, applied, boot, conn, asked, unleased,
                   leave, stops, paying>>

Clear ==
    /\ out.pc = "clearing"
    /\ runs' = Superseded /\ conn' = 0 /\ shown' = 0 /\ wallet' = 0 /\ token' = 0 /\ session' = 0 /\ status' = "idle"
    /\ out' = NoCall
    /\ UNCHANGED <<habits, asks, valid, page, logins, restoring, hold, applied, boot, asked, unleased, leave,
                   stops, paying>>

Reconnected ==
    /\ out.pc = "reconnecting" /\ RunSettled(out.after)
    /\ out' = NoCall /\ status' = "error"
    /\ UNCHANGED <<habits, asks, server, page, auth, wallet, shown, hold, applied, boot, nodes, leave, stops, paying>>

-----------------------------------------------------------------------------
(* leaveForJoyId(): a full-page JoyID backup of the signed-in user. *)

Pay ==
    /\ Ask /\ shown # 0 /\ ~paying /\ paying' = TRUE
    /\ UNCHANGED <<habits, server, page, auth, view, hold, applied, boot, nodes, out, leave, stops>>

PayEnds ==
    /\ paying /\ paying' = FALSE
    /\ UNCHANGED <<habits, asks, server, page, auth, view, hold, applied, boot, nodes, out, leave, stops>>

\* Mutant: the page leaves without waiting for a start in progress.
LeaveAtOnce ==
    /\ Ask /\ wallet # 0 /\ session # 0 /\ leave = NoCall /\ ~paying
    /\ leave' = [NoCall EXCEPT !.pc = "waiting"]
    /\ UNCHANGED <<habits, server, page, auth, view, hold, applied, boot, nodes, out, stops, paying>>

Leave ==
    /\ Ask /\ wallet # 0 /\ session # 0 /\ leave = NoCall /\ ~paying
    /\ leave' = [NoCall EXCEPT !.pc = "waiting", !.after = Len(runs)]
    /\ UNCHANGED <<habits, server, page, auth, view, hold, applied, boot, nodes, out, stops, paying>>

LeaveStops ==
    /\ leave.pc = "waiting" /\ RunSettled(leave.after)
    /\ leave' = [leave EXCEPT !.pc = "stopping", !.conn = conn]
    /\ IF conn # 0 THEN Disconnect ELSE UNCHANGED <<runs, asked, conn, shown, status>>
    /\ UNCHANGED <<habits, asks, server, page, auth, wallet, hold, applied, boot, unleased, out, stops, paying>>

\* The page is gone, and with it every node that still runs.
Unload ==
    /\ page' = "away"
    /\ restoring' = 0 /\ session' = 0 /\ wallet' = 0 /\ status' = "idle" /\ shown' = 0
    /\ applied' = [login |-> 0, hold |-> FALSE] /\ boot' = 0
    /\ runs' = <<>> /\ conn' = 0 /\ asked' = {} /\ unleased' = {}
    /\ out' = NoCall /\ leave' = NoCall /\ stops' = {} /\ paying' = FALSE

LeavesPage ==
    /\ leave.pc = "stopping" /\ leave.conn \notin asked /\ ~Rejected(leave.conn)
    /\ Unload
    /\ UNCHANGED <<habits, asks, server, logins, hold>>

\* disconnect() is rejected: its status is idle all the same (Disconnected), and the page stays.
LeaveFails ==
    /\ leave.pc = "stopping" /\ leave.conn \notin asked /\ Rejected(leave.conn)
    /\ leave' = NoCall /\ status' = "idle"
    /\ UNCHANGED <<habits, asks, server, page, auth, wallet, shown, hold, applied, boot, nodes, out, stops, paying>>

Reload ==
    /\ asks < MaxAsks /\ asks' = asks + 1
    /\ page = "ready"
    /\ Unload
    /\ UNCHANGED <<habits, server, logins, hold>>

-----------------------------------------------------------------------------
(* The session: the effects that restore, validate and end it, and sign-in. *)

\* The provider is mounted: with a JoyID answer in the address bar it holds Fiber back.
Load ==
    /\ page = "away"
    /\ restoring' = token /\ hold' \in {FALSE, "returns" \in habits}
    /\ page' = IF token = 0 THEN "ready" ELSE "loading"
    /\ UNCHANGED <<habits, asks, server, logins, session, view, applied, boot, nodes, calls>>

Restore ==
    /\ page = "loading" /\ page' = "ready"
    /\ \/ restoring \in valid /\ session' = restoring /\ UNCHANGED token
       \/ token' = 0 /\ UNCHANGED session
    /\ restoring' = 0
    /\ UNCHANGED <<habits, asks, valid, logins, view, hold, applied, boot, nodes, calls>>

\* JoyID's answer was checked, or was not this page's.
HoldEnds ==
    /\ hold /\ page = "ready" /\ hold' = FALSE
    /\ UNCHANGED <<habits, asks, server, page, auth, view, applied, boot, nodes, calls>>

\* The sign-in window is open to a page without a session; the code is verified.
SignIn ==
    /\ Ask /\ session = 0 /\ ~Pending /\ ~Due
    /\ logins' = logins + 1 /\ valid' = valid \cup {logins + 1}
    /\ session' = logins + 1 /\ token' = logins + 1 /\ status' = "authenticating"
    /\ UNCHANGED <<habits, page, restoring, wallet, shown, hold, applied, boot, nodes, calls>>

ServerEnds(s) ==
    /\ "ends" \in habits /\ s \in valid
    /\ valid' = valid \ {s}
    /\ UNCHANGED <<habits, asks, token, page, auth, view, hold, applied, boot, nodes, calls>>

\* validate() hears 401, or the session's time is up.
Invalidate ==
    /\ page = "ready" /\ session # 0 /\ session = applied.login /\ session \notin valid
    /\ runs' = Superseded /\ StopOf(conn) /\ conn' = 0
    /\ session' = 0 /\ token' = 0
    /\ UNCHANGED <<habits, asks, valid, page, logins, restoring, view, hold, applied, boot, unleased, calls>>

-----------------------------------------------------------------------------
(* The effect on authenticated, the session and the hold: the clean-up of the last one, then the new one. *)

CleanUp == StopOf(conn) /\ conn' = 0 /\ runs' = Superseded

SignedOut ==
    /\ Due /\ session = 0
    /\ IF applied.login # 0 /\ ~applied.hold THEN CleanUp ELSE UNCHANGED <<runs, asked, conn>>
    /\ shown' = 0 /\ wallet' = 0 /\ status' = "idle" /\ boot' = 0
    /\ applied' = [login |-> 0, hold |-> hold]
    /\ UNCHANGED <<habits, asks, server, page, auth, hold, unleased, calls>>

\* The effect of a session: held, or connecting, or a managed bootstrap for the wallet alone.
SignedIn ==
    /\ Due /\ session # 0
    /\ IF applied.login # 0 /\ ~applied.hold THEN StopOf(conn) /\ conn' = 0 ELSE UNCHANGED <<asked, conn>>
    /\ IF hold THEN boot' = 0 /\ UNCHANGED <<runs, status>>
       ELSE IF "autoStart" \in habits THEN boot' = 0 /\ Connect(session)
       ELSE boot' = (IF session \in valid THEN session ELSE 0) /\ UNCHANGED <<runs, status>>
    /\ applied' = [login |-> session, hold |-> hold]
    /\ UNCHANGED <<habits, asks, server, page, auth, wallet, shown, hold, unleased, calls>>

WalletBootstrapped ==
    /\ boot # 0
    /\ \/ wallet' = boot /\ status' = IF status = "authenticating" THEN "idle" ELSE status
       \/ UNCHANGED <<wallet, status>>
    /\ boot' = 0
    /\ UNCHANGED <<habits, asks, server, page, auth, shown, hold, applied, nodes, calls>>

-----------------------------------------------------------------------------
ConnectStep(i) ==
    \/ AfterPrevious(i) \/ PreviousStopped(i) \/ Bootstrapped(i) \/ NodeStarts(i)
    \/ Connected(i) \/ PeersFail(i) \/ RunUndone(i)
LogoutStep == LogoutTakes \/ NodeDownForBackup \/ BackUp \/ Revoke \/ Clear \/ Reconnected
EffectStep == SignedOut \/ SignedIn \/ WalletBootstrapped \/ Restore \/ HoldEnds \/ Load
UserStep == StartFiber \/ StopFiber \/ Logout \/ Pay \/ PayEnds \/ Leave \/ Reload \/ SignIn

ProviderNext ==
    \/ \E i \in RunIds : ConnectStep(i) \/ NodeStops(i) \/ LeaseLost(i) \/ Disconnected(i)
    \/ LogoutStep \/ LeaveStops \/ LeavesPage \/ LeaveFails
    \/ EffectStep \/ Invalidate \/ \E s \in valid : ServerEnds(s)
    \/ UserStep

ProviderSpec == ProviderInit /\ [][ProviderNext]_providerVars

-----------------------------------------------------------------------------
(* Properties *)

\* The wallet on show is the signed-in user's, whatever older bootstraps answer late.
OwnWallet == session # 0 /\ wallet # 0 => wallet = session

\* An app that waits for its own calls, as the SDK's buttons do, and that no hold ending starts a node behind.
Patient == "hurried" \notin habits /\ ~({"autoStart", "returns"} \subseteq habits)

\* Of a patient app, a node with the device is the page's connection, or a connect call's that is not over, or is being
\* stopped or backed up: none is left that nobody can stop.  (A rejected stop leaves a node that nobody can: every caller
\* has dropped the connection by then, and the node runs on, without the device, until the page is gone.  And the end of
\* a logout drops a connection that was made during it without stopping it: the app's own, or the one autoStartFiber
\* makes when a hold ends.)
NoStrayNode ==
    Patient => \A i \in RunIds : HasDevice(i) =>
        \/ i \in {conn} \cup asked \/ runs[i].pc \in {"peers", "undoing"} \/ (out.conn = i /\ out.pc = "backing")

\* A patient app's page leaves for JoyID with its node stopped and never in the middle of a payment; if the stop is
\* rejected it stays.  (Of a session that ends meanwhile, the node is stopped without anyone waiting for it; a node
\* that an earlier rejected stop left up is nobody's any more.)
LeavesStopped ==
    [][LeavesPage /\ Patient /\ "ends" \notin habits =>
       ~paying /\ \A i \in RunIds : ~HasDevice(i) /\ (i = leave.conn => runs[i].node = "none")]_providerVars
=============================================================================
