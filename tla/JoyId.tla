------------------------------- MODULE JoyId -------------------------------
(***************************************************************************)
(* JoyID backups of a cross-origin isolated page: the window and the       *)
(* redirect transport of sdk/browser/joyid-redirect.ts and what            *)
(* KeyWayProvider does with an answer it comes back with.                  *)
(*                                                                         *)
(* With the window transport a tab and a window on its own site talk over  *)
(* a BroadcastChannel while the window goes to JoyID and back; messages    *)
(* to a page that is not loaded are lost.  With the redirect transport the *)
(* tab itself goes to JoyID: what is left of the request is a record in    *)
(* sessionStorage, and the user can go back and forward, sign out and in.  *)
(* A behaviour uses one transport.                                         *)
(*                                                                         *)
(* A request is a number.  Its step is "auth" (connect) or "sign".  JoyID  *)
(* answers with what the step asks for, with a rejection, or with          *)
(* something the step's checks refuse.                                     *)
(***************************************************************************)
EXTENDS Naturals, Sequences, FiniteSets, SequencesExt

CONSTANTS
    Users,
    MaxRequests,  \* bound: requests of the tab
    MaxMoves      \* bound: steps back and forward, reloads, closings, sign-outs

ASSUME JoyIdAssumption == Users # {} /\ Users \subseteq Nat \ {0} /\ MaxRequests \in Nat /\ MaxMoves \in Nat

VARIABLES
    transport, \* chooseJoyIdTransport's, which never changes
    moves,
    requests,  \* the requests so far: step and user
    expired,   \* those whose time is up
    stored,    \* those with a record in sessionStorage: the tab's, or the window's
    session,   \* whose session is stored, 0 is none
    \* the window transport
    tab,       \* the tab's run: where it is, and its request
    told,      \* what the window told the run: "ready", "gone"
    responses, \* the answers of JoyID it received, oldest first
    air,       \* what the window has posted and the tab not received
    go,        \* the request posted to the window and not received, 0 is none
    window,    \* the window: where it is, the request it shows or brings an answer for, and toJoyId
    \* the redirect transport
    history,   \* the tab's session history
    pos,       \* where in it the tab is
    page,      \* the page there, if it is the app's
    applied,   \* the requests whose proof was applied, in order
    over       \* the requests the user was told are over

windowVars == <<tab, told, responses, air, go, window>>
redirectVars == <<session, history, pos, page, applied, over>>
joyIdVars == <<transport, moves, requests, expired, stored, windowVars, redirectVars>>

Steps == {"auth", "sign"}
Kinds == {"answer", "reject", "bad"}
Requests == DOMAIN requests
Request(step, u) == [step |-> step, user |-> u]
NextId == Len(requests) + 1
Moves == moves < MaxMoves /\ moves' = moves + 1

\* Of an app page: whose session and what wallet it has, the request it left with, the check of the answer it was
\* loaded with ("taken" before its session is restored), that answer's request, the proof held and the one being
\* applied, and pendingJoyIdBackup's status.
NewPage == [user |-> session, wallet |-> "none", left |-> 0, check |-> "none", answer |-> 0, kind |-> "answer",
            job |-> 0, working |-> 0, status |-> "none"]
AppEntry(kept) == [site |-> "app", request |-> 0, kept |-> kept]
JoyIdEntry(r) == [site |-> "joyid", request |-> r, kept |-> <<>>]
InApp == transport = "redirect" /\ history[pos].site = "app"

JoyIdInit ==
    /\ transport \in {"window", "redirect"}
    /\ moves = 0 /\ requests = <<>> /\ expired = {} /\ stored = {}
    /\ session = (CHOOSE u \in Users : TRUE)
    /\ tab = [pc |-> "idle", request |-> 0] /\ told = {} /\ responses = <<>> /\ air = <<>> /\ go = 0
    /\ window = [at |-> "none", request |-> 0, kind |-> "answer", toJoyId |-> FALSE]
    /\ history = <<AppEntry(<<>>)>> /\ pos = 1 /\ page = NewPage /\ applied = <<>> /\ over = {}

Expire(r) ==
    /\ r \in Requests \ expired /\ expired' = expired \cup {r}
    /\ UNCHANGED <<transport, moves, requests, stored, windowVars, redirectVars>>

-----------------------------------------------------------------------------
(* The window transport: the tab.                                          *)

InWindow == transport = "window"
Post(m) == air' = IF tab.pc = "settled" THEN air ELSE Append(air, m)

\* startJoyIdBackup: the window opens on the click; the request is made once the account is known.
OpenHelper(step) ==
    /\ InWindow /\ tab.pc = "idle"
    /\ requests' = Append(requests, Request(step, session))
    /\ tab' = [pc |-> "ready", request |-> NextId]
    /\ window' = [window EXCEPT !.at = "loading"]
    /\ UNCHANGED <<transport, moves, expired, stored, told, responses, air, go, redirectVars>>

Receive ==
    /\ air # <<>> /\ tab.pc # "settled" /\ air' = Tail(air)
    /\ IF Head(air).kind = "response" THEN responses' = Append(responses, Head(air)) /\ UNCHANGED told
       ELSE told' = told \cup {Head(air).kind} /\ UNCHANGED responses
    /\ UNCHANGED <<transport, moves, requests, expired, stored, tab, go, window, redirectVars>>

\* The run is over: it closes its channel, and the window unless JoyID's page has cut it off.
Settle ==
    /\ tab' = [tab EXCEPT !.pc = "settled"] /\ told' = {} /\ responses' = <<>> /\ air' = <<>> /\ go' = 0
    /\ window' \in {[window EXCEPT !.at = "closed"]} \cup (IF window.at = "joyid" THEN {window} ELSE {})

Losing(pc) == {"gone"} \cup (IF pc = "response" THEN {"ready"} ELSE {})

\* The run posts its request and forgets what the window said it is ready for before.
Ask(r) ==
    /\ told' = told \ {"ready"}
    /\ go' = r /\ tab' = [pc |-> "response", request |-> r]

\* The window was closed on this site or reloaded.
WindowLost ==
    /\ tab.pc \in {"ready", "response"} /\ told \cap Losing(tab.pc) # {}
    /\ Settle
    /\ UNCHANGED <<transport, moves, requests, expired, stored, redirectVars>>

HelperReady ==
    /\ tab.pc = "ready" /\ "gone" \notin told /\ "ready" \in told
    /\ Ask(tab.request)
    /\ UNCHANGED <<transport, moves, requests, expired, stored, responses, air, window, redirectVars>>

\* checkJoyIdResponse in the tab: the proof, or the sign step after a connect, or the end.
HelperResponds ==
    /\ tab.pc = "response" /\ told \cap Losing("response") = {} /\ responses # <<>>
    /\ LET m == Head(responses)
       IN  IF m.request = tab.request /\ m.answer = "answer" /\ m.request \notin expired /\ requests[m.request].step = "auth"
           THEN /\ tab' = [tab EXCEPT !.pc = "signing"] /\ responses' = Tail(responses)
                /\ UNCHANGED <<told, air, go, window>>
           ELSE Settle
    /\ UNCHANGED <<transport, moves, requests, expired, stored, redirectVars>>

\* signRecord has its challenge, or fails.
SignStep ==
    /\ tab.pc = "signing"
    /\ \/ /\ requests' = Append(requests, Request("sign", session)) /\ Ask(NextId)
          /\ UNCHANGED <<responses, air, window>>
       \/ Settle /\ UNCHANGED requests
    /\ UNCHANGED <<transport, moves, expired, stored, redirectVars>>

\* HELPER_LOAD_MS, the request's time, a closed window noticed while loading, or the app's signal.
RunGivesUp ==
    /\ tab.pc \in {"ready", "response", "signing"}
    /\ \/ Moves
       \/ UNCHANGED moves /\ (tab.pc = "response" => tab.request \in expired) /\ tab.pc # "signing"
    /\ Settle
    /\ UNCHANGED <<transport, requests, expired, stored, redirectVars>>

-----------------------------------------------------------------------------
(* The window transport: runJoyIdHelper in the window.                     *)

\* Its page is loaded: with JoyID's answer to a request it recorded, taken now; or ready for a request.
HelperLoads ==
    /\ window.at = "loading"
    /\ window' = [window EXCEPT !.at = "page", !.toJoyId = FALSE]
    /\ IF window.request = 0 THEN Post([kind |-> "ready", request |-> 0, answer |-> "none"]) /\ UNCHANGED stored
       ELSE /\ stored' = stored \ {window.request}
            /\ IF window.request \in stored
               THEN Post([kind |-> "response", request |-> window.request, answer |-> window.kind])
               ELSE UNCHANGED air
    /\ UNCHANGED <<transport, moves, requests, expired, tab, told, responses, go, redirectVars>>

\* It records the request it is sent and leaves for JoyID.
HelperGoes ==
    /\ go # 0 /\ go' = 0
    /\ IF window.at = "page"
       THEN stored' = stored \cup {go} /\ window' = [window EXCEPT !.toJoyId = TRUE, !.request = go]
       ELSE UNCHANGED <<stored, window>>
    /\ UNCHANGED <<transport, moves, requests, expired, tab, told, responses, air, redirectVars>>

HelperAtJoyId ==
    /\ window.at = "page" /\ window.toJoyId
    /\ window' = [window EXCEPT !.at = "joyid"]
    /\ UNCHANGED <<transport, moves, requests, expired, stored, tab, told, responses, air, go, redirectVars>>

JoyIdAnswers(kind) ==
    /\ window.at = "joyid"
    /\ window' = [window EXCEPT !.at = "loading", !.kind = kind]
    /\ UNCHANGED <<transport, moves, requests, expired, stored, tab, told, responses, air, go, redirectVars>>

\* pagehide: closing or leaving it for anything but JoyID tells the tab.
Hide ==
    IF window.at = "page" /\ ~window.toJoyId THEN Post([kind |-> "gone", request |-> 0, answer |-> "none"])
    ELSE UNCHANGED air

HelperClosed ==
    /\ Moves /\ window.at \notin {"none", "closed"}
    /\ Hide /\ window' = [window EXCEPT !.at = "closed"]
    /\ UNCHANGED <<transport, requests, expired, stored, tab, told, responses, go, redirectVars>>

HelperReloads ==
    /\ Moves /\ window.at = "page"
    /\ Hide /\ window' = [window EXCEPT !.at = "loading", !.request = 0]
    /\ UNCHANGED <<transport, requests, expired, stored, tab, told, responses, go, redirectVars>>

\* Mutant: a window that comes back from the browser's cache does not tell.
HelperBackQuietly ==
    /\ Moves /\ window.at = "joyid"
    /\ \/ window' = [window EXCEPT !.at = "page", !.request = 0, !.toJoyId = FALSE]
       \/ window' = [window EXCEPT !.at = "loading", !.request = 0]
    /\ UNCHANGED <<transport, requests, expired, stored, tab, told, responses, air, go, redirectVars>>

\* Back from JoyID's page, into the page the browser kept (pageshow) or a new one.
HelperBack ==
    /\ Moves /\ window.at = "joyid"
    /\ \/ /\ window' = [window EXCEPT !.at = "page", !.request = 0, !.toJoyId = FALSE]
          /\ Post([kind |-> "gone", request |-> 0, answer |-> "none"])
       \/ window' = [window EXCEPT !.at = "loading", !.request = 0] /\ UNCHANGED air
    /\ UNCHANGED <<transport, requests, expired, stored, tab, told, responses, go, redirectVars>>

\* Back from its own page to the one of JoyID it came from.
HelperBackToJoyId ==
    /\ Moves /\ window.at = "page" /\ ~window.toJoyId /\ window.request # 0
    /\ Hide /\ window' = [window EXCEPT !.at = "joyid"]
    /\ UNCHANGED <<transport, requests, expired, stored, tab, told, responses, go, redirectVars>>

-----------------------------------------------------------------------------
(* The redirect transport: leaving, coming back, going back and forward.   *)

\* leaveForJoyId: the request is recorded and the page, which the browser may keep as p, replaced by JoyID's.
LeaveForJoyId(step, u, p) ==
    /\ Len(requests) < MaxRequests
    /\ requests' = Append(requests, Request(step, u)) /\ stored' = stored \cup {NextId}
    /\ \E kept \in {<<>>, <<p>>} :
         history' = SubSeq(history, 1, pos - 1) \o <<AppEntry(kept), JoyIdEntry(NextId)>>
    /\ pos' = pos + 1

\* joyIdBackupByRedirect, with JoyID's address known or not.
Leave(step) ==
    /\ InApp /\ page.left = 0 /\ page.check = "none" /\ page.user # 0 /\ page.wallet = "ready"
    /\ LeaveForJoyId(step, page.user, [page EXCEPT !.left = NextId])
    /\ UNCHANGED <<transport, moves, expired, windowVars, session, page, applied, over>>

\* captureJoyIdReturn and the provider's first effect: the answer leaves the address bar, its record sessionStorage.
TakenOnLoad(r, kind) ==
    /\ page' = [NewPage EXCEPT !.check = "taken", !.answer = IF r \in stored THEN r ELSE 0, !.kind = kind,
                              !.status = "checking"]
    /\ stored' = stored \ {r}

Returns(kind) ==
    /\ transport = "redirect" /\ history[pos].site = "joyid"
    /\ TakenOnLoad(history[pos].request, kind)
    /\ history' = Append(SubSeq(history, 1, pos), AppEntry(<<>>)) /\ pos' = pos + 1
    /\ UNCHANGED <<transport, moves, requests, expired, windowVars, session, applied, over>>

\* Mutant: the page kept while its user was at JoyID rejects the call and leaves the record.
ShownAgainStays(p) ==
    /\ page' = [p EXCEPT !.left = 0]
    /\ over' = over \cup ({p.left} \ {0}) /\ UNCHANGED stored

\* pageshow of a page the browser kept: the request it left with is over, its record taken.
ShownAgain(p) ==
    /\ page' = [p EXCEPT !.left = 0]
    /\ over' = over \cup ({p.left} \ {0}) /\ stored' = stored \ {p.left}

\* Back or forward to the next entry: JoyID's page, the app's page as it was kept, or loaded again.
Travels(to) ==
    /\ transport = "redirect" /\ Moves /\ to \in DOMAIN history
    /\ pos' = to
    /\ \E kept \in {<<>>, <<page>>} :
         history' = IF history[pos].site = "app" THEN [history EXCEPT ![pos] = AppEntry(kept)] ELSE history
    /\ \/ history[to].site = "joyid" /\ UNCHANGED <<page, over, stored>>
       \/ history[to].kept # <<>> /\ ShownAgain(Head(history[to].kept))
       \/ history[to].site = "app" /\ history[to].kept = <<>> /\ page' = NewPage /\ UNCHANGED <<over, stored>>
    /\ UNCHANGED <<transport, requests, expired, windowVars, session, applied>>

-----------------------------------------------------------------------------
(* The redirect transport: the provider, once its session is restored.     *)

\* resumeJoyIdRedirect and checkJoyIdResponse: the answer is to a request recorded here, by this user, in time.
Resume ==
    /\ InApp /\ page.check = "taken"
    /\ LET r == page.answer
           good == r # 0 /\ page.kind = "answer" /\ page.user = requests[r].user /\ r \notin expired
       IN  page' = [page EXCEPT !.check = IF good THEN "accepted" ELSE "refused"]
    /\ UNCHANGED <<transport, moves, requests, expired, stored, windowVars, session, history, pos, applied, over>>

\* The check ends: the backup failed, and the provider no longer holds the wallet back.
ResumeFails ==
    /\ InApp
    /\ \/ page.check = "refused"
       \/ page.check = "accepted" /\ requests[page.answer].step = "auth"
    /\ page' = [page EXCEPT !.check = "none", !.status = "failed"]
    /\ over' = over \cup ({page.answer} \ {0})
    /\ UNCHANGED <<transport, moves, requests, expired, stored, windowVars, session, history, pos, applied>>

\* After the connect it has a challenge and leaves with the sign step.
Continue ==
    /\ InApp /\ page.check = "accepted" /\ requests[page.answer].step = "auth"
    /\ LeaveForJoyId("sign", requests[page.answer].user, [page EXCEPT !.check = "continuing", !.status = "continuing"])
    /\ UNCHANGED <<transport, moves, expired, windowVars, session, page, applied, over>>

\* PendingJoyIdProof.hold.
Hold ==
    /\ InApp /\ page.check = "accepted" /\ requests[page.answer].step = "sign"
    /\ page' = [page EXCEPT !.check = "none", !.job = page.answer, !.status = "applying"]
    /\ UNCHANGED <<transport, moves, requests, expired, stored, windowVars, session, history, pos, applied, over>>

WalletStarts ==
    /\ InApp /\ page.user # 0 /\ page.wallet # "ready" /\ page.check = "none"
    /\ page' = [page EXCEPT !.wallet = "ready"]
    /\ UNCHANGED <<transport, moves, requests, expired, stored, windowVars, session, history, pos, applied, over>>

\* PendingJoyIdProof.walletFailed: the proof stays held.
WalletFails ==
    /\ InApp /\ page.user # 0 /\ page.wallet = "none" /\ page.check = "none"
    /\ page' = [page EXCEPT !.wallet = "failed", !.status = IF page.job # 0 THEN "failed" ELSE page.status]
    /\ UNCHANGED <<transport, moves, requests, expired, stored, windowVars, session, history, pos, applied, over>>

\* PendingJoyIdProof.apply.
Apply ==
    /\ InApp /\ page.job # 0 /\ page.user # 0 /\ page.wallet = "ready"
    /\ page' = [page EXCEPT !.job = 0, !.working = page.job, !.status = "applying"]
    /\ applied' = Append(applied, page.job)
    /\ UNCHANGED <<transport, moves, requests, expired, stored, windowVars, session, history, pos, over>>

ApplyEnds(status) ==
    /\ InApp /\ page.working # 0
    /\ page' = [page EXCEPT !.working = 0, !.status = status]
    /\ UNCHANGED <<transport, moves, requests, expired, stored, windowVars, session, history, pos, applied, over>>

\* PendingJoyIdProof.dismiss: a held proof is dropped, and what still applies reports nothing.
Dismissed(p) == [p EXCEPT !.job = 0, !.working = 0, !.status = "none"]

Dismiss ==
    /\ InApp /\ Moves /\ page.status \in {"applying", "failed", "done"}
    /\ page' = Dismissed(page) /\ over' = over \cup ({page.job} \ {0})
    /\ UNCHANGED <<transport, requests, expired, stored, windowVars, session, history, pos, applied>>

\* The signed-out effect drops a held proof.
SignOut ==
    /\ InApp /\ Moves /\ page.user # 0 /\ session' = 0
    /\ page' = [(IF page.job # 0 THEN Dismissed(page) ELSE page) EXCEPT !.user = 0, !.wallet = "none"]
    /\ over' = over \cup ({page.job} \ {0})
    /\ UNCHANGED <<transport, requests, expired, stored, windowVars, history, pos, applied>>

SignIn(u) ==
    /\ InApp /\ page.user = 0 /\ session' = u /\ page' = [page EXCEPT !.user = u]
    /\ UNCHANGED <<transport, moves, requests, expired, stored, windowVars, history, pos, applied, over>>

-----------------------------------------------------------------------------
JoyIdNext ==
    \/ \E r \in Requests : Expire(r)
    \/ \E step \in Steps : OpenHelper(step) \/ Leave(step)
    \/ Receive \/ WindowLost \/ HelperReady \/ HelperResponds \/ SignStep \/ RunGivesUp
    \/ HelperLoads \/ HelperGoes \/ HelperAtJoyId \/ HelperClosed \/ HelperReloads \/ HelperBack \/ HelperBackToJoyId
    \/ \E kind \in Kinds : JoyIdAnswers(kind) \/ Returns(kind)
    \/ \E to \in {pos - 1, pos + 1} : Travels(to)
    \/ Resume \/ ResumeFails \/ Continue \/ Hold \/ WalletStarts \/ WalletFails \/ Apply
    \/ \E status \in {"done", "failed"} : ApplyEnds(status)
    \/ Dismiss \/ SignOut \/ \E u \in Users : SignIn(u)

JoyIdSpec == JoyIdInit /\ [][JoyIdNext]_joyIdVars

-----------------------------------------------------------------------------
(* Properties *)

\* A run that waits for the window's answer, with no message to come, waits for JoyID: while the window is on this site,
\* it was told, unless the request is on its way to it.
WaitsForJoyId ==
    tab.pc = "response" /\ told = {} /\ responses = <<>> /\ air = <<>> /\ go = 0 =>
        window.at \in {"joyid", "loading", "closed"} \/ window.toJoyId

\* A redirect's request is answered for good: its proof is applied once, and once it was applied, or the user was told
\* that it is over, nothing is recorded that an answer could still be taken with, whatever they do with Back and Forward.
AnsweredOnce ==
    IsInjective(applied) /\ stored \cap (over \cup Range(applied)) = {}
=============================================================================
