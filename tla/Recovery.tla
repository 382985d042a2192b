------------------------------ MODULE Recovery ------------------------------
(***************************************************************************)
(* Account recovery on the server (server/recovery.ts), the SDK flow that  *)
(* drives it (sdk/browser/account-recovery.ts) and the sweep of the old    *)
(* address (server/legacy-sweep.ts).                                       *)
(*                                                                         *)
(* Pages of one user turn recovery on and add or remove backups: preview,  *)
(* approval, emailed code, apply.  Apply runs under the user's database    *)
(* lock and signs, records and sends one transaction; the stored list      *)
(* changes when a later status check or sign-in finds that transaction     *)
(* committed.  Between the steps the account's cells change, pages replace *)
(* each other's request, the server dies and answers of the node get lost. *)
(*                                                                         *)
(* A transaction is its content: two plans with the same content are the   *)
(* same transaction.  The old address holds cells by number; the plain     *)
(* cells of the new address are a version that every transaction spending  *)
(* them advances.                                                          *)
(***************************************************************************)
EXTENDS Naturals, Sequences, FiniteSets

CONSTANTS
    Tabs, Backups,
    FirstLists,       \* the lists a page turns recovery on with (a bound)
    MaxBackups,       \* MAX_RECOVERY_BACKUPS
    MaxCodeAttempts,  \* MAX_CODE_ATTEMPTS
    MaxMoves,         \* deposits at the old address and transactions of the account made elsewhere (a bound)
    MaxTxs, MaxPreviews, MaxFaults,  \* bounds
    None

\* The lists a user may have: one to MAX_RECOVERY_BACKUPS backups.
Lists == {l \in SUBSET Backups : IsFiniteSet(l) /\ l # {} /\ Cardinality(l) <= MaxBackups}
Wants == [kind : {"enable"}, list : FirstLists] \cup [kind : {"add", "remove"}, backup : Backups]
Idle == [step |-> "idle"]

\* The transactions the server signs, and what it and the pages keep of them.
Places == {"hand", "pool", "chain", "gone"}
Contents == [kind : {"enable", "add", "remove"}, list : Lists, spends : SUBSET Nat, after : Nat, account : Nat, purse : Nat,
             bound : BOOLEAN]
Sweeps == [kind : {"sweep"}, spends : SUBSET Nat]
Requests == [nonce : Nat, plan : Contents, signer : BOOLEAN, code : BOOLEAN, tries : 0 .. MaxCodeAttempts]
Showing == [step : {"approved", "coded", "applying"}, want : Wants, nonce : Nat, plan : Contents]
Flows == {Idle} \cup Showing \cup [step : {"waiting"}, tx : Nat] \cup [step : {"told"}, tx : Nat, confirmed : BOOLEAN]
Applying == [step : {"loaded", "confirmed", "viewed", "signed", "consumed", "saved"}, tab : Tabs, nonce : Nat, right : BOOLEAN,
             shown : Contents, plan : Contents, policy : BOOLEAN, tx : Nat]
Sweeping == [tx : Nat, recorded : BOOLEAN]
Recorded == [tx : Nat, old : BOOLEAN]

ASSUME RecoveryAssumption ==
    /\ MaxBackups \in Nat \ {0} /\ MaxCodeAttempts \in Nat \ {0}
    /\ MaxMoves \in Nat /\ MaxTxs \in Nat /\ MaxPreviews \in Nat /\ MaxFaults \in Nat
    /\ FirstLists \subseteq Lists
    /\ \A l \in SUBSET Backups : l # None
    /\ None \notin Contents \cup Requests \cup Applying \cup Sweeping \cup Recorded

VARIABLES
    txs,       \* the transactions the server signed, in order
    at,        \* where each is: "hand", "pool", "chain" or "gone"
    old,       \* live cells of the old address
    lagging,   \* spent cells of the old address the indexer still lists
    cells,     \* cells the old address has had
    purse,     \* the version of the new address's plain cells
    wallet,    \* the stored wallet's recovery and recoveryPending
    policy,    \* whether LIT_SIGNER is "policy"
    request,   \* the user's row of keyway_v2_signature_requests for recovery
    previews,  \* requests issued so far
    tab,       \* each page's flow
    holder,    \* the apply handler that holds the user's lock
    sweeper,   \* the sweep that holds the sweep lock
    last,      \* keyway_v2_legacy_sweeps
    faults, moves,
    approved,  \* history: the plans the user approved and confirmed with the right code
    disowned   \* history: transactions the server cleared, dropped or forgot

chainVars == <<at, old, lagging, cells, purse, moves>>
serverVars == <<wallet, request, previews, holder>>
sweepVars == <<sweeper, last>>
history == <<approved, disowned>>
vars == <<txs, chainVars, serverVars, policy, tab, sweepVars, faults, history>>

Init ==
    /\ txs = <<>> /\ at = <<>> /\ old = {1} /\ lagging = {} /\ cells = 1 /\ purse = 0 /\ moves = 0
    /\ wallet = [recovery |-> 0, pending |-> None]
    /\ policy \in BOOLEAN
    /\ request = None /\ previews = 0
    /\ tab = [t \in Tabs |-> Idle]
    /\ holder = None /\ sweeper = None /\ last = None
    /\ faults = 0 /\ approved = {} /\ disowned = {}

-----------------------------------------------------------------------------
(* The transactions and the chain.                                         *)

Txs == 1 .. Len(txs)
Fault == faults < MaxFaults /\ faults' = faults + 1

Change(i) == txs[i].kind \in {"add", "remove"}
Sweep(i) == txs[i].kind = "sweep"

\* The transaction that made the recovery list a list belongs to.
Account(i) == IF Change(i) THEN txs[i].account ELSE i

\* The live recovery list of an account: the committed transaction whose list no committed one replaced.
LiveLists(a) ==
    {i \in Txs : /\ at[i] = "chain" /\ ~Sweep(i) /\ Account(i) = a
                 /\ ~\E j \in Txs : Change(j) /\ at[j] = "chain" /\ txs[j].after = i}

InputsLive(i) ==
    /\ txs[i].spends \subseteq old
    /\ Change(i) => txs[i].after \in LiveLists(txs[i].account) /\ txs[i].purse = purse

Conflict(i, j) ==
    /\ i # j
    /\ \/ txs[i].spends \cap txs[j].spends # {}
       \/ Change(i) /\ Change(j) /\ txs[i].account = txs[j].account /\ (txs[i].after = txs[j].after \/ txs[i].purse = txs[j].purse)

\* The node takes a transaction with live inputs that no pool transaction spends.
NodeTakes(i) ==
    /\ at[i] \notin {"pool", "chain"} /\ InputsLive(i)
    /\ \A j \in Txs : at[j] = "pool" => ~Conflict(i, j)

Commit(i) ==
    /\ at[i] = "pool" /\ InputsLive(i)
    /\ at' = [at EXCEPT ![i] = "chain"]
    /\ old' = old \ txs[i].spends /\ lagging' = lagging \cup txs[i].spends
    /\ purse' = IF Change(i) THEN purse + 1 ELSE purse
    /\ UNCHANGED <<txs, cells, moves, serverVars, policy, tab, sweepVars, faults, history>>

\* The pool drops a transaction, or takes one back that other nodes kept.
Drop(i) ==
    /\ at[i] = "pool" /\ at' = [at EXCEPT ![i] = "gone"]
    /\ IF InputsLive(i) THEN Fault ELSE UNCHANGED faults
    /\ UNCHANGED <<txs, old, lagging, cells, purse, moves, serverVars, policy, tab, sweepVars, history>>

Return(i) ==
    /\ at[i] = "gone" /\ NodeTakes(i) /\ at' = [at EXCEPT ![i] = "pool"]
    /\ UNCHANGED <<txs, old, lagging, cells, purse, moves, serverVars, policy, tab, sweepVars, faults, history>>

IndexerCatchesUp ==
    /\ lagging # {} /\ lagging' = {}
    /\ UNCHANGED <<txs, at, old, cells, purse, moves, serverVars, policy, tab, sweepVars, faults, history>>

Move == moves < MaxMoves /\ moves' = moves + 1

Deposit ==
    /\ Move /\ cells' = cells + 1 /\ old' = old \cup {cells + 1}
    /\ UNCHANGED <<txs, at, lagging, purse, serverVars, policy, tab, sweepVars, faults, history>>

\* Another transaction of the account, signed elsewhere, commits.
SpendElsewhere ==
    /\ Move
    /\ \/ \E c \in old : old' = old \ {c} /\ lagging' = lagging \cup {c} /\ UNCHANGED purse
       \/ wallet.recovery # 0 /\ purse' = purse + 1 /\ UNCHANGED <<old, lagging>>
    /\ UNCHANGED <<txs, at, cells, serverVars, policy, tab, sweepVars, faults, history>>

Chain ==
    \/ \E i \in Txs : Commit(i) \/ Drop(i) \/ Return(i)
    \/ IndexerCatchesUp \/ Deposit \/ SpendElsewhere

-----------------------------------------------------------------------------
(* Plans.                                                                  *)

\* planRecovery and planBackupChange refuse by giving None.
Listed == old \cup lagging

Signer(want) ==
    IF want.kind = "enable" THEN policy ELSE policy /\ wallet.recovery # 0 /\ txs[wallet.recovery].bound

EnablePlan(list) ==
    IF Listed = {} THEN None
    ELSE [kind |-> "enable", list |-> list, spends |-> Listed, after |-> 0, account |-> 0, purse |-> 0, bound |-> policy]

\* The stored list must be the one on chain.
Current == {i \in LiveLists(Account(wallet.recovery)) : txs[i].list = txs[wallet.recovery].list}

NewList(want, list) ==
    IF want.kind = "add"
    THEN IF want.backup \in list \/ Cardinality(list) >= MaxBackups THEN None ELSE list \cup {want.backup}
    ELSE IF want.backup \notin list \/ Cardinality(list) = 1 THEN None ELSE list \ {want.backup}

ChangePlan(want) ==
    IF Current = {} THEN None
    ELSE LET i == CHOOSE i \in Current : TRUE
             list == NewList(want, txs[i].list)
         IN  IF list = None THEN None
             ELSE [kind |-> want.kind, list |-> list, spends |-> {}, after |-> i, account |-> Account(i),
                   purse |-> purse, bound |-> txs[i].bound]

Plan(want) == IF want.kind = "enable" THEN EnablePlan(want.list) ELSE ChangePlan(want)

\* The operation is refused while a change is pending, and for the wrong kind of account.
Refused(want) ==
    \/ wallet.pending # None
    \/ (want.kind = "enable") # (wallet.recovery = 0)

-----------------------------------------------------------------------------
(* The page and the handlers it calls outside the lock.                    *)

Preview(t, want) ==
    /\ tab[t].step = "idle" /\ previews < MaxPreviews
    /\ ~Refused(want) /\ Plan(want) # None
    /\ previews' = previews + 1
    /\ request' = [nonce |-> previews + 1, plan |-> Plan(want), signer |-> Signer(want), code |-> FALSE, tries |-> 0]
    /\ tab' = [tab EXCEPT ![t] = [step |-> "approved", want |-> want, nonce |-> previews + 1, plan |-> Plan(want)]]
    /\ UNCHANGED <<txs, chainVars, wallet, policy, holder, sweepVars, faults, history>>

\* Mutant: the request is not bound to the plan and the signer.
RequestStandsForAny(flow) ==
    /\ ~Refused(flow.want) /\ Plan(flow.want) # None
    /\ request # None /\ request.nonce = flow.nonce

\* loadRequest and checkSignerMode: the row is still this one, for this plan, under this signer.
RequestStands(flow) ==
    /\ ~Refused(flow.want) /\ Plan(flow.want) # None
    /\ request # None /\ request.nonce = flow.nonce
    /\ request.plan = Plan(flow.want) /\ request.signer = Signer(flow.want)

\* The first code and every resend; an expired request ends the flow.
RequestCode(t) ==
    /\ tab[t].step \in {"approved", "coded"}
    /\ IF RequestStands(tab[t])
       THEN /\ request' = [request EXCEPT !.code = TRUE, !.tries = 0]
            /\ tab' = [tab EXCEPT ![t].step = "coded"]
       ELSE tab' = [tab EXCEPT ![t] = Idle] /\ UNCHANGED request
    /\ UNCHANGED <<txs, chainVars, wallet, policy, previews, holder, sweepVars, faults, history>>

\* The user cancels, or leaves the page.
Cancel(t) ==
    /\ tab[t].step \in {"approved", "coded", "applying", "waiting", "told"}
    /\ tab' = [tab EXCEPT ![t] = Idle]
    /\ UNCHANGED <<txs, chainVars, serverVars, policy, sweepVars, faults, history>>

Expire ==
    /\ request # None /\ request' = None
    /\ UNCHANGED <<txs, chainVars, wallet, policy, previews, tab, holder, sweepVars, faults, history>>

\* KeyWay is deployed with LIT_SIGNER set to policy.
SwitchSigner ==
    /\ ~policy /\ holder = None /\ policy' = TRUE
    /\ UNCHANGED <<txs, chainVars, serverVars, tab, sweepVars, faults, history>>

-----------------------------------------------------------------------------
(* Apply, under the user's lock: enable and the backup changes.            *)

\* The handler waits for the lock, reads the wallet again and plans again.
Enter(t, right) ==
    /\ tab[t].step = "coded" /\ holder = None
    /\ IF RequestStands(tab[t])
       THEN /\ holder' = [step |-> "loaded", tab |-> t, nonce |-> tab[t].nonce, right |-> right, shown |-> tab[t].plan,
                          plan |-> Plan(tab[t].want), policy |-> Signer(tab[t].want), tx |-> 0]
            /\ tab' = [tab EXCEPT ![t].step = "applying"]
       ELSE tab' = [tab EXCEPT ![t] = Idle] /\ UNCHANGED holder
    /\ UNCHANGED <<txs, chainVars, wallet, request, previews, policy, sweepVars, faults, history>>

\* The handler ends; its answer reaches the page unless the page is gone.
Waits(t) == tab[t].step = "applying" /\ tab[t].nonce = holder.nonce

Answer(next) ==
    /\ holder' = None
    /\ IF Waits(holder.tab) THEN tab' = [tab EXCEPT ![holder.tab] = next] ELSE UNCHANGED tab

RequestIsOurs == request # None /\ request.nonce = holder.nonce

\* A code that is wrong, out of tries or no longer there: the prompt stays open.
RefuseCode ==
    /\ IF RequestIsOurs /\ request.tries < MaxCodeAttempts
       THEN ~holder.right /\ request' = [request EXCEPT !.tries = @ + 1]
       ELSE UNCHANGED request
    /\ Answer([tab[holder.tab] EXCEPT !.step = "coded"])
    /\ UNCHANGED <<previews, approved>>

\* verifyCode and consumeRequest; with the policy Action the try is only counted, the Action checks the code.
AcceptCode ==
    /\ RequestIsOurs /\ holder.right /\ request.tries < MaxCodeAttempts
    /\ request' = IF holder.policy THEN [request EXCEPT !.tries = @ + 1] ELSE None
    /\ approved' = approved \cup {holder.shown}
    /\ holder' = [holder EXCEPT !.step = "confirmed"]
    /\ UNCHANGED <<previews, tab>>

CheckCode ==
    /\ holder # None /\ holder.step = "loaded"
    /\ RefuseCode \/ AcceptCode
    /\ UNCHANGED <<txs, chainVars, wallet, policy, sweepVars, faults, disowned>>

\* The transaction with this content: signed before, or new.
Sign(plan, i) ==
    /\ i <= MaxTxs
    /\ \/ i \in Txs /\ txs[i] = plan /\ UNCHANGED <<txs, at>>
       \/ /\ i = Len(txs) + 1 /\ \A j \in Txs : txs[j] # plan
          /\ txs' = Append(txs, plan) /\ at' = Append(at, "hand")

\* The committed enables whose list the indexer shows; a list is only ever replaced by its successor.
IndexedLists == {i \in Txs : at[i] = "chain" /\ txs[i].kind = "enable" /\ txs[i].spends \cap lagging = {}}

\* The policy Action looks at the chain before it signs an enable: enableView.
ActionLooks == holder.policy /\ holder.plan.kind = "enable"

\* Its first read: an enable must spend every cell the old address shows.
ReadCells ==
    /\ holder # None /\ holder.step = "confirmed" /\ ActionLooks
    /\ IF Listed \subseteq holder.plan.spends THEN holder' = [holder EXCEPT !.step = "viewed"] /\ UNCHANGED tab
       ELSE Answer(Idle)
    /\ UNCHANGED <<txs, chainVars, wallet, request, previews, policy, sweepVars, faults, history>>

\* Its second read: an account with a list gets no other.
SignChange ==
    /\ holder # None /\ holder.step = IF ActionLooks THEN "viewed" ELSE "confirmed"
    /\ IF ActionLooks /\ IndexedLists # {} THEN Answer(Idle) /\ UNCHANGED <<txs, at>>
       ELSE /\ \E i \in 1 .. Len(txs) + 1 :
                 /\ Sign(holder.plan, i)
                 /\ holder' = [holder EXCEPT !.step = IF holder.policy THEN "signed" ELSE "consumed", !.tx = i]
            /\ UNCHANGED tab
    /\ UNCHANGED <<old, lagging, cells, purse, moves, wallet, request, previews, policy, sweepVars, faults, history>>

\* With the policy Action the request is used up only now; one that was replaced meanwhile ends the apply.
Consume ==
    /\ holder # None /\ holder.step = "signed"
    /\ IF RequestIsOurs THEN request' = None /\ holder' = [holder EXCEPT !.step = "consumed"] /\ UNCHANGED tab
       ELSE Answer(Idle) /\ UNCHANGED request
    /\ UNCHANGED <<txs, chainVars, wallet, previews, policy, sweepVars, faults, history>>

\* The pending change is recorded before its transaction is sent.
SaveChange ==
    /\ holder # None /\ holder.step = "consumed"
    /\ wallet' = [wallet EXCEPT !.pending = [tx |-> holder.tx, old |-> FALSE]]
    /\ holder' = [holder EXCEPT !.step = "saved"] /\ disowned' = disowned \ {holder.tx}
    /\ UNCHANGED <<txs, chainVars, request, previews, policy, tab, sweepVars, faults, approved>>

Clear ==
    /\ wallet' = [wallet EXCEPT !.pending = None] /\ disowned' = disowned \cup {holder.tx}
    /\ Answer(Idle)

\* broadcast: any error of the node clears the pending change, a lost answer too.
SendChange ==
    /\ holder # None /\ holder.step = "saved"
    /\ \/ /\ NodeTakes(holder.tx) /\ at' = [at EXCEPT ![holder.tx] = "pool"]
          /\ \/ /\ Answer([step |-> "waiting", tx |-> holder.tx]) /\ UNCHANGED <<wallet, disowned, faults>>
             \/ Fault /\ Clear
       \/ Clear /\ UNCHANGED at /\ IF NodeTakes(holder.tx) THEN Fault ELSE UNCHANGED faults
    /\ UNCHANGED <<txs, old, lagging, cells, purse, moves, request, previews, policy, sweepVars, approved>>

\* The server dies: the lock is released, the wallet stays as it was saved last.
Crash ==
    /\ holder # None \/ sweeper # None
    /\ Fault
    /\ IF holder # None THEN Answer(Idle) ELSE UNCHANGED <<holder, tab>>
    /\ sweeper' = None
    /\ UNCHANGED <<txs, chainVars, wallet, request, previews, policy, last, history>>

Apply == CheckCode \/ ReadCells \/ SignChange \/ Consume \/ SaveChange \/ SendChange

-----------------------------------------------------------------------------
(* Settling a change: every status check and every sign-in.                *)

\* PENDING_GRACE_MS passes; it matters only for a transaction the node does not know.
Unknown(i) == at[i] \in {"hand", "gone"}

PendingAges ==
    /\ wallet.pending # None /\ ~wallet.pending.old /\ Unknown(wallet.pending.tx)
    /\ wallet' = [wallet EXCEPT !.pending.old = TRUE]
    /\ UNCHANGED <<txs, chainVars, request, previews, holder, policy, tab, sweepVars, faults, history>>

Adopts == wallet.pending # None /\ at[wallet.pending.tx] = "chain"

\* Mutant: only a change the node had is dropped.
DropsRejected == wallet.pending # None /\ at[wallet.pending.tx] = "gone"

Drops == wallet.pending # None /\ Unknown(wallet.pending.tx) /\ wallet.pending.old

Settled ==
    IF Adopts THEN [recovery |-> wallet.pending.tx, pending |-> None]
    ELSE IF Drops THEN [wallet EXCEPT !.pending = None] ELSE wallet

Settle ==
    /\ holder = None /\ wallet' = Settled
    /\ disowned' = IF Drops THEN disowned \cup {wallet.pending.tx} ELSE disowned
    /\ UNCHANGED <<txs, chainVars, request, previews, holder, policy, sweepVars, faults, approved>>

SignIn == wallet.pending # None /\ Settle /\ UNCHANGED tab

\* waitForCommit: the page learns that its change confirmed, or that it didn't, or gives up waiting.
Poll(t) ==
    /\ tab[t].step = "waiting" /\ Settle
    /\ IF Settled.pending # None /\ Settled.pending.tx = tab[t].tx THEN tab' \in {tab, [tab EXCEPT ![t] = Idle]}
       ELSE tab' = [tab EXCEPT ![t] = [step |-> "told", tx |-> tab[t].tx, confirmed |-> Settled.recovery = tab[t].tx]]

-----------------------------------------------------------------------------
(* The sweep of the old address, after a sign-in with recovery on.         *)

\* Mutant: a sweep counts as gone by its age alone.
LastDecisionByAge ==
    IF last = None THEN "none"
    ELSE IF at[last.tx] = "chain" THEN "committed"
    ELSE IF last.old THEN "gone" ELSE "wait"

\* lastSweepDecision.
LastDecision ==
    IF last = None THEN "none"
    ELSE IF at[last.tx] = "pool" THEN "wait"
    ELSE IF at[last.tx] = "chain" THEN "committed"
    ELSE IF last.old THEN "gone" ELSE "wait"

\* The cells a sweep moves: what the indexer lists, but the last sweep's inputs once it committed.
SweepPlan ==
    [kind |-> "sweep",
     spends |-> Listed \ (IF LastDecision = "committed" THEN txs[last.tx].spends ELSE {})]

StartSweep ==
    /\ sweeper = None /\ wallet.recovery # 0 /\ LastDecision # "wait"
    /\ last # None \/ SweepPlan.spends # {}
    /\ last' = None
    /\ disowned' = IF last # None /\ Unknown(last.tx) /\ last.old THEN disowned \cup {last.tx} ELSE disowned
    /\ IF SweepPlan.spends = {} THEN UNCHANGED <<txs, at, sweeper>>
       ELSE \E i \in 1 .. Len(txs) + 1 : Sign(SweepPlan, i) /\ sweeper' = [tx |-> i, recorded |-> FALSE]
    /\ UNCHANGED <<old, lagging, cells, purse, moves, serverVars, policy, tab, faults, approved>>

RecordSweep ==
    /\ sweeper # None /\ ~sweeper.recorded
    /\ last' = [tx |-> sweeper.tx, old |-> FALSE] /\ sweeper' = [sweeper EXCEPT !.recorded = TRUE]
    /\ disowned' = disowned \ {sweeper.tx}
    /\ UNCHANGED <<txs, chainVars, serverVars, policy, tab, faults, approved>>

SendSweep ==
    /\ sweeper # None /\ sweeper.recorded /\ sweeper' = None
    /\ \/ /\ NodeTakes(sweeper.tx) /\ at' = [at EXCEPT ![sweeper.tx] = "pool"]
          /\ \/ UNCHANGED <<last, disowned, faults>>
             \/ Fault /\ last' = None /\ disowned' = disowned \cup {sweeper.tx}
       \/ /\ UNCHANGED at /\ last' = None /\ disowned' = disowned \cup {sweeper.tx}
          /\ IF NodeTakes(sweeper.tx) THEN Fault ELSE UNCHANGED faults
    /\ UNCHANGED <<txs, old, lagging, cells, purse, moves, serverVars, policy, tab, approved>>

\* UNKNOWN_GRACE_MS passes.
SweepAges ==
    /\ last # None /\ ~last.old /\ Unknown(last.tx)
    /\ last' = [last EXCEPT !.old = TRUE]
    /\ UNCHANGED <<txs, chainVars, serverVars, policy, tab, sweeper, faults, history>>

SweepOld == StartSweep \/ RecordSweep \/ SendSweep \/ SweepAges

Page(t) ==
    \/ \E want \in Wants : Preview(t, want)
    \/ RequestCode(t) \/ Cancel(t) \/ Poll(t)
    \/ \E right \in BOOLEAN : Enter(t, right)

Next ==
    \/ \E t \in Tabs : Page(t)
    \/ Apply \/ Crash \/ Expire \/ SwitchSigner
    \/ PendingAges \/ SignIn \/ SweepOld \/ Chain

\* A handler goes on, the chain takes or drops a transaction, time passes, and the user signs in again.
Fairness ==
    /\ WF_vars(Apply) /\ WF_vars(SignIn) /\ WF_vars(PendingAges)
    /\ WF_vars(\E i \in Txs : Commit(i) \/ (Drop(i) /\ ~InputsLive(i)))

Spec == Init /\ [][Next]_vars /\ Fairness

-----------------------------------------------------------------------------
(* Properties.                                                             *)

\* Every list a plan makes has between one and MAX_RECOVERY_BACKUPS backups, and a code is tried only so often.
ChainTypes ==
    /\ txs \in Seq(Contents \cup Sweeps) /\ Len(txs) <= MaxTxs
    /\ at \in Seq(Places) /\ Len(at) = Len(txs)
    /\ cells \in Nat /\ moves \in Nat /\ cells <= moves + 1 /\ purse \in Nat
    /\ old \subseteq 1 .. cells /\ lagging \subseteq 1 .. cells /\ old \cap lagging = {}

ServerTypes ==
    /\ wallet \in [recovery : Nat, pending : Recorded \cup {None}]
    /\ request \in Requests \cup {None} /\ previews \in Nat
    /\ policy \in BOOLEAN /\ faults \in Nat

FlowTypes ==
    /\ tab \in [Tabs -> Flows] /\ holder \in Applying \cup {None}
    /\ sweeper \in Sweeping \cup {None} /\ last \in Recorded \cup {None}

TypeOK == ChainTypes /\ ServerTypes /\ FlowTypes

\* A recovery transaction is signed only as the user saw it: in the preview of the page that was given the code,
\* whatever other pages and other transactions did since.
ApprovedOnly == \A i \in Txs : ~Sweep(i) => txs[i] \in approved

\* No sweep is built from the inputs of an earlier one in the pool, unless the server has forgotten that one after
\* an error or after the grace period.
SweepLeavesPool ==
    [][sweeper = None /\ sweeper' # None
       => \A j \in Txs \ disowned :
             Sweep(j) /\ at[j] = "pool" => txs[j].spends \cap txs'[sweeper'.tx].spends = {}]_vars

\* A pending change settles: it is stored or dropped, and the user can change recovery again.
PendingSettles == (wallet.pending # None) ~> (wallet.pending = None)

-----------------------------------------------------------------------------
(* The inductive invariant behind them (proved inductive in RecoveryProofs). *)

\* The stored list and its pending change are transactions the server signed.
Kept(i) == i \in Txs /\ ~Sweep(i)
WalletInv ==
    /\ wallet.recovery # 0 => Kept(wallet.recovery)
    /\ wallet.pending # None => Kept(wallet.pending.tx)

\* A page's request, while it is the stored one, is for the plan the page showed.
Shows(t) == tab[t].step \in {"approved", "coded", "applying"}
ShownInv ==
    /\ request # None => request.nonce <= previews
    /\ \A t \in Tabs : Shows(t) =>
          /\ tab[t].nonce <= previews
          /\ request # None /\ request.nonce = tab[t].nonce => request.plan = tab[t].plan

\* The apply handler works on the plan that was shown, approved once the code was right.
ApplyInv ==
    holder # None =>
        /\ holder.shown = holder.plan
        /\ holder.step # "loaded" => holder.plan \in approved
        /\ holder.step \in {"signed", "consumed", "saved"} => Kept(holder.tx)

\* The only sweep that the node has had, that is not final and that the server has not given up is the recorded one.
SweepInv ==
    /\ last # None => last.tx \in Txs /\ Sweep(last.tx)
    /\ sweeper # None =>
          /\ sweeper.tx \in Txs /\ Sweep(sweeper.tx)
          /\ IF sweeper.recorded THEN last # None /\ last.tx = sweeper.tx ELSE last = None
    /\ \A j \in Txs \ disowned : Sweep(j) /\ at[j] \in {"pool", "gone"} => last # None /\ last.tx = j

IInv == TypeOK /\ WalletInv /\ ShownInv /\ ApplyInv /\ SweepInv /\ ApprovedOnly
=============================================================================
