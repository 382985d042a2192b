--------------------------- MODULE RecoveryProofs ---------------------------
(***************************************************************************)
(* Theorems about Recovery, for any number of pages, backups, previews,    *)
(* transactions and faults.  A transaction once signed keeps its number    *)
(* and its content, so what the wallet, the apply handler and the sweep    *)
(* know by number stays what it was.                                       *)
(***************************************************************************)
EXTENDS Recovery, FiniteSetTheorems, TLAPS

(* An account starts with one cell at its old address and nothing signed. *)
LEMMA InitIInv == Init => IInv
<1> SUFFICES ASSUME Init PROVE IInv
  OBVIOUS
<1> USE RecoveryAssumption DEF Init
<1>1. ChainTypes
  BY DEF ChainTypes
<1>2. ServerTypes
  BY DEF ServerTypes
<1>3. FlowTypes
  BY DEF FlowTypes, Flows
<1>4. WalletInv /\ ApplyInv /\ SweepInv /\ ApprovedOnly
  BY DEF WalletInv, ApplyInv, SweepInv, ApprovedOnly, Txs
<1>5. ShownInv
  BY DEF ShownInv, Shows, Idle
<1>6. QED
  BY <1>1, <1>2, <1>3, <1>4, <1>5 DEF IInv, TypeOK

-----------------------------------------------------------------------------
(* Plans.                                                                  *)

(* A change of a list stays within its bounds. *)
LEMMA NewListTypes ==
  ASSUME NEW want \in Wants, want.kind # "enable", NEW list \in Lists, NewList(want, list) # None
  PROVE  NewList(want, list) \in Lists
<1> USE RecoveryAssumption
<1>1. want \in [kind : {"add", "remove"}, backup : Backups]
  BY DEF Wants
<1>2. want.backup \in Backups /\ IsFiniteSet(list) /\ Cardinality(list) \in Nat /\ Cardinality(list) <= MaxBackups
  BY <1>1, FS_CardinalityType DEF Lists
<1>3. CASE want.kind = "add"
  <2>1. NewList(want, list) = list \cup {want.backup} /\ want.backup \notin list /\ ~(Cardinality(list) >= MaxBackups)
    BY <1>3 DEF NewList
  <2>2. IsFiniteSet(list \cup {want.backup}) /\ Cardinality(list \cup {want.backup}) = Cardinality(list) + 1
    BY <1>2, <2>1, FS_AddElement
  <2>3. QED
    BY <1>2, <2>1, <2>2 DEF Lists
<1>4. CASE want.kind # "add"
  <2>1. NewList(want, list) = list \ {want.backup} /\ want.backup \in list /\ Cardinality(list) # 1
    BY <1>4 DEF NewList
  <2>2. IsFiniteSet(list \ {want.backup}) /\ Cardinality(list \ {want.backup}) = Cardinality(list) - 1
    BY <1>2, <2>1, FS_RemoveElement
  <2>3. list \ {want.backup} # {}
    BY <1>2, <2>1, <2>2, FS_EmptySet
  <2>4. QED
    BY <1>2, <2>1, <2>2, <2>3 DEF Lists
<1>5. QED
  BY <1>3, <1>4

(* The plans of the server are transactions of the kinds it signs. *)
LEMMA PlanTypes ==
  ASSUME TypeOK, WalletInv, NEW want \in Wants, Plan(want) # None
  PROVE  Plan(want) \in Contents
<1> USE RecoveryAssumption
<1>1. Listed \in SUBSET Nat
  BY DEF TypeOK, ChainTypes, Listed
<1>2. CASE want.kind = "enable"
  <2>1. want.list \in Lists
    BY <1>2 DEF Wants
  <2>2. Plan(want) = [kind |-> "enable", list |-> want.list, spends |-> Listed, after |-> 0, account |-> 0, purse |-> 0,
                      bound |-> policy]
    BY <1>2 DEF Plan, EnablePlan
  <2>3. QED
    BY <1>1, <2>1, <2>2 DEF Contents, TypeOK, ServerTypes
<1>3. CASE want.kind # "enable"
  <2> DEFINE i == CHOOSE i \in Current : TRUE
             list == NewList(want, txs[i].list)
  <2>1. Plan(want) = ChangePlan(want) /\ Current # {}
    BY <1>3 DEF Plan, ChangePlan
  <2>2. i \in Current
    BY <2>1
  <2> HIDE DEF i
  <2>3. i \in Txs /\ ~Sweep(i)
    BY <2>2 DEF Current, LiveLists
  <2>4. txs[i] \in Contents /\ i \in Nat
    BY <2>3 DEF TypeOK, ChainTypes, Txs, Sweep, Sweeps
  <2>5. list # None /\ Plan(want) = [kind |-> want.kind, list |-> list, spends |-> {}, after |-> i, account |-> Account(i),
                                     purse |-> purse, bound |-> txs[i].bound]
    BY <2>1 DEF ChangePlan, i
  <2>6. want.kind \in {"add", "remove"} /\ Account(i) \in Nat /\ purse \in Nat /\ txs[i].bound \in BOOLEAN
        /\ txs[i].list \in Lists
    BY <1>3, <2>4 DEF Wants, Account, Contents, TypeOK, ChainTypes
  <2>7. list \in Lists
    BY <1>3, <2>5, <2>6, NewListTypes
  <2> HIDE DEF list
  <2>8. QED
    BY <2>4, <2>5, <2>6, <2>7 DEF Contents
<1>4. QED
  BY <1>2, <1>3

(* Whether the signer agrees is a yes or a no. *)
LEMMA SignerTypes ==
  ASSUME TypeOK, NEW want
  PROVE  Signer(want) \in BOOLEAN
BY DEF TypeOK, ServerTypes, Signer

-----------------------------------------------------------------------------
(* The transactions.                                                       *)

\* Those that were signed keep their numbers, and a new one is only in hand.
Grown ==
    /\ txs' \in Seq(Contents \cup Sweeps) /\ Len(txs') <= MaxTxs
    /\ at' \in Seq(Places) /\ Len(at') = Len(txs')
    /\ Txs \subseteq Txs'
    /\ \A j \in Txs : txs'[j] = txs[j]
    /\ \A j \in Txs' \ Txs : at'[j] = "hand"

(* Signing gives the transaction of the plan its number. *)
LEMMA SignEffect ==
  ASSUME ChainTypes, NEW plan \in Contents \cup Sweeps, NEW i \in 1 .. Len(txs) + 1, Sign(plan, i)
  PROVE  /\ Grown /\ i \in Txs' /\ txs'[i] = plan
         /\ \A j \in Txs : at'[j] = at[j]
         /\ \A j \in Txs' \ Txs : txs'[j] = plan
<1> USE RecoveryAssumption DEF ChainTypes, Txs
<1>1. CASE i \in Txs /\ txs[i] = plan /\ UNCHANGED <<txs, at>>
  BY <1>1 DEF Grown
<1>2. CASE i = Len(txs) + 1 /\ txs' = Append(txs, plan) /\ at' = Append(at, "hand")
  <2>1. txs' \in Seq(Contents \cup Sweeps) /\ Len(txs') = Len(txs) + 1 /\ txs'[i] = plan
        /\ \A j \in 1 .. Len(txs) : txs'[j] = txs[j]
    BY <1>2
  <2>2. at' \in Seq(Places) /\ Len(at') = Len(at) + 1 /\ at'[i] = "hand" /\ \A j \in 1 .. Len(at) : at'[j] = at[j]
    BY <1>2 DEF Places
  <2>3. Len(txs') <= MaxTxs
    BY <1>2, <2>1 DEF Sign
  <2>4. \A j \in Txs' \ Txs : j = i
    BY <1>2, <2>1
  <2>5. QED
    BY <1>2, <2>1, <2>2, <2>3, <2>4 DEF Grown
<1>3. QED
  BY <1>1, <1>2 DEF Sign

(* What a sweep would move. *)
LEMMA SweepPlanTypes ==
  ASSUME TypeOK
  PROVE  SweepPlan \in Sweeps /\ SweepPlan.kind = "sweep"
<1>1. Listed \in SUBSET Nat
  BY DEF TypeOK, ChainTypes, Listed
<1> DEFINE spends == Listed \ (IF LastDecision = "committed" THEN txs[last.tx].spends ELSE {})
<1>2. spends \in SUBSET Nat
  BY <1>1
<1>3. SweepPlan = [kind |-> "sweep", spends |-> spends]
  BY DEF SweepPlan
<1> HIDE DEF spends
<1>4. QED
  BY <1>2, <1>3 DEF Sweeps

(* Whatever happens to the transactions, they are signed once and for all. *)
LEMMA StepGrown == TypeOK /\ ApplyInv /\ SweepInv /\ [Next]_vars => Grown
<1> SUFFICES ASSUME TypeOK, ApplyInv, SweepInv, [Next]_vars PROVE Grown
  OBVIOUS
<1>a. ASSUME UNCHANGED <<txs, at>> PROVE Grown
  BY <1>a DEF Grown, TypeOK, ChainTypes, Txs
<1>b. ASSUME NEW i \in Txs, NEW p \in Places, UNCHANGED txs, at' = [at EXCEPT ![i] = p] PROVE Grown
  BY <1>b DEF Grown, TypeOK, ChainTypes, Txs
<1>1. ASSUME NEW i \in Txs, Commit(i) \/ Drop(i) \/ Return(i) PROVE Grown
  <2>1. UNCHANGED txs /\ \E p \in Places : at' = [at EXCEPT ![i] = p]
    BY <1>1 DEF Commit, Drop, Return, Places
  <2>2. QED
    BY <1>b, <2>1
<1>2. CASE IndexerCatchesUp \/ Deposit \/ SpendElsewhere
  BY <1>a, <1>2 DEF IndexerCatchesUp, Deposit, SpendElsewhere
<1>3. ASSUME NEW t \in Tabs, Page(t) PROVE Grown
  BY <1>a, <1>3 DEF Page, Preview, RequestCode, Cancel, Poll, Settle, Enter, chainVars
<1>4. CASE CheckCode \/ ReadCells \/ Consume \/ SaveChange \/ Crash \/ Expire \/ SwitchSigner \/ PendingAges \/ SignIn
  BY <1>a, <1>4 DEF CheckCode, ReadCells, Consume, SaveChange, Crash, Expire, SwitchSigner, PendingAges, SignIn,
     Settle, chainVars
<1>5. CASE SignChange
  <2>1. CASE UNCHANGED <<txs, at>>
    BY <1>a, <2>1
  <2>2. ASSUME NEW i \in 1 .. Len(txs) + 1, Sign(holder.plan, i) PROVE Grown
    <3>1. holder.plan \in Contents /\ ChainTypes
      BY <1>5 DEF SignChange, TypeOK, FlowTypes, Applying
    <3>2. QED
      BY <2>2, <3>1, SignEffect
  <2>3. QED
    BY <1>5, <2>1, <2>2 DEF SignChange
<1>6. CASE SendChange
  <2>1. holder.tx \in Txs /\ UNCHANGED txs
    BY <1>6 DEF SendChange, ApplyInv, Kept
  <2>2. UNCHANGED at \/ at' = [at EXCEPT ![holder.tx] = "pool"]
    BY <1>6 DEF SendChange
  <2>3. "pool" \in Places
    BY DEF Places
  <2>4. QED
    BY <1>a, <1>b, <2>1, <2>2, <2>3
<1>7. CASE StartSweep
  <2>1. CASE UNCHANGED <<txs, at>>
    BY <1>a, <2>1
  <2>2. ASSUME NEW i \in 1 .. Len(txs) + 1, Sign(SweepPlan, i) PROVE Grown
    BY <2>2, SweepPlanTypes, SignEffect DEF TypeOK
  <2>3. QED
    BY <1>7, <2>1, <2>2 DEF StartSweep
<1>8. CASE RecordSweep \/ SweepAges
  BY <1>a, <1>8 DEF RecordSweep, SweepAges, chainVars
<1>9. CASE SendSweep
  <2>1. sweeper.tx \in Txs /\ UNCHANGED txs
    BY <1>9 DEF SendSweep, SweepInv
  <2>2. UNCHANGED at \/ at' = [at EXCEPT ![sweeper.tx] = "pool"]
    BY <1>9 DEF SendSweep
  <2>3. "pool" \in Places
    BY DEF Places
  <2>4. QED
    BY <1>a, <1>b, <2>1, <2>2, <2>3
<1>10. CASE UNCHANGED vars
  BY <1>a, <1>10 DEF vars, chainVars
<1>11. QED
  BY <1>1, <1>2, <1>3, <1>4, <1>5, <1>6, <1>7, <1>8, <1>9, <1>10 DEF Next, Apply, SweepOld, Chain

(* Every step keeps the types of the chain's variables. *)
LEMMA StepChainTypes == TypeOK /\ ApplyInv /\ SweepInv /\ [Next]_vars => ChainTypes'
<1> SUFFICES ASSUME TypeOK, ApplyInv, SweepInv, [Next]_vars PROVE ChainTypes'
  OBVIOUS
<1> USE DEF chainVars
<1>a. Grown
  BY StepGrown
<1>b. ASSUME UNCHANGED <<old, lagging, cells, purse, moves>> PROVE ChainTypes'
  BY <1>a, <1>b DEF Grown, TypeOK, ChainTypes
<1>c. ASSUME old' \subseteq 1 .. cells', lagging' \subseteq 1 .. cells', old' \cap lagging' = {},
             cells' \in Nat, moves' \in Nat, cells' <= moves' + 1, purse' \in Nat
      PROVE  ChainTypes'
  BY <1>a, <1>c DEF Grown, ChainTypes
<1>d. /\ old \subseteq 1 .. cells /\ lagging \subseteq 1 .. cells /\ old \cap lagging = {}
      /\ cells \in Nat /\ moves \in Nat /\ cells <= moves + 1 /\ purse \in Nat
  BY DEF TypeOK, ChainTypes
<1>1. ASSUME NEW i \in Txs, Commit(i) PROVE ChainTypes'
  <2> DEFINE spent == txs[i].spends
  <2>1. spent \subseteq old /\ old' = old \ spent /\ lagging' = lagging \cup spent
        /\ purse' \in {purse, purse + 1} /\ UNCHANGED <<cells, moves>>
    BY <1>1 DEF Commit, InputsLive
  <2> HIDE DEF spent
  <2>2. old' \subseteq 1 .. cells /\ lagging' \subseteq 1 .. cells /\ old' \cap lagging' = {}
    BY <1>d, <2>1
  <2>3. purse' \in Nat
    BY <1>d, <2>1
  <2>4. QED
    BY <1>c, <1>d, <2>1, <2>2, <2>3
<1>2. ASSUME NEW i \in Txs, Drop(i) \/ Return(i) PROVE ChainTypes'
  BY <1>b, <1>2 DEF Drop, Return
<1>3. CASE IndexerCatchesUp \/ Deposit \/ SpendElsewhere
  <2>1. CASE IndexerCatchesUp
    BY <1>c, <1>d, <2>1 DEF IndexerCatchesUp
  <2>2. CASE Deposit
    <3>1. cells' = cells + 1 /\ moves' = moves + 1 /\ old' = old \cup {cells + 1} /\ UNCHANGED <<lagging, purse>>
      BY <2>2 DEF Deposit, Move
    <3>2. QED
      BY <1>c, <1>d, <3>1
  <2>3. CASE SpendElsewhere
    <3>1. moves' = moves + 1 /\ UNCHANGED cells
      BY <2>3 DEF SpendElsewhere, Move
    <3>2. CASE \E c \in old : old' = old \ {c} /\ lagging' = lagging \cup {c} /\ UNCHANGED purse
      BY <1>c, <1>d, <3>1, <3>2
    <3>3. CASE purse' = purse + 1 /\ UNCHANGED <<old, lagging>>
      BY <1>c, <1>d, <3>1, <3>3
    <3>4. QED
      BY <2>3, <3>2, <3>3 DEF SpendElsewhere
  <2>4. QED
    BY <1>3, <2>1, <2>2, <2>3
<1>4. ASSUME NEW t \in Tabs, Page(t) PROVE ChainTypes'
  BY <1>b, <1>4 DEF Page, Preview, RequestCode, Cancel, Poll, Settle, Enter
<1>5. CASE Apply \/ Crash \/ Expire \/ SwitchSigner \/ PendingAges \/ SignIn
  BY <1>b, <1>5 DEF Apply, CheckCode, ReadCells, SignChange, Consume, SaveChange, SendChange, Crash, Expire,
     SwitchSigner, PendingAges, SignIn, Settle
<1>6. CASE SweepOld
  BY <1>b, <1>6 DEF SweepOld, StartSweep, RecordSweep, SendSweep, SweepAges
<1>7. CASE UNCHANGED vars
  BY <1>b, <1>7 DEF vars
<1>8. QED
  BY <1>1, <1>2, <1>3, <1>4, <1>5, <1>6, <1>7 DEF Next, Chain

-----------------------------------------------------------------------------
(* The wallet.                                                             *)

\* Kept after the step.
KeptThen(i) == i \in 1 .. Len(txs') /\ txs'[i].kind # "sweep"

(* A transaction that was kept still is. *)
LEMMA StillKept ==
  ASSUME TypeOK, Grown, NEW i, Kept(i)
  PROVE  Kept(i)'
BY DEF Grown, Kept, Sweep

(* Settling adopts or drops the pending change. *)
LEMMA SettledEffect ==
  ASSUME TypeOK, WalletInv
  PROVE  /\ Settled \in [recovery : Nat, pending : Recorded \cup {None}]
         /\ Settled.recovery # 0 => Kept(Settled.recovery)
         /\ Settled.pending # None => Kept(Settled.pending.tx)
<1> USE RecoveryAssumption
<1>1. wallet \in [recovery : Nat, pending : Recorded \cup {None}]
  BY DEF TypeOK, ServerTypes
<1>2. CASE Adopts
  <2>1. Settled = [recovery |-> wallet.pending.tx, pending |-> None] /\ wallet.pending # None
    BY <1>2 DEF Settled, Adopts
  <2>2. wallet.pending.tx \in Nat /\ Kept(wallet.pending.tx)
    BY <1>1, <2>1 DEF WalletInv, Recorded
  <2>3. QED
    BY <2>1, <2>2
<1>3. CASE ~Adopts /\ Drops
  <2>1. Settled = [wallet EXCEPT !.pending = None]
    BY <1>3 DEF Settled
  <2>2. QED
    BY <1>1, <2>1 DEF WalletInv
<1>4. CASE ~Adopts /\ ~Drops
  BY <1>1, <1>4 DEF Settled, WalletInv
<1>5. QED
  BY <1>2, <1>3, <1>4

(* Every step keeps the wallet's types, and what it refers to. *)
LEMMA StepWallet ==
  TypeOK /\ WalletInv /\ ApplyInv /\ SweepInv /\ [Next]_vars
    => wallet' \in [recovery : Nat, pending : Recorded \cup {None}] /\ WalletInv'
<1> SUFFICES ASSUME TypeOK, WalletInv, ApplyInv, SweepInv, [Next]_vars
             PROVE  wallet' \in [recovery : Nat, pending : Recorded \cup {None}] /\ WalletInv'
  OBVIOUS
<1> USE RecoveryAssumption
<1> DEFINE Good(w) == /\ w \in [recovery : Nat, pending : Recorded \cup {None}]
                      /\ w.recovery # 0 => Kept(w.recovery)
                      /\ w.pending # None => Kept(w.pending.tx)
<1>a. Grown
  BY StepGrown
<1>b. ASSUME Good(wallet') PROVE wallet' \in [recovery : Nat, pending : Recorded \cup {None}] /\ WalletInv'
  BY <1>a, <1>b, StillKept DEF WalletInv
<1>c. wallet \in [recovery : Nat, pending : Recorded \cup {None}] /\ Good(wallet)
  BY DEF TypeOK, ServerTypes, WalletInv
<1>d. Good(Settled)
  BY SettledEffect
<1>1. CASE UNCHANGED wallet
  BY <1>b, <1>c, <1>1
<1>2. CASE wallet' = Settled
  BY <1>b, <1>d, <1>2
<1>3. CASE wallet' = [wallet EXCEPT !.pending = None]
  BY <1>b, <1>c, <1>3
<1>4. CASE SaveChange
  <2> DEFINE new == [tx |-> holder.tx, old |-> FALSE]
  <2>1. holder \in Applying /\ Kept(holder.tx) /\ wallet' = [wallet EXCEPT !.pending = new]
    BY <1>4 DEF SaveChange, ApplyInv, TypeOK, FlowTypes
  <2>2. new \in Recorded /\ new.tx = holder.tx
    BY <2>1 DEF Applying, Recorded
  <2> HIDE DEF new
  <2>3. QED
    BY <1>b, <1>c, <2>1, <2>2
<1>5. CASE PendingAges
  <2> DEFINE new == [wallet.pending EXCEPT !.old = TRUE]
  <2>1. wallet.pending # None /\ wallet' = [wallet EXCEPT !.pending = new]
    BY <1>5, <1>c DEF PendingAges
  <2>2. new \in Recorded /\ new.tx = wallet.pending.tx
    BY <1>c, <2>1 DEF Recorded
  <2> HIDE DEF new
  <2>3. QED
    BY <1>b, <1>c, <2>1, <2>2
<1>6. UNCHANGED wallet \/ wallet' = Settled \/ wallet' = [wallet EXCEPT !.pending = None] \/ SaveChange \/ PendingAges
  <2>1. ASSUME NEW t \in Tabs, Page(t) PROVE UNCHANGED wallet \/ wallet' = Settled
    BY <2>1 DEF Page, Preview, RequestCode, Cancel, Poll, Settle, Enter, serverVars
  <2>2. CASE CheckCode \/ ReadCells \/ SignChange \/ Consume \/ Crash \/ Expire \/ SwitchSigner
    BY <2>2 DEF CheckCode, ReadCells, SignChange, Consume, Crash, Expire, SwitchSigner, serverVars
  <2>3. CASE SendChange
    BY <2>3 DEF SendChange, Clear
  <2>4. CASE SignIn
    BY <2>4 DEF SignIn, Settle
  <2>5. CASE SweepOld
    BY <2>5 DEF SweepOld, StartSweep, RecordSweep, SendSweep, SweepAges, serverVars
  <2>6. CASE Chain
    BY <2>6 DEF Chain, Commit, Drop, Return, IndexerCatchesUp, Deposit, SpendElsewhere, serverVars
  <2>7. CASE UNCHANGED vars
    BY <2>7 DEF vars, serverVars
  <2>8. QED
    BY <2>1, <2>2, <2>3, <2>4, <2>5, <2>6, <2>7 DEF Next, Apply
<1>7. QED
  BY <1>1, <1>2, <1>3, <1>4, <1>5, <1>6

-----------------------------------------------------------------------------
(* Requests and pages.                                                     *)

\* The stored request is the same one, or gone; pages show what they showed, or nothing.
RequestKept ==
    request' # None => request # None /\ request'.nonce = request.nonce /\ request'.plan = request.plan
FlowsKept ==
    \A t \in Tabs : tab'[t].step \in {"approved", "coded", "applying"} =>
        Shows(t) /\ tab'[t].nonce = tab[t].nonce /\ tab'[t].plan = tab[t].plan

(* Its marks change. *)
LEMMA RequestMarks ==
  ASSUME TypeOK, request # None, NEW tries \in 0 .. MaxCodeAttempts, NEW code \in BOOLEAN,
         request' = [request EXCEPT !.code = code, !.tries = tries]
  PROVE  request' \in Requests /\ RequestKept
<1>1. request \in Requests
  BY DEF TypeOK, ServerTypes
<1>2. QED
  BY <1>1 DEF Requests, RequestKept

(* A preview makes a new request for its plan. *)
LEMMA PreviewEffect ==
  ASSUME TypeOK, WalletInv, NEW t \in Tabs, NEW want \in Wants, Preview(t, want)
  PROVE  /\ tab' \in [Tabs -> Flows] /\ request' \in Requests /\ previews' \in Nat /\ previews' = previews + 1
         /\ request'.nonce = previews + 1
         /\ tab'[t].nonce = previews + 1 /\ tab'[t].plan = request'.plan
         /\ \A u \in Tabs : u # t => tab'[u] = tab[u]
<1> USE RecoveryAssumption
<1> DEFINE plan == Plan(want)
           asked == [nonce |-> previews + 1, plan |-> plan, signer |-> Signer(want), code |-> FALSE, tries |-> 0]
           flow == [step |-> "approved", want |-> want, nonce |-> previews + 1, plan |-> plan]
<1>1. plan \in Contents
  BY PlanTypes DEF Preview
<1>2. Signer(want) \in BOOLEAN
  BY SignerTypes
<1>3. previews' = previews + 1 /\ request' = asked /\ tab' = [tab EXCEPT ![t] = flow]
  BY DEF Preview
<1> HIDE DEF plan
<1>4. previews + 1 \in Nat /\ tab \in [Tabs -> Flows]
  BY DEF TypeOK, ServerTypes, FlowTypes
<1>5. asked \in Requests /\ asked.nonce = previews + 1 /\ asked.plan = plan
  BY <1>1, <1>2, <1>4 DEF Requests
<1>6. flow \in Flows /\ flow.nonce = previews + 1 /\ flow.plan = plan
  BY <1>1, <1>4 DEF Flows, Showing
<1> HIDE DEF asked, flow
<1>7. QED
  BY <1>3, <1>4, <1>5, <1>6

(* A page goes on with its flow, or ends it. *)
LEMMA FlowEffect ==
  ASSUME TypeOK, NEW t \in Tabs, NEW next \in Flows, tab' = [tab EXCEPT ![t] = next],
         next.step \in {"approved", "coded", "applying"} => Shows(t) /\ next.nonce = tab[t].nonce /\ next.plan = tab[t].plan
  PROVE  tab' \in [Tabs -> Flows] /\ FlowsKept
BY DEF TypeOK, FlowTypes, FlowsKept, Shows

(* The step a page's flow takes. *)
LEMMA FlowStep ==
  ASSUME TypeOK, NEW t \in Tabs, Shows(t), NEW step \in {"approved", "coded", "applying"}
  PROVE  /\ [tab[t] EXCEPT !.step = step] \in Flows
         /\ [tab[t] EXCEPT !.step = step].nonce = tab[t].nonce /\ [tab[t] EXCEPT !.step = step].plan = tab[t].plan
<1>1. tab[t] \in Showing
  <2>1. tab[t] \in Flows
    BY DEF TypeOK, FlowTypes
  <2>2. QED
    BY <2>1 DEF Flows, Shows, Idle
<1>2. QED
  BY <1>1 DEF Flows, Showing

(* The apply handler's answer reaches its page, if that still waits. *)
LEMMA AnswerEffect ==
  ASSUME TypeOK, holder # None, NEW next, Answer(next),
         Waits(holder.tab) => /\ next \in Flows
                              /\ next.step \in {"approved", "coded", "applying"} =>
                                   next.nonce = tab[holder.tab].nonce /\ next.plan = tab[holder.tab].plan
  PROVE  tab' \in [Tabs -> Flows] /\ FlowsKept /\ holder' = None
<1>1. holder' = None
  BY DEF Answer
<1>2. CASE Waits(holder.tab)
  <2>1. holder.tab \in Tabs /\ tab' = [tab EXCEPT ![holder.tab] = next] /\ Shows(holder.tab)
    BY <1>2 DEF Answer, TypeOK, FlowTypes, Applying, Waits, Shows
  <2>2. QED
    BY <1>1, <1>2, <2>1, FlowEffect
<1>3. CASE ~Waits(holder.tab)
  BY <1>1, <1>3 DEF Answer, TypeOK, FlowTypes, FlowsKept, Shows
<1>4. QED
  BY <1>2, <1>3

(* An answer ends the handler. *)
LEMMA AnswerEnds == ASSUME NEW next, Answer(next) PROVE holder' = None
BY DEF Answer

(* Pages only go on with what they showed, unless one previews. *)
LEMMA StepTab ==
  ASSUME TypeOK, WalletInv, ApplyInv, [Next]_vars
  PROVE  \/ tab' \in [Tabs -> Flows] /\ FlowsKept
         \/ \E t \in Tabs, want \in Wants : Preview(t, want)
<1> DEFINE Goal == tab' \in [Tabs -> Flows] /\ FlowsKept
<1>a. ASSUME UNCHANGED tab PROVE Goal
  BY <1>a DEF TypeOK, FlowTypes, FlowsKept, Shows
<1>b. Idle \in Flows /\ Idle.step \notin {"approved", "coded", "applying"}
  BY DEF Idle, Flows
<1>c. ASSUME NEW t \in Tabs, tab' = [tab EXCEPT ![t] = Idle] PROVE Goal
  BY <1>b, <1>c, FlowEffect
<1>d. ASSUME holder # None, Answer(Idle) PROVE Goal
  BY <1>b, <1>d, AnswerEffect
<1>1. ASSUME NEW t \in Tabs, RequestCode(t) PROVE Goal
  <2>1. Shows(t) /\ (tab' = [tab EXCEPT ![t].step = "coded"] \/ tab' = [tab EXCEPT ![t] = Idle])
    BY <1>1 DEF RequestCode, Shows
  <2> DEFINE next == [tab[t] EXCEPT !.step = "coded"]
  <2>2. next \in Flows /\ next.nonce = tab[t].nonce /\ next.plan = tab[t].plan
    BY <2>1, FlowStep
  <2>3. tab' = [tab EXCEPT ![t] = next] \/ tab' = [tab EXCEPT ![t] = Idle]
    BY <2>1
  <2> HIDE DEF next
  <2>4. QED
    BY <1>c, <2>1, <2>2, <2>3, FlowEffect
<1>2. ASSUME NEW t \in Tabs, Cancel(t) PROVE Goal
  BY <1>2, <1>c DEF Cancel
<1>3. ASSUME NEW t \in Tabs, Poll(t) PROVE Goal
  <2> DEFINE told == [step |-> "told", tx |-> tab[t].tx, confirmed |-> Settled.recovery = tab[t].tx]
  <2>1. tab[t] \in Flows /\ tab[t].step = "waiting"
    BY <1>3 DEF Poll, TypeOK, FlowTypes
  <2>2. tab[t].tx \in Nat
    BY <2>1 DEF Flows, Idle, Showing
  <2>3. told \in Flows /\ told.step = "told"
    BY <2>2 DEF Flows
  <2>4. UNCHANGED tab \/ tab' = [tab EXCEPT ![t] = Idle] \/ tab' = [tab EXCEPT ![t] = told]
    BY <1>3 DEF Poll
  <2> HIDE DEF told
  <2>5. QED
    BY <1>a, <1>c, <2>3, <2>4, FlowEffect
<1>4. ASSUME NEW t \in Tabs, NEW right \in BOOLEAN, Enter(t, right) PROVE Goal
  <2>1. Shows(t) /\ (tab' = [tab EXCEPT ![t].step = "applying"] \/ tab' = [tab EXCEPT ![t] = Idle])
    BY <1>4 DEF Enter, Shows
  <2> DEFINE next == [tab[t] EXCEPT !.step = "applying"]
  <2>2. next \in Flows /\ next.nonce = tab[t].nonce /\ next.plan = tab[t].plan
    BY <2>1, FlowStep
  <2>3. tab' = [tab EXCEPT ![t] = next] \/ tab' = [tab EXCEPT ![t] = Idle]
    BY <2>1
  <2> HIDE DEF next
  <2>4. QED
    BY <1>c, <2>1, <2>2, <2>3, FlowEffect
<1>5. CASE CheckCode
  <2>1. CASE AcceptCode
    BY <1>a, <2>1 DEF AcceptCode
  <2>2. CASE RefuseCode
    <3> DEFINE next == [tab[holder.tab] EXCEPT !.step = "coded"]
    <3>1. holder # None /\ Answer(next) /\ holder.tab \in Tabs
      BY <1>5, <2>2 DEF CheckCode, RefuseCode, TypeOK, FlowTypes, Applying
    <3>2. Waits(holder.tab) => next \in Flows /\ next.nonce = tab[holder.tab].nonce /\ next.plan = tab[holder.tab].plan
      BY <3>1, FlowStep DEF Waits, Shows
    <3> HIDE DEF next
    <3>3. QED
      BY <3>1, <3>2, AnswerEffect
  <2>3. QED
    BY <1>5, <2>1, <2>2 DEF CheckCode
<1>6. CASE ReadCells \/ SignChange \/ Consume
  <2>1. holder # None /\ (UNCHANGED tab \/ Answer(Idle))
    BY <1>6 DEF ReadCells, SignChange, Consume
  <2>2. QED
    BY <1>a, <1>d, <2>1
<1>7. CASE SendChange
  <2> DEFINE next == [step |-> "waiting", tx |-> holder.tx]
  <2>1. holder # None /\ (Answer(next) \/ Answer(Idle))
    BY <1>7 DEF SendChange, Clear
  <2>2. next \in Flows /\ next.step = "waiting"
    BY <2>1 DEF Flows, TypeOK, FlowTypes, Applying
  <2> HIDE DEF next
  <2>3. QED
    BY <1>d, <2>1, <2>2, AnswerEffect
<1>8. CASE Crash
  <2>1. UNCHANGED tab \/ (holder # None /\ Answer(Idle))
    BY <1>8 DEF Crash
  <2>2. QED
    BY <1>a, <1>d, <2>1
<1>9. CASE SaveChange \/ Expire \/ SwitchSigner \/ PendingAges \/ SignIn
  BY <1>a, <1>9 DEF SaveChange, Expire, SwitchSigner, PendingAges, SignIn
<1>10. CASE SweepOld
  BY <1>a, <1>10 DEF SweepOld, StartSweep, RecordSweep, SendSweep, SweepAges
<1>11. CASE Chain
  BY <1>a, <1>11 DEF Chain, Commit, Drop, Return, IndexerCatchesUp, Deposit, SpendElsewhere
<1>12. CASE UNCHANGED vars
  BY <1>a, <1>12 DEF vars
<1>13. QED
  BY <1>1, <1>2, <1>3, <1>4, <1>5, <1>6, <1>7, <1>8, <1>9, <1>10, <1>11, <1>12 DEF Next, Page, Apply

(* The request is only marked, or gone, unless a page previews. *)
LEMMA StepRequest ==
  ASSUME TypeOK, [Next]_vars
  PROVE  \/ request' \in Requests \cup {None} /\ RequestKept /\ UNCHANGED previews
         \/ \E t \in Tabs, want \in Wants : Preview(t, want)
<1> USE RecoveryAssumption
<1> DEFINE Goal == request' \in Requests \cup {None} /\ RequestKept
<1>a. ASSUME UNCHANGED request PROVE Goal
  BY <1>a DEF TypeOK, ServerTypes, RequestKept
<1>b. ASSUME request' = None PROVE Goal
  BY <1>b DEF RequestKept
<1>c. request # None => request \in Requests /\ request.tries \in 0 .. MaxCodeAttempts /\ request.code \in BOOLEAN
  BY DEF TypeOK, ServerTypes, Requests
<1>d. ASSUME request # None, NEW tries \in 0 .. MaxCodeAttempts, request' = [request EXCEPT !.tries = tries]
      PROVE  Goal
  <2>1. request' = [request EXCEPT !.code = request.code, !.tries = tries]
    BY <1>c, <1>d DEF Requests
  <2>2. QED
    BY <1>c, <1>d, <2>1, RequestMarks
<1>1. ASSUME NEW t \in Tabs, RequestCode(t) PROVE Goal
  <2>1. CASE RequestStands(tab[t])
    <3>1. request # None /\ request' = [request EXCEPT !.code = TRUE, !.tries = 0] /\ 0 \in 0 .. MaxCodeAttempts
      BY <1>1, <2>1 DEF RequestCode, RequestStands
    <3>2. QED
      BY <3>1, RequestMarks
  <2>2. CASE ~RequestStands(tab[t])
    BY <1>1, <1>a, <2>2 DEF RequestCode
  <2>3. QED
    BY <2>1, <2>2
<1>2. ASSUME CheckCode PROVE Goal
  <2>1. \/ UNCHANGED request \/ request' = None
        \/ request # None /\ request.tries < MaxCodeAttempts /\ request' = [request EXCEPT !.tries = request.tries + 1]
    BY <1>2 DEF CheckCode, RefuseCode, AcceptCode, RequestIsOurs
  <2>2. request # None /\ request.tries < MaxCodeAttempts => request.tries + 1 \in 0 .. MaxCodeAttempts
    BY <1>c
  <2>3. CASE request # None /\ request.tries < MaxCodeAttempts /\ request' = [request EXCEPT !.tries = request.tries + 1]
    <3> DEFINE n == request.tries + 1
    <3>1. request # None /\ n \in 0 .. MaxCodeAttempts /\ request' = [request EXCEPT !.tries = n]
      BY <2>2, <2>3
    <3> HIDE DEF n
    <3>2. QED
      BY <1>d, <3>1
  <2>4. QED
    BY <1>a, <1>b, <2>1, <2>3
<1>3. ASSUME Consume \/ Expire PROVE Goal
  BY <1>3, <1>a, <1>b DEF Consume, Expire
<1>4. ASSUME NEW t \in Tabs, Cancel(t) \/ Poll(t) \/ \E right \in BOOLEAN : Enter(t, right) PROVE Goal
  BY <1>4, <1>a DEF Cancel, Poll, Settle, Enter, serverVars
<1>5. ASSUME ReadCells \/ SignChange \/ SaveChange \/ SendChange \/ Crash \/ SwitchSigner \/ PendingAges \/ SignIn PROVE Goal
  BY <1>5, <1>a DEF ReadCells, SignChange, SaveChange, SendChange, Crash, SwitchSigner, PendingAges, SignIn,
     Settle, serverVars
<1>6. ASSUME SweepOld PROVE Goal
  BY <1>a, <1>6 DEF SweepOld, StartSweep, RecordSweep, SendSweep, SweepAges, serverVars
<1>7. ASSUME Chain PROVE Goal
  BY <1>a, <1>7 DEF Chain, Commit, Drop, Return, IndexerCatchesUp, Deposit, SpendElsewhere, serverVars
<1>8. ASSUME UNCHANGED vars PROVE Goal
  BY <1>a, <1>8 DEF vars, serverVars
<1>9. UNCHANGED previews \/ \E t \in Tabs, want \in Wants : Preview(t, want)
  BY DEF Next, Page, RequestCode, Cancel, Poll, Settle, Enter, Apply, CheckCode, RefuseCode, AcceptCode,
     ReadCells, SignChange, Consume, SaveChange, SendChange, Crash, Expire, SwitchSigner, PendingAges, SignIn,
     SweepOld, StartSweep, RecordSweep, SendSweep, SweepAges, Chain, Commit, Drop, Return, IndexerCatchesUp,
     Deposit, SpendElsewhere, vars, serverVars
<1>10. QED
  BY <1>1, <1>2, <1>3, <1>4, <1>5, <1>6, <1>7, <1>8, <1>9 DEF Next, Page, Apply

(* Every step keeps ShownInv: a new request has a number no page has. *)
LEMMA StepShownInv == TypeOK /\ WalletInv /\ ApplyInv /\ ShownInv /\ [Next]_vars => ShownInv'
<1> SUFFICES ASSUME TypeOK, WalletInv, ApplyInv, ShownInv, [Next]_vars PROVE ShownInv'
  OBVIOUS
<1>1. CASE \E t \in Tabs, want \in Wants : Preview(t, want)
  <2>1. PICK t \in Tabs, want \in Wants : Preview(t, want)
    BY <1>1
  <2>2. /\ request' \in Requests /\ previews' = previews + 1 /\ request'.nonce = previews + 1
        /\ tab'[t].nonce = previews + 1 /\ tab'[t].plan = request'.plan
        /\ \A u \in Tabs : u # t => tab'[u] = tab[u]
    BY <2>1, PreviewEffect
  <2>3. previews \in Nat /\ \A u \in Tabs : Shows(u) => tab[u].nonce \in Nat
    <3>1. ASSUME NEW u \in Tabs, Shows(u) PROVE tab[u].nonce \in Nat
      BY <3>1 DEF TypeOK, FlowTypes, Flows, Showing, Idle, Shows
    <3>2. QED
      BY <3>1 DEF TypeOK, ServerTypes
  <2>4. ASSUME NEW u \in Tabs, Shows(u)'
        PROVE  tab'[u].nonce <= previews' /\ (request'.nonce = tab'[u].nonce => request'.plan = tab'[u].plan)
    <3>1. CASE u = t
      BY <2>2, <2>3, <3>1
    <3>2. CASE u # t
      <4>1. tab'[u] = tab[u] /\ Shows(u)
        BY <2>2, <2>4, <3>2 DEF Shows
      <4>2. tab[u].nonce <= previews /\ tab[u].nonce \in Nat
        BY <2>3, <4>1 DEF ShownInv
      <4>3. QED
        BY <2>2, <2>3, <4>1, <4>2
    <3>3. QED
      BY <3>1, <3>2
  <2>5. QED
    BY <2>2, <2>3, <2>4 DEF ShownInv
<1>2. CASE ~\E t \in Tabs, want \in Wants : Preview(t, want)
  <2>1. FlowsKept /\ RequestKept /\ UNCHANGED previews
    BY <1>2, StepTab, StepRequest
  <2>2. QED
    BY <2>1 DEF FlowsKept, RequestKept, ShownInv, Shows
<1>3. QED
  BY <1>1, <1>2

-----------------------------------------------------------------------------
(* The apply handler.                                                      *)

\* The handler goes on: it keeps its plan.
HolderGoesOn(step) ==
    /\ holder' \in Applying /\ holder'.step = step /\ holder'.shown = holder.shown /\ holder'.plan = holder.plan

(* A handler that moves on has its types and its plan. *)
LEMMA HolderStep ==
  ASSUME TypeOK, holder # None, NEW step \in {"confirmed", "viewed", "signed", "consumed", "saved"}, NEW tx \in Nat
  PROVE  /\ holder' = [holder EXCEPT !.step = step] => HolderGoesOn(step) /\ holder'.tx = holder.tx
         /\ holder' = [holder EXCEPT !.step = step, !.tx = tx] => HolderGoesOn(step) /\ holder'.tx = tx
<1>1. holder \in Applying
  BY DEF TypeOK, FlowTypes
<1>2. QED
  BY <1>1 DEF Applying, HolderGoesOn

(* Every step keeps the handler's types and ApplyInv: it signs the plan that was shown, once the code was right. *)
LEMMA StepHolder ==
  TypeOK /\ WalletInv /\ ShownInv /\ ApplyInv /\ SweepInv /\ [Next]_vars
    => holder' \in Applying \cup {None} /\ ApplyInv' /\ approved \subseteq approved'
<1> SUFFICES ASSUME TypeOK, WalletInv, ShownInv, ApplyInv, SweepInv, [Next]_vars
             PROVE  holder' \in Applying \cup {None} /\ ApplyInv' /\ approved \subseteq approved'
  OBVIOUS
<1> USE RecoveryAssumption
<1> DEFINE Goal == holder' \in Applying \cup {None} /\ ApplyInv'
<1>a. Grown
  BY StepGrown
<1>b. ASSUME UNCHANGED <<holder, approved>> PROVE Goal
  BY <1>a, <1>b, StillKept DEF TypeOK, FlowTypes, ApplyInv
<1>c. ASSUME holder' = None PROVE Goal
  BY <1>c DEF ApplyInv
<1>d. ASSUME holder # None, holder.step # "loaded", UNCHANGED approved,
             NEW step \in {"confirmed", "viewed", "signed", "consumed", "saved"}, HolderGoesOn(step),
             step \in {"signed", "consumed", "saved"} => KeptThen(holder'.tx)
      PROVE  Goal
  BY <1>d DEF HolderGoesOn, ApplyInv, Kept, KeptThen, Sweep, Txs
<1>e. holder # None => holder \in Applying /\ holder.plan \in Contents /\ holder.tx \in Nat
  BY DEF TypeOK, FlowTypes, Applying
<1>1. ASSUME NEW t \in Tabs, NEW right \in BOOLEAN, Enter(t, right) PROVE Goal
  <2>1. CASE RequestStands(tab[t])
    <3> DEFINE flow == tab[t]
               new == [step |-> "loaded", tab |-> t, nonce |-> flow.nonce, right |-> right, shown |-> flow.plan,
                       plan |-> Plan(flow.want), policy |-> Signer(flow.want), tx |-> 0]
    <3>1. flow \in Showing /\ Shows(t) /\ holder' = new /\ approved' = approved
      <4>1. flow \in Flows /\ flow.step = "coded"
        BY <1>1 DEF Enter, TypeOK, FlowTypes
      <4>2. QED
        BY <1>1, <2>1, <4>1 DEF Flows, Idle, Shows, Enter, history
    <3>2. flow.want \in Wants /\ flow.nonce \in Nat
      BY <3>1 DEF Showing
    <3>3. Plan(flow.want) = flow.plan /\ Plan(flow.want) # None
      BY <2>1, <3>1 DEF RequestStands, ShownInv
    <3>4. Plan(flow.want) \in Contents /\ Signer(flow.want) \in BOOLEAN
      BY <3>2, <3>3, PlanTypes, SignerTypes
    <3>5. new \in Applying /\ new.shown = new.plan /\ new.step = "loaded"
      BY <3>2, <3>3, <3>4 DEF Applying
    <3> HIDE DEF new
    <3>6. QED
      BY <3>1, <3>5 DEF ApplyInv
  <2>2. CASE ~RequestStands(tab[t])
    BY <1>1, <1>b, <2>2 DEF Enter, history
  <2>3. QED
    BY <2>1, <2>2
<1>2. ASSUME CheckCode PROVE Goal
  <2>1. CASE RefuseCode
    BY <1>c, <2>1 DEF RefuseCode, Answer
  <2>2. CASE AcceptCode
    <3>1. holder # None /\ holder' = [holder EXCEPT !.step = "confirmed"] /\ approved' = approved \cup {holder.shown}
      BY <1>2, <2>2 DEF CheckCode, AcceptCode
    <3>2. HolderGoesOn("confirmed")
      BY <3>1, HolderStep
    <3>3. QED
      BY <3>1, <3>2 DEF HolderGoesOn, ApplyInv
  <2>3. QED
    BY <1>2, <2>1, <2>2 DEF CheckCode
<1>3. ASSUME ReadCells PROVE Goal
  <2>1. CASE Listed \subseteq holder.plan.spends
    <3>1. holder # None /\ holder.step = "confirmed" /\ holder' = [holder EXCEPT !.step = "viewed"] /\ UNCHANGED approved
      BY <1>3, <2>1 DEF ReadCells, history
    <3>2. HolderGoesOn("viewed")
      BY <3>1, HolderStep
    <3>3. QED
      BY <1>d, <3>1, <3>2
  <2>2. CASE ~(Listed \subseteq holder.plan.spends)
    <3>1. Answer(Idle)
      BY <1>3, <2>2 DEF ReadCells
    <3>2. QED
      BY <1>c, <3>1, AnswerEnds
  <2>3. QED
    BY <2>1, <2>2
<1>4. ASSUME SignChange PROVE Goal
  <2>1. CASE Answer(Idle)
    BY <1>c, <2>1, AnswerEnds
  <2>2. ASSUME NEW i \in 1 .. Len(txs) + 1, Sign(holder.plan, i),
               holder' = [holder EXCEPT !.step = IF holder.policy THEN "signed" ELSE "consumed", !.tx = i]
        PROVE  Goal
    <3>1. holder # None /\ holder.step \in {"confirmed", "viewed"} /\ UNCHANGED approved
      BY <1>4 DEF SignChange, history
    <3>2. PICK step \in {"signed", "consumed"} : holder' = [holder EXCEPT !.step = step, !.tx = i]
      BY <2>2
    <3>3. i \in Nat
      BY DEF TypeOK, ChainTypes
    <3>4. HolderGoesOn(step) /\ holder'.tx = i
      BY <3>1, <3>2, <3>3, HolderStep
    <3>5. i \in Txs' /\ txs'[i] = holder.plan
      BY <1>e, <2>2, <3>1, SignEffect DEF TypeOK
    <3>6. KeptThen(holder'.tx)
      BY <1>e, <3>1, <3>4, <3>5 DEF KeptThen, Txs, Contents
    <3>7. QED
      BY <1>d, <3>1, <3>4, <3>6
  <2>3. CASE ActionLooks /\ IndexedLists # {}
    BY <1>4, <2>1, <2>3 DEF SignChange
  <2>4. CASE ~(ActionLooks /\ IndexedLists # {})
    <3>1. PICK i \in 1 .. Len(txs) + 1 :
            Sign(holder.plan, i) /\ holder' = [holder EXCEPT !.step = IF holder.policy THEN "signed" ELSE "consumed", !.tx = i]
      BY <1>4, <2>4 DEF SignChange
    <3>2. QED
      BY <2>2, <3>1
  <2>5. QED
    BY <2>3, <2>4
<1>5. ASSUME Consume PROVE Goal
  <2>1. CASE RequestIsOurs
    <3>1. holder # None /\ holder.step = "signed" /\ holder' = [holder EXCEPT !.step = "consumed"] /\ UNCHANGED approved
      BY <1>5, <2>1 DEF Consume, history
    <3>2. HolderGoesOn("consumed") /\ holder'.tx = holder.tx
      BY <1>e, <3>1, HolderStep
    <3>3. KeptThen(holder.tx)
      BY <1>a, <1>e, <3>1, StillKept DEF ApplyInv, Kept, KeptThen, Sweep, Txs
    <3>4. KeptThen(holder'.tx)
      BY <3>2, <3>3
    <3>5. QED
      BY <1>d, <3>1, <3>2, <3>4
  <2>2. CASE ~RequestIsOurs
    <3>1. Answer(Idle)
      BY <1>5, <2>2 DEF Consume
    <3>2. QED
      BY <1>c, <3>1, AnswerEnds
  <2>3. QED
    BY <2>1, <2>2
<1>6. ASSUME SaveChange PROVE Goal
  <2>1. holder # None /\ holder.step = "consumed" /\ holder' = [holder EXCEPT !.step = "saved"] /\ UNCHANGED approved
    BY <1>6 DEF SaveChange
  <2>2. HolderGoesOn("saved") /\ holder'.tx = holder.tx
    BY <1>e, <2>1, HolderStep
  <2>3. KeptThen(holder.tx)
    BY <1>a, <1>e, <2>1, StillKept DEF ApplyInv, Kept, KeptThen, Sweep, Txs
  <2>4. KeptThen(holder'.tx)
    BY <2>2, <2>3
  <2>5. QED
    BY <1>d, <2>1, <2>2, <2>4
<1>7. ASSUME SendChange PROVE Goal
  BY <1>c, <1>7 DEF SendChange, Clear, Answer
<1>8. ASSUME Crash PROVE Goal
  BY <1>b, <1>c, <1>8 DEF Crash, Answer, history
<1>9. ASSUME NEW t \in Tabs,
          \/ (\E want \in Wants : Preview(t, want)) \/ RequestCode(t) \/ Cancel(t) \/ Poll(t)
     PROVE Goal
  BY <1>b, <1>9 DEF Preview, RequestCode, Cancel, Poll, Settle, serverVars, history
<1>10. ASSUME Expire \/ SwitchSigner \/ PendingAges \/ SignIn PROVE Goal
  BY <1>b, <1>10 DEF Expire, SwitchSigner, PendingAges, SignIn, Settle, serverVars, history
<1>11. ASSUME SweepOld PROVE Goal
  BY <1>b, <1>11 DEF SweepOld, StartSweep, RecordSweep, SendSweep, SweepAges, serverVars, history
<1>12. ASSUME Chain PROVE Goal
  BY <1>b, <1>12 DEF Chain, Commit, Drop, Return, IndexerCatchesUp, Deposit, SpendElsewhere, serverVars, history
<1>13. ASSUME UNCHANGED vars PROVE Goal
  BY <1>b, <1>13 DEF vars, serverVars, history
<1>14. approved \subseteq approved'
  <2>1. CASE CheckCode
    BY <2>1 DEF CheckCode, RefuseCode, AcceptCode
  <2>2. CASE ~CheckCode
    BY <2>2 DEF Next, Page, Preview, RequestCode, Cancel, Poll, Settle, Enter, Apply, ReadCells, SignChange,
       Consume, SaveChange, SendChange, Crash, Expire, SwitchSigner, PendingAges, SignIn, SweepOld, StartSweep,
       RecordSweep, SendSweep, SweepAges, Chain, Commit, Drop, Return, IndexerCatchesUp, Deposit,
       SpendElsewhere, vars, history
  <2>3. QED
    BY <2>1, <2>2
<1>15. QED
  BY <1>1, <1>2, <1>3, <1>4, <1>5, <1>6, <1>7, <1>8, <1>9, <1>10, <1>11, <1>12, <1>13, <1>14 DEF Next, Page,
     Apply

-----------------------------------------------------------------------------
(* The sweep.                                                              *)

(* What starts a sweep had no recorded sweep in the pool. *)
LEMMA NothingInPool ==
  ASSUME SweepInv, LastDecision # "wait", NEW j \in Txs \ disowned, Sweep(j)
  PROVE  at[j] # "pool"
BY DEF SweepInv, LastDecision

(* Every step keeps the sweep's types and SweepInv. *)
LEMMA StepSweepInv ==
  TypeOK /\ WalletInv /\ ApplyInv /\ SweepInv /\ [Next]_vars
    => sweeper' \in Sweeping \cup {None} /\ last' \in Recorded \cup {None} /\ SweepInv'
<1> SUFFICES ASSUME TypeOK, WalletInv, ApplyInv, SweepInv, [Next]_vars
             PROVE  sweeper' \in Sweeping \cup {None} /\ last' \in Recorded \cup {None} /\ SweepInv'
  OBVIOUS
<1> USE RecoveryAssumption
<1> DEFINE Goal == sweeper' \in Sweeping \cup {None} /\ last' \in Recorded \cup {None} /\ SweepInv'
           Known(j) == Sweep(j) /\ at[j] \in {"pool", "gone"} /\ j \notin disowned
           KnownThen(j) == Sweep(j) /\ at'[j] \in {"pool", "gone"} /\ j \notin disowned'
<1>a. /\ Txs \subseteq Txs'
      /\ \A j \in Txs : Sweep(j)' <=> Sweep(j)
      /\ \A j \in Txs' \ Txs : at'[j] = "hand"
  BY StepGrown DEF Grown, Sweep
<1>b. sweeper \in Sweeping \cup {None} /\ last \in Recorded \cup {None}
  BY DEF TypeOK, FlowTypes
<1>c. ASSUME sweeper' \in {sweeper, None}, UNCHANGED last, \A j \in Txs : KnownThen(j) => Known(j)
      PROVE  Goal
  BY <1>a, <1>b, <1>c DEF SweepInv
<1>d. ASSUME sweeper' \in {sweeper, None}, UNCHANGED <<last, at>>, disowned \subseteq disowned' PROVE Goal
  BY <1>c, <1>d
<1>1. ASSUME NEW i \in Txs, Commit(i) \/ Drop(i) \/ Return(i) PROVE Goal
  <2>1. UNCHANGED <<sweeper, last, disowned>>
    BY <1>1 DEF Commit, Drop, Return, sweepVars, history
  <2>2. PICK p \in {"chain", "gone", "pool"} : at' = [at EXCEPT ![i] = p] /\ (p # "chain" => at[i] \in {"pool", "gone"})
    BY <1>1 DEF Commit, Drop, Return
  <2>3. \A j \in Txs : at'[j] = IF j = i THEN p ELSE at[j]
    BY <2>2 DEF TypeOK, ChainTypes, Txs
  <2>4. QED
    BY <1>c, <2>1, <2>2, <2>3
<1>2. ASSUME IndexerCatchesUp \/ Deposit \/ SpendElsewhere PROVE Goal
  BY <1>d, <1>2 DEF IndexerCatchesUp, Deposit, SpendElsewhere, sweepVars, history
<1>3. ASSUME NEW t \in Tabs, Page(t) PROVE Goal
  <2>1. UNCHANGED <<sweeper, last, at>> /\ disowned \subseteq disowned'
    BY <1>3 DEF Page, Preview, RequestCode, Cancel, Poll, Settle, Enter, sweepVars, chainVars, history
  <2>2. QED
    BY <1>d, <2>1
<1>4. ASSUME CheckCode \/ ReadCells \/ Consume \/ Crash \/ Expire \/ SwitchSigner \/ PendingAges \/ SignIn PROVE Goal
  <2>1. sweeper' \in {sweeper, None} /\ UNCHANGED <<last, at>> /\ disowned \subseteq disowned'
    BY <1>4 DEF CheckCode, ReadCells, Consume, Crash, Expire, SwitchSigner, PendingAges, SignIn, Settle,
       sweepVars, chainVars, history
  <2>2. QED
    BY <1>d, <2>1
<1>5. ASSUME SignChange PROVE Goal
  <2>1. UNCHANGED <<sweeper, last, disowned>> /\ holder # None /\ holder.plan \in Contents
    BY <1>5 DEF SignChange, sweepVars, history, TypeOK, FlowTypes, Applying
  <2>2. CASE UNCHANGED <<txs, at>>
    BY <1>d, <2>1, <2>2
  <2>3. ASSUME NEW i \in 1 .. Len(txs) + 1, Sign(holder.plan, i) PROVE Goal
    <3>1. \A j \in Txs : at'[j] = at[j]
      BY <2>1, <2>3, SignEffect DEF TypeOK
    <3>2. QED
      BY <1>c, <2>1, <3>1
  <2>4. QED
    BY <1>5, <2>2, <2>3 DEF SignChange
<1>6. ASSUME SaveChange PROVE Goal
  <2>1. UNCHANGED <<sweeper, last, at>> /\ disowned' = disowned \ {holder.tx} /\ ~Sweep(holder.tx)
    BY <1>6 DEF SaveChange, sweepVars, chainVars, ApplyInv, Kept
  <2>2. QED
    BY <1>c, <2>1
<1>7. ASSUME SendChange PROVE Goal
  <2>1. UNCHANGED <<sweeper, last>> /\ disowned \subseteq disowned' /\ ~Sweep(holder.tx) /\ holder.tx \in Txs
    BY <1>7 DEF SendChange, Clear, sweepVars, ApplyInv, Kept
  <2>2. UNCHANGED at \/ at' = [at EXCEPT ![holder.tx] = "pool"]
    BY <1>7 DEF SendChange
  <2>3. \A j \in Txs : j # holder.tx => at'[j] = at[j]
    BY <2>2 DEF TypeOK, ChainTypes, Txs
  <2>4. QED
    BY <1>c, <2>1, <2>3
<1>8. ASSUME StartSweep PROVE Goal
  <2>1. sweeper = None /\ last' = None /\ LastDecision # "wait"
        /\ disowned' = IF last # None /\ Unknown(last.tx) /\ last.old THEN disowned \cup {last.tx} ELSE disowned
    BY <1>8 DEF StartSweep
  <2>2. ASSUME NEW j \in Txs, at[j] \in {"pool", "gone"}, Sweep(j) PROVE j \in disowned'
    <3>1. SUFFICES ASSUME j \notin disowned PROVE j \in disowned'
      BY <2>1
    <3>2. last # None /\ last.tx = j /\ at[j] = "gone"
      BY <2>1, <2>2, <3>1, NothingInPool DEF SweepInv
    <3>3. last.old
      BY <2>1, <3>2 DEF LastDecision
    <3>4. QED
      BY <2>1, <3>2, <3>3 DEF Unknown
  <2>3. CASE SweepPlan.spends = {}
    <3>1. UNCHANGED <<txs, at, sweeper>>
      BY <1>8, <2>3 DEF StartSweep
    <3>2. QED
      BY <1>a, <2>1, <2>2, <3>1 DEF SweepInv
  <2>4. CASE SweepPlan.spends # {}
    <3>1. PICK i \in 1 .. Len(txs) + 1 : Sign(SweepPlan, i) /\ sweeper' = [tx |-> i, recorded |-> FALSE]
      BY <1>8, <2>4 DEF StartSweep
    <3>2. i \in Txs' /\ txs'[i] = SweepPlan /\ \A j \in Txs : at'[j] = at[j]
      BY <3>1, SweepPlanTypes, SignEffect DEF TypeOK
    <3>3. Sweep(i)' /\ SweepPlan.kind = "sweep"
      BY <3>2, SweepPlanTypes DEF Sweep
    <3>4. [tx |-> i, recorded |-> FALSE] \in Sweeping
      BY DEF Sweeping, TypeOK, ChainTypes
    <3>5. QED
      BY <1>a, <2>1, <2>2, <3>1, <3>2, <3>3, <3>4 DEF SweepInv
  <2>5. QED
    BY <2>3, <2>4
<1>9. ASSUME RecordSweep PROVE Goal
  <2> DEFINE rec == [tx |-> sweeper.tx, old |-> FALSE]
             new == [sweeper EXCEPT !.recorded = TRUE]
  <2>1. sweeper # None /\ ~sweeper.recorded /\ last' = rec /\ sweeper' = new /\ disowned' = disowned \ {sweeper.tx}
        /\ UNCHANGED <<txs, at>>
    BY <1>9 DEF RecordSweep, chainVars
  <2>2. sweeper \in Sweeping /\ sweeper.tx \in Txs /\ Sweep(sweeper.tx) /\ last = None
    BY <1>b, <2>1 DEF SweepInv
  <2>3. rec \in Recorded /\ rec.tx = sweeper.tx /\ new \in Sweeping /\ new.tx = sweeper.tx /\ new.recorded
    BY <2>2 DEF Recorded, Sweeping
  <2> HIDE DEF rec, new
  <2>4. \A j \in Txs : Known(j) => FALSE
    BY <2>2 DEF SweepInv
  <2>5. QED
    BY <1>a, <2>1, <2>2, <2>3, <2>4 DEF SweepInv, Txs
<1>10. ASSUME SendSweep PROVE Goal
  <2>1. sweeper # None /\ sweeper.recorded /\ sweeper' = None /\ UNCHANGED txs
    BY <1>10 DEF SendSweep
  <2>2. sweeper.tx \in Txs /\ Sweep(sweeper.tx) /\ last # None /\ last.tx = sweeper.tx
    BY <2>1 DEF SweepInv
  <2>3. UNCHANGED at \/ at' = [at EXCEPT ![sweeper.tx] = "pool"]
    BY <1>10 DEF SendSweep
  <2>4. \A j \in Txs : j # sweeper.tx => at'[j] = at[j]
    BY <2>3 DEF TypeOK, ChainTypes, Txs
  <2>5. UNCHANGED <<last, disowned>> \/ (last' = None /\ disowned' = disowned \cup {sweeper.tx})
    BY <1>10 DEF SendSweep
  <2>6. \A j \in Txs : j # sweeper.tx => ~Known(j)
    BY <2>2 DEF SweepInv
  <2>7. \A j \in Txs' : j \in Txs /\ (Sweep(j)' <=> Sweep(j))
    BY <2>1 DEF Txs, Sweep
  <2>8. Txs' = Txs /\ \A j \in Txs : j = sweeper.tx => Sweep(j)'
    BY <2>1, <2>2, <2>7 DEF Txs
  <2>9. \A j \in Txs : j # sweeper.tx => (Sweep(j)' /\ at'[j] \in {"pool", "gone"} => j \in disowned)
    BY <2>4, <2>6, <2>7, <2>8
  <2>10. CASE UNCHANGED <<last, disowned>>
    <3>1. last' # None /\ last'.tx = sweeper.tx /\ disowned' = disowned
      BY <2>2, <2>10
    <3>2. last'.tx \in Txs' /\ \A j \in Txs : j = last'.tx => Sweep(j)'
      BY <2>2, <2>8, <3>1
    <3>3. last'.tx \in Txs' /\ Sweep(last.tx)'
      BY <2>8, <3>2 DEF Sweep
    <3>4. \A j \in (Txs \ disowned)' : Sweep(j)' /\ at'[j] \in {"pool", "gone"} => last' # None /\ last'.tx = j
      BY <2>8, <2>9, <3>1
    <3>5. sweeper' = None
      BY <2>1
    <3>6. SweepInv'
      BY <3>1, <3>3, <3>4, <3>5 DEF SweepInv
    <3>7. QED
      BY <1>b, <2>10, <3>5, <3>6
  <2>11. CASE last' = None /\ disowned' = disowned \cup {sweeper.tx}
    BY <2>1, <2>8, <2>9, <2>11 DEF SweepInv
  <2>12. QED
    BY <2>5, <2>10, <2>11
<1>11. ASSUME SweepAges PROVE Goal
  <2> DEFINE rec == [last EXCEPT !.old = TRUE]
  <2>1. last # None /\ last' = rec /\ UNCHANGED <<txs, at, sweeper, disowned>>
    BY <1>11 DEF SweepAges, chainVars, history
  <2>2. rec \in Recorded /\ rec.tx = last.tx
    BY <1>b, <2>1 DEF Recorded
  <2> HIDE DEF rec
  <2>3. QED
    BY <1>a, <1>b, <2>1, <2>2 DEF SweepInv, Txs
<1>12. ASSUME UNCHANGED vars PROVE Goal
  BY <1>d, <1>12 DEF vars, chainVars, sweepVars, history
<1>13. QED
  BY <1>1, <1>2, <1>3, <1>4, <1>5, <1>6, <1>7, <1>8, <1>9, <1>10, <1>11, <1>12 DEF Next, Apply, SweepOld, Chain

-----------------------------------------------------------------------------
(* Theorems.                                                               *)

(* Every step keeps the types. *)
LEMMA StepTypeOK ==
  TypeOK /\ WalletInv /\ ShownInv /\ ApplyInv /\ SweepInv /\ [Next]_vars => TypeOK'
<1> SUFFICES ASSUME TypeOK, WalletInv, ShownInv, ApplyInv, SweepInv, [Next]_vars PROVE TypeOK'
  OBVIOUS
<1>1. ChainTypes'
  BY StepChainTypes
<1>2. tab' \in [Tabs -> Flows] /\ request' \in Requests \cup {None} /\ previews' \in Nat
  <2>1. previews \in Nat
    BY DEF TypeOK, ServerTypes
  <2>2. QED
    BY <2>1, StepTab, StepRequest, PreviewEffect
<1>3. policy' \in BOOLEAN
  BY DEF TypeOK, ServerTypes, Next, Page, Preview, RequestCode, Cancel, Poll, Settle, Enter, Apply, CheckCode,
     ReadCells, SignChange, Consume, SaveChange, SendChange, Crash, Expire, SwitchSigner, PendingAges, SignIn,
     SweepOld, StartSweep, RecordSweep, SendSweep, SweepAges, Chain, Commit, Drop, Return, IndexerCatchesUp,
     Deposit, SpendElsewhere, vars
<1>4. faults' \in Nat
  <2>1. UNCHANGED faults \/ faults' = faults + 1
    BY DEF Fault, Next, Page, Preview, RequestCode, Cancel, Poll, Settle, Enter, Apply, CheckCode, ReadCells,
       SignChange, Consume, SaveChange, SendChange, Crash, Expire, SwitchSigner, PendingAges, SignIn, SweepOld,
       StartSweep, RecordSweep, SendSweep, SweepAges, Chain, Commit, Drop, Return, IndexerCatchesUp, Deposit,
       SpendElsewhere, vars
  <2>2. QED
    BY <2>1 DEF TypeOK, ServerTypes
<1>5. /\ wallet' \in [recovery : Nat, pending : Recorded \cup {None}] /\ holder' \in Applying \cup {None}
      /\ sweeper' \in Sweeping \cup {None} /\ last' \in Recorded \cup {None}
  BY StepWallet, StepHolder, StepSweepInv
<1>6. QED
  BY <1>1, <1>2, <1>3, <1>4, <1>5 DEF TypeOK, ServerTypes, FlowTypes

(* Every step keeps ApprovedOnly: a new transaction is the handler's approved plan, or a sweep. *)
LEMMA StepApprovedOnly ==
  TypeOK /\ WalletInv /\ ShownInv /\ ApplyInv /\ SweepInv /\ ApprovedOnly /\ [Next]_vars => ApprovedOnly'
<1> SUFFICES ASSUME TypeOK, WalletInv, ShownInv, ApplyInv, SweepInv, ApprovedOnly, [Next]_vars PROVE ApprovedOnly'
  OBVIOUS
<1>a. approved \subseteq approved' /\ Grown
  BY StepHolder, StepGrown
<1>b. ASSUME \A j \in Txs' \ Txs : txs'[j].kind = "sweep" \/ txs'[j] \in approved PROVE ApprovedOnly'
  BY <1>a, <1>b DEF Grown, ApprovedOnly, Sweep
<1>1. CASE UNCHANGED txs
  BY <1>b, <1>1 DEF Txs
<1>2. CASE SignChange
  <2>1. holder # None /\ holder.step \in {"confirmed", "viewed"} /\ holder.plan \in Contents
    BY <1>2 DEF SignChange, TypeOK, FlowTypes, Applying
  <2>2. holder.plan \in approved
    BY <2>1 DEF ApplyInv
  <2>3. ASSUME NEW i \in 1 .. Len(txs) + 1, Sign(holder.plan, i) PROVE ApprovedOnly'
    <3>1. \A j \in Txs' \ Txs : txs'[j] = holder.plan
      BY <2>1, <2>3, SignEffect DEF TypeOK
    <3>2. QED
      BY <1>b, <2>2, <3>1
  <2>4. QED
    BY <1>1, <1>2, <2>3 DEF SignChange
<1>3. CASE StartSweep
  <2>1. ASSUME NEW i \in 1 .. Len(txs) + 1, Sign(SweepPlan, i) PROVE ApprovedOnly'
    <3>1. \A j \in Txs' \ Txs : txs'[j] = SweepPlan
      BY <2>1, SweepPlanTypes, SignEffect DEF TypeOK
    <3>2. QED
      BY <1>b, <3>1, SweepPlanTypes
  <2>2. QED
    BY <1>1, <1>3, <2>1 DEF StartSweep
<1>4. UNCHANGED txs \/ SignChange \/ StartSweep
  BY DEF Next, Page, Preview, RequestCode, Cancel, Poll, Settle, Enter, Apply, CheckCode, ReadCells, Consume,
     SaveChange, SendChange, Crash, Expire, SwitchSigner, PendingAges, SignIn, SweepOld, RecordSweep, SendSweep,
     SweepAges, Chain, Commit, Drop, Return, IndexerCatchesUp, Deposit, SpendElsewhere, vars
<1>5. QED
  BY <1>1, <1>2, <1>3, <1>4

(* The inductive invariant. *)
LEMMA RecoveryInvariant == Spec => []IInv
<1>1. IInv /\ [Next]_vars => IInv'
  BY StepTypeOK, StepWallet, StepShownInv, StepHolder, StepSweepInv, StepApprovedOnly DEF IInv
<1>2. Spec => Init /\ [][Next]_vars
  BY DEF Spec
<1>3. QED
  BY <1>1, <1>2, InitIInv, PTL

(* Requests, lists, changes and sweeps stay what they are meant to be: every list has between one and
   MAX_RECOVERY_BACKUPS backups, and no code is tried more often than MAX_CODE_ATTEMPTS. *)
THEOREM RecoveryTypes == Spec => []TypeOK
<1>1. IInv => TypeOK
  BY DEF IInv
<1>2. QED
  BY <1>1, RecoveryInvariant, PTL

(* Whatever pages, previews, codes, crashes and other transactions come in between, a recovery transaction is signed
   only with the content the user saw and confirmed. *)
THEOREM SignedAsShown == Spec => []ApprovedOnly
<1>1. IInv => ApprovedOnly
  BY DEF IInv
<1>2. QED
  BY <1>1, RecoveryInvariant, PTL

(* A sweep that starts finds no sweep in the pool that the server has not given up. *)
LEMMA StepSweepLeavesPool ==
  IInv /\ [Next]_vars =>
    (sweeper = None /\ sweeper' # None
       => \A j \in Txs \ disowned :
             Sweep(j) /\ at[j] = "pool" => txs[j].spends \cap txs'[sweeper'.tx].spends = {})
<1> SUFFICES ASSUME IInv, [Next]_vars, sweeper = None, sweeper' # None,
                    NEW j \in Txs \ disowned, Sweep(j), at[j] = "pool"
             PROVE  FALSE
  OBVIOUS
<1>1. StartSweep
  BY DEF Next, Page, Preview, RequestCode, Cancel, Poll, Settle, Enter, Apply, CheckCode, ReadCells, SignChange,
     Consume, SaveChange, SendChange, Crash, Expire, SwitchSigner, PendingAges, SignIn, SweepOld, RecordSweep,
     SendSweep, SweepAges, Chain, Commit, Drop, Return, IndexerCatchesUp, Deposit, SpendElsewhere, vars,
     sweepVars
<1>2. QED
  BY <1>1, NothingInPool DEF IInv, StartSweep

(* The old address is never swept twice at once: no sweep is built while an earlier one that the server has not given up
   waits in the pool. *)
THEOREM NoSweepTwice == Spec => SweepLeavesPool
<1>1. IInv /\ [Next]_vars
      => [sweeper = None /\ sweeper' # None
            => \A j \in Txs \ disowned :
                  Sweep(j) /\ at[j] = "pool" => txs[j].spends \cap txs'[sweeper'.tx].spends = {}]_vars
  BY StepSweepLeavesPool
<1>2. Spec => [][Next]_vars
  BY DEF Spec
<1>3. QED
  BY <1>1, <1>2, RecoveryInvariant, PTL DEF SweepLeavesPool
=============================================================================
