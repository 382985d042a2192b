----------------------------- MODULE SendLimits -----------------------------
(***************************************************************************)
(* Daily send limits: the rules of the Lit action that signs               *)
(* (lit-actions/sign-ckb-transaction.js), the server that plans with the   *)
(* same rules (server/send-limits.ts, server/general-signing.ts) and the   *)
(* clients that build on what the server tells them.                       *)
(*                                                                         *)
(* An account with limits has one send-limit cell.  A transaction that     *)
(* spends the cell and makes the next one is "chained"; it carries a       *)
(* record of the sends before it.  A "genesis" makes the first cell, and a *)
(* transaction "outside" the chain neither spends nor makes one.  Clients  *)
(* preview, confirm and sign at the same time, signed transactions are     *)
(* sent late, dropped and sent again, the indexer lags behind the node,    *)
(* and the clocks of the server and of Lit differ.                         *)
(*                                                                         *)
(* A cell is the number of the transaction that made it.  Of the account's *)
(* other cells only the plain ones of its old address matter, in the order *)
(* of their age.  Time passes in steps long against a request's lifetime.  *)
(***************************************************************************)
EXTENDS Integers, Sequences, FiniteSets, Functions

CONSTANTS
    Assets,
    Flows,      \* what a send moves out, of each asset
    Amounts,    \* the daily amounts a user sets
    Unlimited,  \* the amount of an asset without a limit
    Coins,      \* the plain cells of the old address, by age
    Window,     \* WINDOW_MS
    Margin,     \* PLAN_MARGIN_MS
    Skews,      \* how far the server's clock is from Lit's
    MaxEntries, \* MAX_ENTRIES
    MaxTxs, MaxTime,  \* bounds
    MaxChanges, MaxOutside,  \* bounds: changes of the limits, transactions outside the chain
    None

Zero == [a \in Assets |-> 0]
Limits == [Assets -> Amounts]

\* A record: the sends it lists, by number, each with its commit time or 0.
Records == UNION {[S -> 0 .. MaxTime] : S \in SUBSET (1 .. MaxTxs)}
Transactions ==
    [kind : {"genesis", "chained", "outside"}, cell : 0 .. MaxTxs, coin : Coins \cup {0}, moved : Flows \cup {Zero},
     limit : Limits \cup {Zero}, record : Records, code : BOOLEAN]
Requests == [tx : Transactions, needs : BOOLEAN, coded : BOOLEAN]

ASSUME SendLimitsAssumption ==
    /\ Flows \subseteq [Assets -> Nat] /\ Zero \notin Flows
    /\ Amounts \subseteq Nat /\ Unlimited \in Amounts
    /\ Coins \subseteq Nat \ {0} /\ Coins # {}
    /\ Window \in Nat \ {0} /\ Margin \in Nat /\ Skews \subseteq Int /\ (\A skew \in Skews : skew <= Margin)
    /\ MaxEntries \in Nat /\ MaxTxs \in Nat \ {0} /\ MaxTime \in Nat \ {0}
    /\ MaxChanges \in Nat /\ MaxOutside \in Nat
    /\ None \notin Requests

VARIABLES
    now,     \* the time, by Lit's clock and in block timestamps
    txs,     \* the transactions Lit signed and the server answered, in order
    at,      \* where each is: "out" (the node does not know it), "pool" or "chain"
    time,    \* when each chained one was committed, 0 before
    seen,    \* the committed transactions the indexer shows
    listed,  \* of keyway_v2_pending_transactions, those that make a send-limit cell
    request  \* the user's pending request of each purpose

chainVars == <<at, time, seen>>
vars == <<now, txs, chainVars, listed, request>>

Purposes == {"transaction", "settings"}
Txs == 1 .. Len(txs)
Empty == [i \in {} |-> 0]
Genesis(c, limit) ==
    [kind |-> "genesis", cell |-> 0, coin |-> c, moved |-> Zero, limit |-> limit, record |-> Empty, code |-> TRUE]

\* An account without limits, or one whose genesis is committed.
Init ==
    /\ now = 1
    /\ \/ txs = <<>> /\ at = <<>> /\ time = <<>> /\ seen = {}
       \/ /\ \E limit \in Limits, c \in Coins : (\A d \in Coins : c <= d) /\ txs = <<Genesis(c, limit)>>
          /\ at = <<"chain">> /\ time = <<0>> /\ seen = {1}
    /\ listed = {} /\ request = [p \in Purposes |-> None]

-----------------------------------------------------------------------------
(* The chain, the pool and the indexer.                                    *)

OnChain == {i \in Txs : at[i] = "chain"}
Held == {i \in Txs : at[i] \in {"pool", "chain"}}
Conflict(t, u) == (t.cell # 0 /\ t.cell = u.cell) \/ (t.coin # 0 /\ t.coin = u.coin)
NodeTakes(t) == t.cell \in Held \cup {0} /\ \A j \in Held : ~Conflict(t, txs[j])

\* A client sends a transaction it got signed, at once or later, and again once the pool dropped it.
Send(i) ==
    /\ at[i] = "out" /\ NodeTakes(txs[i]) /\ at' = [at EXCEPT ![i] = "pool"]
    /\ UNCHANGED <<now, txs, time, seen, listed, request>>

Commit(i) ==
    /\ at[i] = "pool" /\ txs[i].cell \in OnChain \cup {0}
    /\ at' = [at EXCEPT ![i] = "chain"] /\ time' = [time EXCEPT ![i] = IF txs[i].kind = "chained" THEN now ELSE 0]
    /\ UNCHANGED <<now, txs, seen, listed, request>>

Drop(i) ==
    /\ at[i] = "pool" /\ ~\E j \in Held : txs[j].cell = i
    /\ at' = [at EXCEPT ![i] = "out"]
    /\ UNCHANGED <<now, txs, time, seen, listed, request>>

IndexerCatchesUp ==
    /\ seen # OnChain /\ seen' = OnChain
    /\ UNCHANGED <<now, txs, at, time, listed, request>>

Tick == now < MaxTime /\ now' = now + 1 /\ UNCHANGED <<txs, chainVars, listed, request>>

\* What a node knows of the chain: all of it, or no more than the indexer.
Nodes == {OnChain, seen}

\* Of the indexer: the live send-limit cells of the account, and its plain cells.
Cells == {i \in seen : txs[i].kind # "outside" /\ ~\E j \in seen : txs[j].cell = i}
Plain == Coins \ {txs[i].coin : i \in seen}

\* The input a genesis takes.
Oldest(c) == c \in Plain /\ \A d \in Plain : c <= d

\* genesisView: the oldest plain cell is read before the send-limit cells, and may be spent by then.
WasOldest(c) == \A d \in Plain : c <= d

-----------------------------------------------------------------------------
(* The Lit action's rules.                                                 *)

\* The previous entries of a chained transaction: the record of the transaction that made its cell, and that one.
Previous(t) ==
    IF t.cell = 0 \/ txs[t.cell].kind = "genesis" THEN Empty
    ELSE [i \in DOMAIN txs[t.cell].record \cup {t.cell} |-> IF i = t.cell THEN 0 ELSE txs[t.cell].record[i]]

\* An entry's commit time: the record's, else its block's, 0 while it has none or the node asked does not know it.
KnownTime(t, i, known) == IF Previous(t)[i] # 0 THEN Previous(t)[i] ELSE IF i \in known THEN time[i] ELSE 0

\* As a node that knows the whole chain tells it.
TimeOf(t, i) == KnownTime(t, i, Txs)

\* The previous entries younger than an age; one without a commit time counts as sent now.
KnownRecent(t, clock, age, known) ==
    {i \in DOMAIN Previous(t) : KnownTime(t, i, known) = 0 \/ clock - KnownTime(t, i, known) < age}
Recent(t, clock, age) == KnownRecent(t, clock, age, Txs)

\* What some of the transactions moved out of an asset together.
Moved(sends, a) == SumFunction([n \in 1 .. MaxTxs |-> IF n \in sends THEN txs[n].moved[a] ELSE 0])

\* Mutant: only committed sends count.
TotalCommitted(t, clock, a, known) ==
    Moved({i \in KnownRecent(t, clock, Window, known) : KnownTime(t, i, known) # 0}, a)

\* windowTotals: what left within the window.
Total(t, clock, a, known) == Moved(KnownRecent(t, clock, Window, known), a)

OverAmount(t, clock, known) ==
    LET limit == txs[t.cell].limit
    IN  \E a \in Assets :
            t.moved[a] > 0 /\ limit[a] # Unlimited /\ Total(t, clock, a, known) + t.moved[a] >= limit[a]

Weakens(before, after) ==
    \E a \in Assets : before[a] # Unlimited /\ (after[a] = Unlimited \/ after[a] > before[a])

NeedsCode(t, clock, known) ==
    CASE t.kind = "genesis" -> TRUE
      [] t.kind = "chained" -> Weakens(txs[t.cell].limit, t.limit) \/ OverAmount(t, clock, known)
      [] OTHER -> Cells # {}

\* Mutant: planning drops an entry as soon as it is past the window.
RecordWithoutMargin(t, clock, known) ==
    [i \in KnownRecent(t, clock, Window, known) |-> KnownTime(t, i, known)]

\* plannedRecord: every entry not yet well past the window, with the times known by now.
PlannedRecord(t, clock, known) ==
    [i \in KnownRecent(t, clock, Window + Margin, known) |-> KnownTime(t, i, known)]

\* checkRecord: the entries kept are previous ones, unchanged but for a time filled in; the others are old.
RecordHolds(t) ==
    /\ DOMAIN t.record \subseteq DOMAIN Previous(t)
    /\ \A i \in DOMAIN t.record : t.record[i] \in {Previous(t)[i], TimeOf(t, i)}
    /\ Recent(t, now, Window) \subseteq DOMAIN t.record

\* limitAnalysis: what it refuses whatever the code.
Shape(t) ==
    CASE t.kind = "genesis" -> WasOldest(t.coin) /\ Cells = {}
      [] t.kind = "outside" -> Cardinality(Cells) <= 1
      [] OTHER -> TRUE

\* The mode "plan".
Plans(t) == Shape(t) /\ Cardinality(DOMAIN t.record) < MaxEntries

\* The modes "send-code" and "transaction".  A node that is behind makes them refuse more, which a request that ends
\* without an answer stands for.
Signs(t, code) == Shape(t) /\ RecordHolds(t) /\ (NeedsCode(t, now, Txs) => code)

-----------------------------------------------------------------------------
(* The server's pending transactions and the newest cell.                  *)

\* Mutant: a transaction the node does not hold counts too.
LivePendingUnsent == {i \in listed : at[i] # "chain"}

\* listPendingTransactions drops what is committed; only what the node holds spends anything.
LivePending == {i \in listed : at[i] = "pool"}

\* sendLimitHead: the last pending cell no pending transaction spends, else the one the indexer shows.
Tips == {i \in LivePending : txs[i].kind # "outside" /\ ~\E j \in LivePending : txs[j].cell = i}
Indexed == {i \in Cells : ~\E j \in LivePending : txs[j].cell = i}
ServerHead ==
    IF Tips # {} THEN CHOOSE i \in Tips : \A j \in Tips : j <= i
    ELSE IF Cardinality(Indexed) = 1 THEN CHOOSE i \in Indexed : TRUE ELSE 0

\* A client loads the pending transactions.
Load ==
    /\ listed \cap OnChain # {} /\ listed' = listed \ OnChain
    /\ UNCHANGED <<now, txs, chainVars, request>>

\* UNSENT_GRACE_MS passes for a transaction the node does not know.
Forget(i) ==
    /\ i \in listed /\ at[i] = "out" /\ listed' = listed \ {i}
    /\ UNCHANGED <<now, txs, chainVars, request>>

-----------------------------------------------------------------------------
(* Sending: preview, code, sign.                                           *)

Chained(cell, moved, limit) ==
    [kind |-> "chained", cell |-> cell, coin |-> 0, moved |-> moved, limit |-> limit, record |-> Empty, code |-> FALSE]
Outside(coin) ==
    [kind |-> "outside", cell |-> 0, coin |-> coin, moved |-> Zero, limit |-> Zero, record |-> Empty, code |-> FALSE]

Count(kind, moved) == Cardinality({i \in Txs : txs[i].kind = kind /\ txs[i].moved = moved})

\* A client chains on the newest cell it knows, however old if it could not load the list since; without one,
\* or for a channel's funding, it sends outside the chain.
Sends ==
    {Chained(i, moved, txs[i].limit) : i \in {i \in Txs : txs[i].kind # "outside"}, moved \in Flows}
        \cup {Outside(coin) : coin \in IF Count("outside", Zero) < MaxOutside THEN Plain ELSE {}}

Planned(t, skew, known) == [t EXCEPT !.record = PlannedRecord(t, now + skew, known)]
Row(t, needs, coded) == [tx |-> t, needs |-> needs, coded |-> coded]
Issue(p, row) == request' = [request EXCEPT ![p] = row]

\* The preview plans with the server's clock, and a node that may be behind; its request takes the place of the one
\* before.
Preview(t, skew, known) ==
    /\ Plans(t) /\ Issue("transaction", Row(t, NeedsCode(t, now + skew, known), FALSE))
    /\ UNCHANGED <<now, txs, chainVars, listed>>

\* Lit checks its rules before it emails the code for this transaction.
RequestCode ==
    /\ LET r == request["transaction"]
       IN  r # None /\ IF r.needs THEN /\ ~r.coded /\ Signs(r.tx, TRUE)
                                      /\ Issue("transaction", [r EXCEPT !.coded = TRUE])
                                 ELSE FALSE
    /\ UNCHANGED <<now, txs, chainVars, listed>>

\* What Lit signed: a chained transaction is listed, with whether its code was checked.
Signed(t, coded, where) ==
    /\ Len(txs) < MaxTxs
    /\ txs' = Append(txs, IF t.kind = "chained" THEN [t EXCEPT !.code = coded] ELSE t)
    /\ at' = Append(at, where) /\ time' = Append(time, 0)
    /\ listed' = IF t.kind = "outside" THEN listed ELSE listed \cup {Len(txs) + 1}

\* Lit signs and the client gets the signature, or refuses: with a code entered the request stays for another try.
\* A request that another replaces before the answer leaves a signature nobody gets.
Sign ==
    /\ LET r == request["transaction"]
       IN  /\ r # None
           /\ r.needs => r.coded
           /\ IF Signs(r.tx, r.coded) THEN Signed(r.tx, r.coded, "out")
              ELSE ~r.coded /\ UNCHANGED <<txs, at, time, listed>>
    /\ Issue("transaction", None)
    /\ UNCHANGED <<now, seen>>

\* A request runs out, or its page is closed.
Expire(p) == request[p] # None /\ Issue(p, None) /\ UNCHANGED <<now, txs, chainVars, listed>>

-----------------------------------------------------------------------------
(* Turning limits on and changing them: sendLimitSettings.                 *)

\* The amounts the server keeps, of which a change sets one, can differ from the cell's: any limits.
Changes(limit) ==
    IF ServerHead # 0 THEN {Chained(ServerHead, Zero, limit)}
    ELSE {Genesis(c, limit) : c \in {c \in Plain : Oldest(c)}}

\* signAndSendSettings: signed, listed and sent by the server.
SignAndSend(t, coded) == Signs(t, coded) /\ Signed(t, coded, IF NodeTakes(t) THEN "pool" ELSE "out")

\* A change that needs no code is signed at once; Lit emails the code of any other.
Settings(limit, skew, known) ==
    /\ Count("chained", Zero) < MaxChanges
    /\ \E u \in Changes(limit) :
         LET t == Planned(u, skew, known)
         IN  /\ Plans(t)
             /\ IF NeedsCode(t, now + skew, known)
                THEN Signs(t, TRUE) /\ Issue("settings", Row(t, TRUE, TRUE)) /\ UNCHANGED <<txs, at, time, listed>>
                ELSE SignAndSend(t, FALSE) /\ UNCHANGED request
    /\ UNCHANGED <<now, seen>>

\* The code is entered; the request is used up once the node takes the transaction, and stays for another try if not.
Confirm ==
    /\ request["settings"] # None /\ SignAndSend(request["settings"].tx, TRUE)
    /\ IF NodeTakes(request["settings"].tx) THEN Issue("settings", None) ELSE UNCHANGED request
    /\ UNCHANGED <<now, seen>>

-----------------------------------------------------------------------------
Next ==
    \/ \E i \in Txs : Send(i) \/ Commit(i) \/ Drop(i) \/ Forget(i)
    \/ IndexerCatchesUp
    \/ Tick
    \/ Load
    \/ \E t \in Sends, skew \in Skews, known \in Nodes : Preview(Planned(t, skew, known), skew, known)
    \/ RequestCode
    \/ Sign
    \/ \E p \in Purposes : Expire(p)
    \/ \E limit \in Limits, skew \in Skews, known \in Nodes : Settings(limit, skew, known)
    \/ Confirm

Spec == Init /\ [][Next]_vars

-----------------------------------------------------------------------------
(* Properties.                                                             *)

TypeOK ==
    /\ now \in 1 .. MaxTime
    /\ txs \in Seq(Transactions) /\ Len(txs) <= MaxTxs
    /\ at \in Seq({"out", "pool", "chain"}) /\ Len(at) = Len(txs)
    /\ time \in Seq(Nat) /\ Len(time) = Len(txs) /\ \A i \in Txs : time[i] <= now
    /\ seen \subseteq OnChain /\ listed \subseteq Txs
    /\ request \in [Purposes -> Requests \cup {None}]

\* The chained transactions before one on the chain: each spends the cell of an earlier one.
Before(i) == {j \in OnChain : j < i /\ txs[j].kind = "chained"}

(* What leaves the account through the chain in any 24 hours stays below the amount
   in force at the last send of these hours, unless that send was confirmed with the
   code: neither pending sends, nor expiring ones, nor a second client hide a send. *)
DailyAmountHolds ==
    \A i \in OnChain : txs[i].kind = "chained" /\ ~txs[i].code =>
        LET limit == txs[txs[i].cell].limit
            recent == {j \in Before(i) : time[j] > time[i] - Window}
        IN  \A a \in Assets : txs[i].moved[a] > 0 /\ limit[a] # Unlimited =>
                Moved(recent, a) + txs[i].moved[a] < limit[a]

(* What the server planned with its own clock, and a node that may have been behind,
   holds whenever Lit looks at it later with another clock: no node that knows the
   chain makes Lit refuse the record of a request. *)
PlanStands ==
    \A p \in Purposes : request[p] # None =>
        (request[p].tx.kind = "chained" => RecordHolds(request[p].tx))

(* The send-limit cells of an account are one chain, whose end the server finds:
   however two clients turn limits on at the same time, only one first cell ever
   gets on the chain; and a client that loads the list while every send-limit
   transaction in the pool is on it, and the indexer shows every committed one,
   builds on a cell that the node holds and that no other transaction it holds
   spends. *)
OneChain ==
    /\ \A i, j \in OnChain : txs[i].kind = "genesis" /\ txs[j].kind = "genesis" => i = j
    /\ (\A i \in Held : at[i] = "chain" \/ txs[i].kind = "outside" \/ i \in listed) /\ seen = OnChain =>
         \/ ServerHead \in Held /\ ~\E j \in Held : txs[j].cell = ServerHead
         \/ ServerHead = 0 /\ \A i \in Held : txs[i].kind = "outside"
=============================================================================
