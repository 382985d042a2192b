----------------------------- MODULE Watchtower -----------------------------
(***************************************************************************)
(* KeyWay's watchtower (server/watchtower.ts): the passes that look for    *)
(* every watched channel's close on the chain, punish a revoked commitment *)
(* of the peer and confirm what they found.                                *)
(*                                                                         *)
(* An instance of the API that holds the advisory lock runs passes; it     *)
(* reads the rows when a pass begins and acts on what it read then, one    *)
(* chain request or database write at a time.  The page's requests change  *)
(* the rows meanwhile (WatchQueue), and the chain moves: a transaction is  *)
(* in the pool, in a block that can be reorganized away, or final.         *)
(* A closing transaction is named by who made it and its commitment number *)
(* (0 unless it is the peer's); a penalty by a number of its own.          *)
(***************************************************************************)
EXTENDS Naturals

CONSTANTS
    Channels, Instances,
    MaxNumber,    \* revocations per channel (a bound)
    MaxPenalties, \* penalties sent per channel (a bound)
    MaxFaults,    \* transactions that leave the chain, requests that fail, instances that crash or lose the lock (a bound)
    None

Closings == {[by |-> "user", number |-> 0]} \cup [by : {"peer"}, number : 1 .. MaxNumber + 1]
Places == {"pool", "chain", "final"}
Claims == [by : {"peer", "penalty"}, id : 0 .. MaxPenalties, place : Places]
States == {"watching", "penalty-sent", "penalized", "closed", "missed", "invalid"}
Rows == [number : 0 .. MaxNumber, state : States, seen : BOOLEAN, spend : Closings \cup {None},
         closing : Closings \cup {None}, penalty : 0 .. MaxPenalties, unwatch : BOOLEAN, confirmed : BOOLEAN, old : BOOLEAN]
Stages == {"scan", "open", "closing", "watching", "sent", "live", "punish", "record"}
Checks == [was : Rows, stage : Stages, penalty : 0 .. MaxPenalties]

ASSUME TowerAssumption ==
    /\ MaxNumber \in Nat /\ MaxPenalties \in Nat /\ MaxFaults \in Nat
    /\ None \notin Channels \cup Instances \cup Closings \cup Claims \cup Rows \cup Checks

VARIABLES
    revoked,  \* the newest revocation the user's node has of each channel, 0 for none
    sound,    \* whether the channel's revocations unlock its commitments
    funding,  \* the funding transaction: "awaited", "chain" or "never"
    closing,  \* the transaction that spends the funding cell
    place,    \* where it is: "pool", "chain" or "final"
    claim,    \* what spends the commitment cell: who, which penalty, and where it is
    penalties,\* penalties sent so far
    row,      \* keyway_v2_watchtower_channels
    lock,     \* the instance that holds the advisory lock
    phase,    \* of each instance: "idle", "checking" or "confirming"
    work,     \* the checks of its pass: the row as it was read, and how far each is
    recent,   \* the resolved rows its pass read, to be confirmed
    faults,   \* faults so far
    overtaken,\* history: channels whose revocation came after the close was on the chain
    unread    \* history: channels whose revocation came while a pass checked the row it had read before

chainVars == <<revoked, sound, funding, closing, place, claim>>
passVars == <<lock, phase, work, recent>>
vars == <<chainVars, penalties, row, passVars, faults, overtaken, unread>>

NoWork == [c \in Channels |-> None]
NewRow == [number |-> 0, state |-> "watching", seen |-> FALSE, spend |-> None, closing |-> None, penalty |-> 0,
           unwatch |-> FALSE, confirmed |-> FALSE, old |-> FALSE]

Init ==
    /\ revoked = [c \in Channels |-> 0] /\ sound \in [Channels -> BOOLEAN]
    /\ funding = [c \in Channels |-> "awaited"]
    /\ closing = NoWork /\ place = [c \in Channels |-> "pool"] /\ claim = NoWork
    /\ penalties = [c \in Channels |-> 0]
    /\ row = NoWork
    /\ lock = None /\ phase = [i \in Instances |-> "idle"]
    /\ work = [i \in Instances |-> NoWork] /\ recent = [i \in Instances |-> NoWork]
    /\ faults = 0 /\ overtaken = {} /\ unread = {}

-----------------------------------------------------------------------------
(* The channel, its peer and the chain.                                    *)

Fault == faults < MaxFaults /\ faults' = faults + 1

OnChain(c, tx) == closing[c] # None /\ closing[c] = tx /\ place[c] # "pool"

Funded(c) == funding[c] = "chain"

Fund(c) ==
    /\ funding[c] = "awaited" /\ funding' = [funding EXCEPT ![c] = "chain"]
    /\ UNCHANGED <<revoked, sound, closing, place, claim, penalties, row, passVars, faults, overtaken, unread>>

\* A payment: the commitments up to the next number are revoked.
Revoke(c) ==
    /\ Funded(c) /\ revoked[c] < MaxNumber
    /\ closing[c] # None => place[c] # "final"
    /\ revoked' = [revoked EXCEPT ![c] = @ + 1]
    /\ UNCHANGED <<sound, funding, closing, place, claim, penalties, row, passVars, faults, overtaken, unread>>

\* The user's node closes, alone or with the peer, or the peer does, with its newest commitment or a revoked one.
Publish(c, tx) ==
    /\ Funded(c) /\ closing[c] = None
    /\ tx.number <= revoked[c] + 1
    /\ closing' = [closing EXCEPT ![c] = tx]
    /\ place' = [place EXCEPT ![c] = "pool"]
    /\ UNCHANGED <<revoked, sound, funding, claim, penalties, row, passVars, faults, overtaken, unread>>

\* It is included in a block, and is final some blocks later.
Bury(c) ==
    /\ closing[c] # None /\ place[c] # "final"
    /\ place' = [place EXCEPT ![c] = IF @ = "pool" THEN "chain" ELSE "final"]
    /\ UNCHANGED <<revoked, sound, funding, closing, claim, penalties, row, passVars, faults, overtaken, unread>>

\* A reorganization takes it off the chain: it waits in the pool again or is gone, and what spends it is gone too.
Unbury(c) ==
    /\ Fault
    /\ closing[c] # None /\ place[c] = "chain"
    /\ closing' = closing \/ closing' = [closing EXCEPT ![c] = None]
    /\ place' = [place EXCEPT ![c] = "pool"]
    /\ claim' = [claim EXCEPT ![c] = None]
    /\ UNCHANGED <<revoked, sound, funding, penalties, row, passVars, overtaken, unread>>

\* The peer takes its revoked commitment's cell, once the delay is over.
PeerClaims(c) ==
    /\ closing[c] # None /\ closing[c].by = "peer" /\ place[c] = "final" /\ claim[c] = None
    /\ claim' = [claim EXCEPT ![c] = [by |-> "peer", id |-> 0, place |-> "pool"]]
    /\ UNCHANGED <<revoked, sound, funding, closing, place, penalties, row, passVars, faults, overtaken, unread>>

BuryClaim(c) ==
    /\ claim[c] # None /\ place[c] # "pool"
    /\ \/ claim[c].place = "pool" /\ claim' = [claim EXCEPT ![c].place = "chain"]
       \/ claim[c].place = "chain" /\ place[c] = "final" /\ claim' = [claim EXCEPT ![c].place = "final"]
    /\ UNCHANGED <<revoked, sound, funding, closing, place, penalties, row, passVars, faults, overtaken, unread>>

\* A claim is reorganized off the chain, or drops out of the pool.
UnburyClaim(c) ==
    /\ Fault
    /\ claim[c] # None
    /\ \/ claim[c].place = "chain" /\ claim' = [claim EXCEPT ![c].place = "pool"]
       \/ claim[c].place # "final" /\ claim' = [claim EXCEPT ![c] = None]
    /\ UNCHANGED <<revoked, sound, funding, closing, place, penalties, row, passVars, overtaken, unread>>

-----------------------------------------------------------------------------
(* The page's requests.                                                    *)

Watch(c) ==
    /\ row[c] = None /\ closing[c] = None /\ funding[c] # "never"
    /\ row' = [row EXCEPT ![c] = NewRow]
    /\ UNCHANGED <<chainVars, penalties, passVars, faults, overtaken, unread>>

\* The newest revocation is stored.
StoreRevocation(c) ==
    /\ row[c] # None /\ row[c].number < revoked[c]
    /\ row' = [row EXCEPT ![c].number = revoked[c]]
    /\ overtaken' = IF row[c].state = "closed" \/ (closing[c] # None /\ place[c] # "pool")
                    THEN overtaken \cup {c} ELSE overtaken
    /\ unread' = IF \E i \in Instances : work[i][c] # None THEN unread \cup {c} ELSE unread
    /\ UNCHANGED <<chainVars, penalties, passVars, faults>>

GiveUp(c) == funding' = [funding EXCEPT ![c] = IF @ = "awaited" THEN "never" ELSE @]

\* The node removes the channel: it is closed, or was given up before its funding.
Unwatch(c) ==
    /\ row[c] # None /\ ~row[c].unwatch
    /\ Funded(c) => closing[c] # None
    /\ row' = [row EXCEPT ![c].unwatch = TRUE]
    /\ GiveUp(c)
    /\ UNCHANGED <<revoked, sound, closing, place, claim, penalties, passVars, faults, overtaken, unread>>

\* The row is not updated for so long that reorganizations are over, or that its channel will not be funded any more.
Age(c) ==
    /\ row[c] # None /\ ~row[c].old /\ \A i \in Instances : work[i][c] = None /\ recent[i][c] = None
    /\ closing[c] # None => place[c] = "final"
    /\ claim[c] # None => claim[c].place = "final"
    /\ row[c].state \in {"closed", "penalized"} => closing[c] # None
    /\ row[c].state = "penalized" => claim[c] # None
    /\ row' = [row EXCEPT ![c].old = TRUE]
    /\ GiveUp(c)
    /\ UNCHANGED <<revoked, sound, closing, place, claim, penalties, passVars, faults, overtaken, unread>>

-----------------------------------------------------------------------------
(* A pass.                                                                 *)

Watched(r) == r # None /\ r.state \in {"watching", "penalty-sent"}

\* Rows that are done with and old enough are deleted, some time after.
Deletable(r) == r # None /\ r.old /\ (\/ r.state \in {"penalized", "closed"} /\ r.confirmed
                                      \/ r.state \in {"missed", "invalid"})

\* tick and the start of runWatchtowerPass: the lock is taken or already held, and the rows are read.
BeginPass(i) ==
    /\ phase[i] = "idle" /\ lock \in {None, i}
    /\ lock' = i
    /\ \E gone \in SUBSET {c \in Channels : Deletable(row[c])} :
         row' = [c \in Channels |-> IF c \in gone THEN None ELSE row[c]]
    /\ work' = [work EXCEPT ![i] = [c \in Channels |->
                    IF Watched(row'[c]) THEN [was |-> row'[c], stage |-> "scan", penalty |-> 0] ELSE None]]
    /\ recent' = [recent EXCEPT ![i] = [c \in Channels |->
                    IF row'[c] # None /\ row'[c].state \in {"closed", "penalized"} /\ ~row'[c].confirmed
                    THEN row'[c] ELSE None]]
    /\ phase' = [phase EXCEPT ![i] = "checking"]
    /\ UNCHANGED <<chainVars, penalties, faults, overtaken, unread>>

At(i, c, stage) == phase[i] = "checking" /\ work[i][c] # None /\ work[i][c].stage = stage
Was(i, c) == work[i][c].was
Go(i, c, stage) == work' = [work EXCEPT ![i][c].stage = stage]
Done(i, c) == work' = [work EXCEPT ![i][c] = None]

\* save: the fields given; the state and the transactions not given are those the pass read.
Save(i, c, state, tx, penalty) ==
    row' = [row EXCEPT ![c] = IF @ = None THEN None ELSE
               [@ EXCEPT !.state = state,
                         !.closing = IF tx = None THEN Was(i, c).closing ELSE tx,
                         !.penalty = IF penalty = 0 THEN Was(i, c).penalty ELSE penalty,
                         !.old = row[c].old /\ state = row[c].state]]

\* assessChannel reads the funding lock's history, from where the last pass stopped: it sees the funding and the close,
\* if they are on the chain, and saves that.
Scan(i, c) ==
    /\ At(i, c, "scan")
    /\ LET seen == Was(i, c).seen \/ Funded(c)
           found == IF closing[c] # None /\ place[c] # "pool" THEN closing[c] ELSE None
           spend == IF Was(i, c).spend # None THEN Was(i, c).spend ELSE found IN
       /\ work' = [work EXCEPT ![i][c] = [work[i][c] EXCEPT !.was = [Was(i, c) EXCEPT !.seen = seen, !.spend = spend],
                                                            !.stage = IF spend = None THEN "open" ELSE "closing"]]
       /\ row' = [row EXCEPT ![c] = IF @ = None THEN None ELSE [@ EXCEPT !.seen = seen, !.spend = spend]]
    /\ UNCHANGED <<chainVars, penalties, lock, phase, recent, faults, overtaken, unread>>

\* The history cannot be read, or is too long for this pass: the check of the channel ends.
ScanFails(i, c) ==
    /\ At(i, c, "scan") /\ Was(i, c).spend = None
    /\ Done(i, c)
    /\ UNCHANGED <<chainVars, penalties, row, lock, phase, recent, faults, overtaken, unread>>

\* The channel is open: a row never funded is dropped when the page gave the channel up or it is old.
StillOpen(i, c) ==
    /\ At(i, c, "open")
    /\ IF ~Was(i, c).seen /\ (Was(i, c).unwatch \/ Was(i, c).old)
       THEN row' = [row EXCEPT ![c] = None]
       ELSE Save(i, c, Was(i, c).state, None, 0)
    /\ Done(i, c)
    /\ UNCHANGED <<chainVars, penalties, lock, phase, recent, faults, overtaken, unread>>

\* Mutant: the peer's commitment counts as revoked only if the revocation is newer.
RevokedBefore(r) == r.spend.by = "peer" /\ r.number > r.spend.number

\* The peer published a commitment that the row's revocation covers.
Revoked(r) == r.spend.by = "peer" /\ r.number >= r.spend.number

\* The closing transaction is read: it left the chain, is not committed, closed the channel, or is revoked.
Assess(i, c) ==
    /\ At(i, c, "closing")
    /\ LET spend == Was(i, c).spend IN
       \/ /\ closing[c] # spend
          /\ row' = [row EXCEPT ![c] = IF @ = None THEN None ELSE [@ EXCEPT !.spend = None]]
          /\ work' = [work EXCEPT ![i][c].was.spend = None, ![i][c].stage = "watching"]
       \/ /\ closing[c] = spend /\ place[c] = "pool"
          /\ Go(i, c, "watching") /\ UNCHANGED row
       \/ /\ OnChain(c, spend) /\ ~Revoked(Was(i, c))
          /\ Save(i, c, "closed", spend, 0)
          /\ Done(i, c)
       \/ /\ OnChain(c, spend) /\ Revoked(Was(i, c))
          /\ Go(i, c, IF Was(i, c).penalty = 0 THEN "live" ELSE "sent") /\ UNCHANGED row
    /\ UNCHANGED <<chainVars, penalties, lock, phase, recent, faults, overtaken, unread>>

\* Nothing to do yet.
KeepWatching(i, c) ==
    /\ At(i, c, "watching")
    /\ Save(i, c, Was(i, c).state, None, 0)
    /\ Done(i, c)
    /\ UNCHANGED <<chainVars, penalties, lock, phase, recent, faults, overtaken, unread>>

PenaltyAt(c, id) == IF claim[c] # None /\ claim[c].by = "penalty" /\ claim[c].id = id THEN claim[c].place ELSE "unknown"

\* Mutant: one that is gone is not sent again.
LookOnly(i, c) ==
    /\ At(i, c, "sent")
    /\ Save(i, c, IF PenaltyAt(c, Was(i, c).penalty) \in {"chain", "final"} THEN "penalized" ELSE Was(i, c).state, None, 0)
    /\ Done(i, c)
    /\ UNCHANGED <<chainVars, penalties, lock, phase, recent, faults, overtaken, unread>>

\* A penalty sent before is looked up.
LookForPenalty(i, c) ==
    /\ At(i, c, "sent")
    /\ LET found == PenaltyAt(c, Was(i, c).penalty) IN
       \/ found \in {"chain", "final"} /\ Save(i, c, "penalized", Was(i, c).spend, 0) /\ Done(i, c)
       \/ found = "pool" /\ Save(i, c, Was(i, c).state, None, 0) /\ Done(i, c)
       \/ found = "unknown" /\ Go(i, c, "live") /\ UNCHANGED row
    /\ UNCHANGED <<chainVars, penalties, lock, phase, recent, faults, overtaken, unread>>

\* Mutant: a spend in the pool counts.
LiveInPool(c, tx) == OnChain(c, tx) /\ claim[c] = None

\* isLive: the cell is on the chain and nothing on the chain spends it.
Live(c, tx) == OnChain(c, tx) /\ (IF claim[c] = None THEN TRUE ELSE claim[c].place = "pool")

\* Is there still something to punish, and can it be?
LookAtCell(i, c) ==
    /\ At(i, c, "live")
    /\ LET spend == Was(i, c).spend IN
       \/ ~Live(c, spend) /\ Save(i, c, "missed", spend, 0) /\ Done(i, c)
       \/ Live(c, spend) /\ ~sound[c] /\ Save(i, c, "invalid", spend, 0) /\ Done(i, c)
       \/ Live(c, spend) /\ sound[c] /\ Go(i, c, "punish") /\ UNCHANGED row
    /\ UNCHANGED <<chainVars, penalties, lock, phase, recent, faults, overtaken, unread>>

\* The penalty is built and sent, one at a time in an instance.  It is refused unless the cell is free; its answer can
\* be lost.
Punish(i, c) ==
    /\ At(i, c, "punish") /\ penalties[c] < MaxPenalties
    /\ \/ /\ Live(c, Was(i, c).spend) /\ claim[c] = None
          /\ penalties' = [penalties EXCEPT ![c] = @ + 1]
          /\ claim' = [claim EXCEPT ![c] = [by |-> "penalty", id |-> penalties[c] + 1, place |-> "pool"]]
          /\ \/ /\ work' = [work EXCEPT ![i][c].penalty = penalties[c] + 1, ![i][c].stage = "record"]
                /\ UNCHANGED faults
             \/ Fault /\ Done(i, c)
       \/ /\ ~(Live(c, Was(i, c).spend) /\ claim[c] = None)
          /\ Done(i, c) /\ UNCHANGED <<penalties, claim, faults>>
       \/ /\ Fault
          /\ Done(i, c) /\ UNCHANGED <<penalties, claim>>
    /\ UNCHANGED <<revoked, sound, funding, closing, place, row, lock, phase, recent, overtaken, unread>>

\* The penalty is recorded.
RecordPenalty(i, c) ==
    /\ At(i, c, "record")
    /\ Save(i, c, "penalty-sent", Was(i, c).spend, work[i][c].penalty)
    /\ Done(i, c)
    /\ UNCHANGED <<chainVars, penalties, lock, phase, recent, faults, overtaken, unread>>

EndChecks(i) ==
    /\ phase[i] = "checking" /\ work[i] = NoWork
    /\ phase' = [phase EXCEPT ![i] = "confirming"]
    /\ UNCHANGED <<chainVars, penalties, row, lock, work, recent, faults, overtaken, unread>>

Resolution(c, r) == IF r.state = "penalized" THEN PenaltyAt(c, r.penalty) \in {"chain", "final"} ELSE OnChain(c, r.closing)

\* confirmResolution: a resolution long on the chain is final; one that left the chain puts the channel under watch again.
Confirm(i, c) ==
    /\ phase[i] = "confirming" /\ recent[i][c] # None
    /\ row' = [row EXCEPT ![c] =
                  IF @ = None THEN None
                  ELSE IF @.state # recent[i][c].state THEN @
                  ELSE IF Resolution(c, recent[i][c]) THEN [@ EXCEPT !.confirmed = row[c].confirmed \/ row[c].old]
                  ELSE IF @.state = "penalized" THEN [@ EXCEPT !.state = "penalty-sent", !.old = FALSE]
                  ELSE [@ EXCEPT !.state = "watching", !.spend = None, !.closing = None, !.old = FALSE]]
    /\ recent' = [recent EXCEPT ![i][c] = None]
    /\ UNCHANGED <<chainVars, penalties, lock, phase, work, faults, overtaken, unread>>

\* The next pass starts after the interval.
EndPass(i) ==
    /\ phase[i] = "confirming" /\ recent[i] = NoWork
    /\ phase' = [phase EXCEPT ![i] = "idle"]
    /\ UNCHANGED <<chainVars, penalties, row, lock, work, recent, faults, overtaken, unread>>

\* The process ends, whatever it was doing.
Crash(i) ==
    /\ Fault
    /\ phase[i] # "idle"
    /\ lock' = IF lock = i THEN None ELSE lock
    /\ phase' = [phase EXCEPT ![i] = "idle"]
    /\ work' = [work EXCEPT ![i] = NoWork] /\ recent' = [recent EXCEPT ![i] = NoWork]
    /\ UNCHANGED <<chainVars, penalties, row, overtaken, unread>>

\* The connection that holds the lock breaks: the lock is free, the pass goes on.
LoseConnection(i) ==
    /\ Fault
    /\ lock = i /\ lock' = None
    /\ UNCHANGED <<chainVars, penalties, row, phase, work, recent, overtaken, unread>>

Check(i, c) ==
    \/ Scan(i, c) \/ ScanFails(i, c) \/ StillOpen(i, c) \/ Assess(i, c) \/ KeepWatching(i, c) \/ LookForPenalty(i, c)
    \/ LookAtCell(i, c) \/ Punish(i, c) \/ RecordPenalty(i, c) \/ Confirm(i, c)
Chain(c) ==
    \/ Fund(c) \/ Revoke(c) \/ (\E tx \in Closings : Publish(c, tx)) \/ Bury(c) \/ Unbury(c)
    \/ PeerClaims(c) \/ BuryClaim(c) \/ UnburyClaim(c)
Page(c) == Watch(c) \/ StoreRevocation(c) \/ Unwatch(c)
Pass(i) == BeginPass(i) \/ EndChecks(i) \/ EndPass(i) \/ \E c \in Channels : Check(i, c)

Next ==
    \/ \E c \in Channels : Chain(c) \/ Page(c) \/ Age(c)
    \/ \E i \in Instances : Pass(i) \/ Crash(i) \/ LoseConnection(i)

Spec == Init /\ [][Next]_vars

\* The instances run their passes, a history read again and again is read in the end, and transactions are included.
Fairness ==
    /\ \A i \in Instances : WF_vars(Pass(i)) /\ \A c \in Channels : SF_vars(Scan(i, c))
    /\ \A c \in Channels : WF_vars(Bury(c)) /\ WF_vars(BuryClaim(c))
FairSpec == Spec /\ Fairness

-----------------------------------------------------------------------------
(* Properties.                                                             *)

ChainTypes ==
    /\ revoked \in [Channels -> 0 .. MaxNumber] /\ sound \in [Channels -> BOOLEAN]
    /\ funding \in [Channels -> {"awaited", "chain", "never"}]
    /\ closing \in [Channels -> Closings \cup {None}] /\ place \in [Channels -> Places]
    /\ claim \in [Channels -> Claims \cup {None}]
    /\ penalties \in [Channels -> 0 .. MaxPenalties] /\ faults \in 0 .. MaxFaults

RowTypes == row \in [Channels -> Rows \cup {None}]

PassTypes ==
    /\ lock \in Instances \cup {None} /\ phase \in [Instances -> {"idle", "checking", "confirming"}]
    /\ work \in [Instances -> [Channels -> Checks \cup {None}]]
    /\ recent \in [Instances -> [Channels -> Rows \cup {None}]]

TypeOK == ChainTypes /\ RowTypes /\ PassTypes /\ overtaken \subseteq Channels /\ unread \subseteq Channels

OverlookedOnly(excused) ==
    \A c \in Channels \ excused : row[c] # None /\ row[c].state = "closed" /\ row[c].closing.by = "peer" =>
        row[c].number < row[c].closing.number

\* The peer's close is called current only if the revocation the server had does not cover it: no check, whatever came
\* in between its steps, closes the row of a revoked commitment.
NeverOverlooked == OverlookedOnly(overtaken \cup unread)

\* A row says "missed" only when the peer itself has spent its revoked commitment, never when a penalty of the
\* watchtower or a cell not yet on the chain made it look spent, unless something was reorganized or failed.
MissedToThePeer ==
    \A c \in Channels : row[c] # None /\ row[c].state = "missed" /\ faults = 0 =>
        claim[c] # None /\ claim[c].by = "peer" /\ claim[c].place # "pool"

\* A revoked commitment is punished, unless the peer is faster or the server took the revocation in too late
\* (watchtower.ts: "punishes a peer that publishes a revoked commitment while the user's tab is closed").
Cheated(c) ==
    /\ closing[c] # None /\ closing[c].by = "peer" /\ place[c] = "final" /\ sound[c] /\ c \notin overtaken \cup unread
    /\ Watched(row[c]) /\ row[c].number >= closing[c].number
EventuallyPunished == \A c \in Channels : Cheated(c) ~> (claim[c] # None \/ row[c] = None)

-----------------------------------------------------------------------------
(* The inductive invariant behind them (proved inductive in                *)
(* WatchtowerProofs).                                                      *)

\* What a check was given, and that no revocation came since but one the history tells of.
ReadInv ==
    \A i \in Instances, c \in Channels : work[i][c] # None =>
        /\ Watched(work[i][c].was)
        /\ work[i][c].stage \in {"sent", "live", "punish", "record"} => work[i][c].was.spend # None
        /\ row[c] # None /\ c \notin unread => row[c].number <= work[i][c].was.number

\* As long as nothing failed only the instance with the lock works, on rows that are as it read them.
OneTower ==
    faults = 0 => \A i \in Instances :
        /\ phase[i] # "idle" => lock = i
        /\ \A c \in Channels : work[i][c] # None =>
               phase[i] = "checking" /\ row[c] # None /\ row[c].penalty = work[i][c].was.penalty

\* As long as nothing failed a penalty on the chain or in the pool is recorded, or about to be.
OnePenalty ==
    faults = 0 => \A c \in Channels :
        /\ claim[c] # None => closing[c] # None /\ place[c] # "pool"
        /\ claim[c] # None /\ claim[c].by = "penalty" =>
               /\ claim[c].id # 0
               /\ row[c] # None => \/ row[c].penalty = claim[c].id
                                   \/ \E i \in Instances : work[i][c] # None /\ work[i][c].stage = "record"
        /\ \A i \in Instances : work[i][c] # None =>
               /\ work[i][c].stage \in {"sent", "live", "punish", "record"} => OnChain(c, work[i][c].was.spend)
               /\ work[i][c].stage \in {"live", "punish"} => claim[c] = None \/ claim[c].by = "peer"
               /\ work[i][c].stage = "record" =>
                      claim[c] # None /\ claim[c].by = "penalty" /\ claim[c].id = work[i][c].penalty

IInv == TypeOK /\ ReadInv /\ OneTower /\ OnePenalty /\ NeverOverlooked /\ MissedToThePeer
=============================================================================
