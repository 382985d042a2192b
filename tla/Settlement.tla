----------------------------- MODULE Settlement -----------------------------
(***************************************************************************)
(* The way back of a channel's money in the browser.  Fiber settles a      *)
(* force-closed channel to the node's own CKB key, so the page keeps a     *)
(* 62 CKB cell there to pay for it (fee-reserve.ts), claims the user's     *)
(* share from the commitment cell itself (watchtower-settle.ts), and       *)
(* sweeps the key to the account every ten minutes and after each claim    *)
(* (settlement-sweep.ts, create-keyway.ts).  The two sweeps are not        *)
(* ordered with each other, nor with an open.                              *)
(*                                                                         *)
(* Capacities are in CKB.  A transaction's fee and SWEEP_FEE_MARGIN (0.01  *)
(* CKB) are below the unit: an amount has to exceed a minimum to stand.    *)
(***************************************************************************)
EXTENDS Integers, FiniteSets, FiniteSetsExt

CONSTANTS N,            \* bound: channels the account opens, numbered in that order
          Minimums,     \* occupied capacities of a plain cell at the account
          Commitments   \* what a force close may put on the chain

FEE_RESERVE == 62
MIN_PLAIN_CELL == 61

\* A commitment: the user's part; payments in flight; is it one the page has
\* the settlement data of; is what a claim leaves too small for a cell?
Commitment == [mine : Nat, tlcs : BOOLEAN, known : BOOLEAN, small : BOOLEAN]

Channels == 1..N
Sweeps == {"timer", "pass"}
NoOpen == [pc |-> "none"]
IdleSweep == [pc |-> "idle"]
IdlePass == [pc |-> "idle"]
At(stage) == [stage |-> stage, slots |-> {}, ripe |-> FALSE,
              data |-> [mine |-> 0, tlcs |-> FALSE, known |-> TRUE, small |-> FALSE]]

ASSUME Capacities == /\ N \in Nat /\ Minimums \subseteq {61, 95}
                     /\ Commitments \subseteq Commitment

VARIABLES minimum,   \* occupied capacity of a plain cell at the account
          chan,      \* each channel on the chain
          cells,     \* live cells of the node's CKB key
          pool,      \* transactions that are sent and not committed
          claimed,   \* channels whose share has reached the node's key
          listed,    \* each channel in the node's list
          watched,   \* channels in the in-page watchtower's store
          open,      \* an openFundedChannel in progress
          sweeps,    \* the two sweepNow() that may be in progress
          pass,      \* the watchtower's pass
          claims,    \* claimsToSweep
          unsent,    \* did the last reserve that was owed go unsent?
          overlapped \* has an open met a sweep that returns the reserve?

chainVars == <<chan, cells, pool, claimed>>
pageVars == <<open, sweeps, pass, claims>>
listVars == <<listed, watched>>
history == <<unsent, overlapped>>
settlementVars == <<minimum, chainVars, listVars, pageVars, history>>

SettlementInit ==
  /\ minimum \in Minimums
  /\ chan = [c \in Channels |-> At("none")]
  /\ cells = {} /\ pool = {} /\ claimed = {}
  /\ listed = [c \in Channels |-> "no"] /\ watched = {}
  /\ open = NoOpen /\ sweeps = [s \in Sweeps |-> IdleSweep]
  /\ pass = IdlePass /\ claims = {} /\ unsent = FALSE /\ overlapped = FALSE

------------------------------------------------------------------------------
(* Cells and the pool *)

Cell(of, cap) == [of |-> of, cap |-> cap]
Total(set) == MapThenSumSet(LAMBDA x : x.cap, set)

\* The node takes a transaction whose inputs no other one in its pool spends.
Fits(tx) == \A t \in pool : t.ins \cap tx.ins = {}

Offer(tx) == pool' = IF Fits(tx) THEN pool \cup {tx} ELSE pool

\* hasFeeReserve looks at the cells of the chain, not at the pool.
HasFeeReserve == \E x \in cells : x.cap >= MIN_PLAIN_CELL

\* Mutant: a closed channel that still waits for its settlement is left out.
NeedsUntilClosed(c) == listed[c] = "needs" /\ chan[c].stage # "commit"

NeedsFeeReserve(c) == listed[c] = "needs"

KeptNow == IF \E c \in Channels : NeedsFeeReserve(c) THEN FEE_RESERVE ELSE 0

------------------------------------------------------------------------------
(* Opening a channel *)

\* A sweep that gives the reserve back between the check and the channel's
\* entry in the node's list.
ReturnsReserve ==
  \/ \E s \in Sweeps : sweeps[s].pc = "listed" /\ sweeps[s].keep = 0
  \/ \E t \in pool : t.kind = "sweep" /\ t.keep = 0

OpenFundedChannel(c) ==
  /\ open.pc = "none" /\ chan[c].stage = "none"
  /\ \A d \in 1..(c - 1) : chan[d].stage # "none"
  /\ open' = [pc |-> "checked", ch |-> c, reserve |-> ~HasFeeReserve]
  /\ overlapped' = (overlapped \/ ReturnsReserve)
  /\ UNCHANGED <<minimum, chainVars, listVars, sweeps, pass, claims, unsent>>

Negotiate ==
  /\ open.pc = "checked"
  /\ open' = [open EXCEPT !.pc = "funding"]
  /\ listed' = [listed EXCEPT ![open.ch] = "needs"]
  /\ UNCHANGED <<minimum, chainVars, watched, sweeps, pass, claims, history>>

\* The user or the peer declines, or the signing fails.
OpenFails ==
  /\ open.pc = "funding"
  /\ open' = NoOpen
  /\ chan' = [chan EXCEPT ![open.ch] = At("over")]
  /\ listed' = [listed EXCEPT ![open.ch] = "over"]
  /\ UNCHANGED <<minimum, cells, pool, claimed, watched, sweeps, pass, claims, history>>

FundingSubmitted ==
  /\ open.pc = "funding"
  /\ chan' = [chan EXCEPT ![open.ch].stage = "funding"]
  /\ open' = IF open.reserve THEN [open EXCEPT !.pc = "reserve"] ELSE NoOpen
  /\ UNCHANGED <<minimum, cells, pool, claimed, listVars, sweeps, pass, claims, history>>

\* Fiber hands the channel to the page's watchtower when it is funded.
FundingCommits(c) ==
  /\ chan[c].stage = "funding"
  /\ chan' = [chan EXCEPT ![c] = At("open")]
  /\ watched' = watched \cup {c}
  /\ UNCHANGED <<minimum, cells, pool, claimed, listed, pageVars, history>>

SendFeeReserve ==
  /\ open.pc = "reserve" /\ chan[open.ch].stage # "funding"
  /\ open' = NoOpen
  /\ unsent' = FALSE
  /\ pool' = pool \cup {[kind |-> "reserve", ins |-> {}, keep |-> 0,
                         outs |-> {Cell(<<"reserve", open.ch>>, FEE_RESERVE)}]}
  /\ UNCHANGED <<minimum, chan, cells, claimed, listVars, sweeps, pass, claims, overlapped>>

\* The wait runs out, or the user does not confirm the send.
FeeReserveNotSent ==
  /\ open.pc = "reserve"
  /\ open' = NoOpen
  /\ unsent' = TRUE
  /\ UNCHANGED <<minimum, chainVars, listVars, sweeps, pass, claims, overlapped>>

------------------------------------------------------------------------------
(* Closing it: the peer, the node and the chain *)

CooperativeClose(c) ==
  /\ chan[c].stage = "open"
  /\ chan' = [chan EXCEPT ![c] = At("over")]
  /\ watched' = watched \ {c}
  /\ UNCHANGED <<minimum, cells, pool, claimed, listed, pageVars, history>>

\* Either side's commitment: the page knows its settlement data unless it is
\* a revoked one.  small: what would be left to the peer cannot stand alone.
ForceClose(c, data) ==
  /\ chan[c].stage = "open"
  /\ chan' = [chan EXCEPT ![c] = [stage |-> "commit", slots |-> {"mine", "peer"},
                                  ripe |-> FALSE, data |-> data]]
  /\ UNCHANGED <<minimum, cells, pool, claimed, listVars, pageVars, history>>

DelayPasses(c) ==
  /\ chan[c].stage = "commit" /\ ~chan[c].ripe
  /\ chan' = [chan EXCEPT ![c].ripe = TRUE]
  /\ UNCHANGED <<minimum, cells, pool, claimed, listVars, pageVars, history>>

\* The peer's transactions spend the commitment cell: a claim that is still
\* in the pool can no longer be committed.
WithoutClaims(c) == {t \in pool : ~(t.kind = "claim" /\ t.ch = c)}

PeerSettles(c) ==
  /\ chan[c].stage = "commit" /\ chan[c].ripe /\ "peer" \in chan[c].slots
  /\ chan' = [chan EXCEPT ![c].slots = IF chan[c].data.mine = 0 THEN {} ELSE @ \ {"peer"}]
  /\ pool' = WithoutClaims(c)
  /\ UNCHANGED <<minimum, cells, claimed, listVars, pageVars, history>>

TlcsSettle(c) ==
  /\ chan[c].stage = "commit" /\ chan[c].ripe /\ chan[c].data.tlcs
  /\ chan' = [chan EXCEPT ![c].data.tlcs = FALSE]
  /\ UNCHANGED <<minimum, cells, pool, claimed, listVars, pageVars, history>>

\* The node's list follows the chain: closed, and nothing left to settle.
NodeConfirms(c) ==
  /\ listed[c] = "needs"
  /\ chan[c].stage = "over" \/ (chan[c].stage = "commit" /\ chan[c].slots = {})
  /\ listed' = [listed EXCEPT ![c] = "over"]
  /\ UNCHANGED <<minimum, chainVars, watched, pageVars, history>>

Commit(tx) ==
  /\ tx \in pool /\ tx.ins \subseteq cells
  /\ pool' = pool \ {tx}
  /\ cells' = (cells \ tx.ins) \cup tx.outs
  /\ IF tx.kind = "claim"
       THEN /\ chan' = [chan EXCEPT ![tx.ch].slots = @ \ {"mine"}]
            /\ claimed' = claimed \cup {tx.ch}
       ELSE UNCHANGED <<chan, claimed>>
  /\ UNCHANGED <<minimum, listVars, pageVars, history>>

------------------------------------------------------------------------------
(* sweepNow: the list of channels says what to keep, the cells are read later *)

Lists(s) ==
  /\ sweeps[s].pc = "idle"
  /\ overlapped' = (overlapped \/ (KeptNow = 0 /\ open.pc = "checked"))
  /\ sweeps' = [sweeps EXCEPT ![s] = [pc |-> "listed", keep |-> KeptNow]]

TimerSweep ==
  /\ cells # {} /\ Lists("timer")
  /\ UNCHANGED <<minimum, chainVars, listVars, open, pass, claims, unsent>>

------------------------------------------------------------------------------
(* The in-page watchtower's pass *)

\* Mutant: only the first settlement of a commitment is understood.
ClaimableFirst(c) == LET ch == chan[c] IN
  /\ ch.data.known /\ ch.ripe /\ ~ch.data.tlcs /\ ch.slots = {"mine", "peer"}
  /\ ch.data.mine > 0 /\ ~ch.data.small

\* What planClaim decides from the live commitment cell.
Claimable(c) ==
  LET ch == chan[c] IN
  /\ ch.data.known /\ ch.ripe /\ ~ch.data.tlcs /\ "mine" \in ch.slots
  /\ "peer" \in ch.slots => ch.data.mine > 0 /\ ~ch.data.small

\* "settled", "the user's share is already claimed", "the user has no share".
Done(c) == /\ chan[c].stage = "commit"
           /\ \/ chan[c].slots = {}
              \/ chan[c].data.known /\ ~chan[c].data.tlcs
                 /\ \/ "mine" \notin chan[c].slots
                    \/ chan[c].data.mine = 0 /\ "peer" \in chan[c].slots

\* A claim that is on the chain is swept first, within the pass.
PassSweeps(c) ==
  /\ pass.pc = "idle" /\ c \in claims \cap claimed
  /\ claims' = claims \ {c}
  /\ pass' = [pc |-> "sweeping"]
  /\ Lists("pass")
  /\ UNCHANGED <<minimum, chainVars, listVars, open, unsent>>

PassLists ==
  /\ pass.pc = "idle" /\ claims \cap claimed = {}
  /\ \E c \in watched : Claimable(c) \/ Done(c)
  /\ pass' = [pc |-> "checking", todo |-> {c \in watched : listed[c] # "no"}]
  /\ UNCHANGED <<minimum, chainVars, listVars, open, sweeps, claims, history>>

\* The channels are gone through in the order of the store.
Checking(c) == pass.pc = "checking" /\ pass.todo # {} /\ c = Min(pass.todo)

ClaimTx(c, fee) ==
  [kind |-> "claim", ch |-> c, ins |-> {fee},
   outs |-> {Cell(<<"claim", c>>, fee.cap + chan[c].data.mine)}]

AfterChannel(c) == IF pass.todo = {c} THEN IdlePass ELSE [pass EXCEPT !.todo = @ \ {c}]

\* The claim takes one plain cell of the key for the fee; what it takes from
\* the commitment and this cell come back as one cell of the key.
SettleChannel(c) ==
  /\ Checking(c)
  /\ Claimable(c)
  /\ ~\E t \in pool : t.kind = "claim" /\ t.ch = c
  /\ \E fee \in cells :
       /\ Offer(ClaimTx(c, fee))
       /\ claims' = IF Fits(ClaimTx(c, fee)) THEN claims \cup {c} ELSE claims
  /\ pass' = AfterChannel(c)
  /\ UNCHANGED <<minimum, chan, cells, claimed, listVars, open, sweeps, history>>

\* Nothing to do yet, no cell for the fee, or a claim already in the pool.
PassesOver(c) ==
  /\ Checking(c)
  /\ ~Done(c)
  /\ \/ ~Claimable(c) \/ cells = {}
     \/ \E t \in pool : t.kind = "claim" /\ t.ch = c
  /\ pass' = AfterChannel(c)
  /\ UNCHANGED <<minimum, chainVars, listVars, open, sweeps, claims, history>>

Unwatch(c) ==
  /\ Checking(c)
  /\ Done(c)
  /\ watched' = watched \ {c}
  /\ pass' = AfterChannel(c)
  /\ UNCHANGED <<minimum, chainVars, listed, open, sweeps, claims, history>>

------------------------------------------------------------------------------
(* The sweeps *)

\* Mutant: the reserve is what is left once the account has a cell.
KeepsRest(rest, keep) == IF keep > 0 /\ rest >= keep + MIN_PLAIN_CELL THEN keep ELSE 0

\* What stays with the key of the plain CKB it has.
Keeps(rest, keep) == IF keep > 0 /\ rest >= keep
                       THEN IF rest - keep <= MIN_PLAIN_CELL THEN rest ELSE keep
                       ELSE 0

\* Is there anything to move?
WorthSweeping(keep) == Total(cells) > Keeps(Total(cells), keep)
                       /\ (Keeps(Total(cells), keep) > 0 \/ Total(cells) > minimum)

\* An amount that cannot stand at the account joins the reserve.
SweepTx(keep) ==
  LET kept == Keeps(Total(cells), keep)
      stays == IF kept > 0 /\ Total(cells) - kept <= minimum THEN Total(cells) ELSE kept
  IN [kind |-> "sweep", ins |-> cells, keep |-> keep,
      outs |-> IF stays > 0 THEN {Cell(<<"kept", "key">>, stays)} ELSE {}]

EndSweep(s) == /\ sweeps' = [sweeps EXCEPT ![s] = IdleSweep]
               /\ pass' = IF s = "pass" THEN IdlePass ELSE pass

\* The code also sends a sweep that turns one cell of the key into the same
\* cell less the fee, every ten minutes: that one is left out.
Rewrites(tx) == {x.cap : x \in tx.ins} = {x.cap : x \in tx.outs} /\ Cardinality(tx.ins) = 1

SweepSettlement(s) ==
  /\ sweeps[s].pc = "listed"
  /\ LET tx == SweepTx(sweeps[s].keep) IN
       IF WorthSweeping(sweeps[s].keep) /\ ~Rewrites(tx) THEN Offer(tx) ELSE UNCHANGED pool
  /\ EndSweep(s)
  /\ UNCHANGED <<minimum, chan, cells, claimed, listVars, open, claims, history>>

\* The page is closed and opened again: what it was doing is forgotten, an
\* outstanding reserve too.
Reload ==
  /\ open.pc \in {"none", "reserve"}
  /\ unsent' = (unsent \/ open.pc = "reserve")
  /\ open' = NoOpen /\ pass' = IdlePass /\ claims' = {}
  /\ sweeps' = [s \in Sweeps |-> IdleSweep]
  /\ UNCHANGED <<minimum, chainVars, listVars, overlapped>>

------------------------------------------------------------------------------

OpenStep == Negotiate \/ OpenFails \/ FundingSubmitted \/ SendFeeReserve \/ FeeReserveNotSent

PassStep ==
  \/ PassLists
  \/ \E c \in Channels : PassSweeps(c) \/ SettleChannel(c) \/ PassesOver(c) \/ Unwatch(c)

ChainStep(c) ==
  \/ CooperativeClose(c) \/ \E data \in Commitments : ForceClose(c, data)
  \/ DelayPasses(c) \/ PeerSettles(c) \/ TlcsSettle(c)

SettlementNext ==
  \/ OpenStep \/ PassStep \/ TimerSweep \/ Reload
  \/ \E c \in Channels : OpenFundedChannel(c) \/ FundingCommits(c) \/ ChainStep(c) \/ NodeConfirms(c)
  \/ \E s \in Sweeps : SweepSettlement(s)
  \/ \E tx \in pool : Commit(tx)

SettlementSpec == SettlementInit /\ [][SettlementNext]_settlementVars

\* The page runs its timers and is not reloaded for ever, and the chain
\* commits what stays valid.
Fairness ==
  /\ WF_settlementVars(OpenStep) /\ WF_settlementVars(PassStep) /\ WF_settlementVars(TimerSweep)
  /\ \A s \in Sweeps : WF_settlementVars(SweepSettlement(s))
  /\ \A c \in Channels : WF_settlementVars(FundingCommits(c))
  /\ WF_settlementVars(\E tx \in pool : Commit(tx))
  /\ <>[][~Reload]_settlementVars

FairSpec == SettlementSpec /\ Fairness

------------------------------------------------------------------------------
(* Properties *)

OnTheWay == UNION {t.outs : t \in pool}

\* While a channel may have to be claimed, a plain cell that can pay for it is
\* at the node's key, on its way there, or owed by the open in progress: the
\* sweeps, whatever list they read and in whatever order they run with claims,
\* leave it.  (An open whose reserve was not sent leaves it to the next one,
\* and one that meets a sweep that returns the reserve may go without.)
Unreserved == unsent \/ overlapped

ReserveKept ==
  ~Unreserved => \A c \in Channels :
    \/ chan[c].stage = "open"
    \/ chan[c].stage = "commit" /\ chan[c].data.mine > 0 /\ "mine" \in chan[c].slots
    => \/ open.pc = "reserve"
       \/ \E x \in cells \cup OnTheWay : x.cap >= MIN_PLAIN_CELL

\* A share the page can claim is claimed, whatever the peer settles first, and
\* then moved to the account: the key keeps no more than the reserve and less
\* than a cell of the account.
ShareArrives ==
  \A c \in Channels :
    (Claimable(c) /\ chan[c].data.mine > 0 /\ ~Unreserved)
      ~> (Unreserved \/ (c \in claimed /\ Total(cells) <= FEE_RESERVE + minimum))

=============================================================================
