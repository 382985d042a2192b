--------------------------- MODULE FiberPayments ---------------------------
(***************************************************************************)
(* Money leaving one account through the server: hosted-node payments      *)
(* (src/server/fiber-payments.ts), on-chain transfers (transactionSigning  *)
(* in general-signing.ts), the approvals and the 24-hour total both share, *)
(* and the idempotency records both run under (idempotency.ts).            *)
(*                                                                         *)
(* A process is the handling of one HTTP request: one "send" of an         *)
(* approval, with an idempotency key or without.  A client that lost an    *)
(* answer repeats the request, so several requests may carry the same key. *)
(* One action is the code between two awaits.  An approval is the pending  *)
(* request a preview issued, named by its nonce; each moves one unit, so   *)
(* the 24-hour total is a number of approvals.                             *)
(*                                                                         *)
(* The Fiber node is outside the repository: it makes a payment or refuses *)
(* it, and refuses a second one of the same hash.  Its answer may be lost. *)
(***************************************************************************)
EXTENDS Naturals, FiniteSets

CONSTANTS
    Requests,   \* the requests clients send
    Keys,       \* idempotency records: each is one key of one operation
    Payments,   \* approvals of Fiber payments
    Transfers,  \* approvals of on-chain transactions
    Hash,       \* the payment hash of each Fiber payment, None for a keysend
    Limit,      \* the user's daily CKB amount
    None        \* no key, no hash, no answer

Approvals == Payments \cup Transfers

ASSUME PaymentsAssumption ==
    /\ Payments \cap Transfers = {}
    /\ IsFiniteSet(Approvals)
    /\ DOMAIN Hash = Payments
    /\ Limit \in Nat
    /\ None \notin Keys \cup Approvals
    /\ None \notin {"made", "refused", "paid", "failed", "unknown", "misused"}

VARIABLES
    approval,  \* each approval: new, pending, expired, or gone (used or replaced)
    code,      \* approvals that require the emailed code
    counted,   \* approvals in the 24-hour total
    record,    \* the idempotency record of each key
    pc,        \* where each request's handler is
    key,       \* the request's idempotency key
    asked,     \* the request's approval
    answer,    \* what the client was told
    calls,     \* payments sent to the node and not processed yet
    reply,     \* the node's answer to each call
    paid,      \* the requests whose call the node made
    moved      \* the requests whose signature went out

requestVars == <<key, asked>>
nodeVars == <<calls, reply, paid>>
vars == <<approval, code, counted, record, pc, requestVars, answer, nodeVars, moved>>

Labels == {"idle", "claim", "repeat", "reconcile", "reconciled", "load", "check",
           "verify", "consume", "signCoded", "reserve", "handle", "call",
           "calling", "lookupRefused", "lookupLost", "undo", "sign", "count", "store",
           "fail", "done", "dead"}
Records == [status : {"none", "running", "completed", "failed"},
            digest : Approvals \cup {None}, handle : BOOLEAN, stale : BOOLEAN]

NoRecord == [status |-> "none", digest |-> None, handle |-> FALSE, stale |-> FALSE]
RunningRecord(a) == [status |-> "running", digest |-> a, handle |-> FALSE, stale |-> FALSE]

Init ==
    /\ approval = [a \in Approvals |-> "new"]
    /\ code = {}
    /\ counted = {}
    /\ record = [k \in Keys |-> NoRecord]
    /\ pc = [r \in Requests |-> "idle"]
    /\ key = [r \in Requests |-> None]
    /\ asked = [r \in Requests |-> None]
    /\ answer = [r \in Requests |-> None]
    /\ calls = {}
    /\ reply = [r \in Requests |-> None]
    /\ paid = {}
    /\ moved = {}

-----------------------------------------------------------------------------
(* Approvals and the 24-hour total (general-signing.ts).                   *)

\* outflowNeedsEmailCode: the total without this approval, and this approval, reach the amount.
NeedsCode(a) == Cardinality(counted \ {a}) + 1 >= Limit

\* Rows issueRequest deletes: a new transfer replaces the old one; payments overlap until they expire.
Replaced(a, b) ==
    \/ {a, b} \subseteq Transfers /\ approval[b] \in {"pending", "expired"}
    \/ {a, b} \subseteq Payments /\ approval[b] = "expired"

Preview(a) ==
    /\ approval[a] = "new"
    /\ approval' = [b \in Approvals |->
           IF b = a THEN "pending" ELSE IF Replaced(a, b) THEN "gone" ELSE approval[b]]
    /\ code' = IF NeedsCode(a) THEN code \cup {a} ELSE code
    /\ UNCHANGED <<counted, record, pc, requestVars, answer, nodeVars, moved>>

\* An approval nobody used in time: its row stays until another one is issued.
Expire(a) ==
    /\ approval[a] = "pending"
    /\ approval' = [approval EXCEPT ![a] = "expired"]
    /\ UNCHANGED <<code, counted, record, pc, requestVars, answer, nodeVars, moved>>

-----------------------------------------------------------------------------
(* Idempotency records (idempotency.ts).                                   *)

Goto(r, label) == pc' = [pc EXCEPT ![r] = label]

Tell(r, what) ==
    /\ Goto(r, "done")
    /\ answer' = [answer EXCEPT ![r] = what]

\* A client sends, or sends again, what it has an approval for.
Send(r) ==
    /\ pc[r] = "idle"
    /\ \E a \in Approvals, k \in Keys \cup {None} :
         /\ approval[a] # "new"
         /\ k # None => \A s \in Requests : key[s] = k => (asked[s] \in Transfers <=> a \in Transfers)
         /\ asked' = [asked EXCEPT ![r] = a]
         /\ key' = [key EXCEPT ![r] = k]
         /\ Goto(r, IF k = None THEN "load" ELSE "claim")
    /\ UNCHANGED <<approval, code, counted, record, answer, nodeVars, moved>>

\* insert ... on conflict do nothing: the first request with a key runs, later ones are repeats.
Claim(r) ==
    /\ pc[r] = "claim"
    /\ IF record[key[r]].status = "none"
       THEN /\ record' = [record EXCEPT ![key[r]] = RunningRecord(asked[r])]
            /\ Goto(r, "load")
       ELSE Goto(r, "repeat") /\ UNCHANGED record
    /\ UNCHANGED <<approval, code, counted, requestVars, answer, nodeVars, moved>>

\* A repeat reads the record, at once or after waiting for it (so at any time), and never runs the mutation.
Repeat(r) ==
    /\ pc[r] = "repeat"
    /\ LET stored == record[key[r]] IN
       \/ stored.digest # asked[r] /\ Tell(r, "misused")
       \/ /\ stored.digest = asked[r]
          /\ \/ stored.status = "completed" /\ Tell(r, "paid")
             \/ stored.status = "failed" /\ Tell(r, "failed")
             \/ stored.status = "running" /\ stored.stale /\ stored.handle
                /\ Goto(r, "reconcile") /\ UNCHANGED answer
             \/ stored.status = "running" /\ ~(stored.stale /\ stored.handle) /\ Tell(r, "unknown")
    /\ UNCHANGED <<approval, code, counted, record, requestVars, nodeVars, moved>>

\* A minute (ten, without reconcile) since the record was written.
Stale(k) ==
    /\ record[k].status = "running" /\ ~record[k].stale
    /\ record' = [record EXCEPT ![k].stale = TRUE]
    /\ UNCHANGED <<approval, code, counted, pc, requestVars, answer, nodeVars, moved>>

\* Every write of an outcome is conditional: `and status = 'running'`.
Resolve(r, status) ==
    record' = IF key[r] # None /\ record[key[r]].status = "running"
              THEN [record EXCEPT ![key[r]].status = status, ![key[r]].stale = FALSE]
              ELSE record

-----------------------------------------------------------------------------
(* What the node says of a payment (lookupPayment).                        *)

HashOf(r) == IF asked[r] \in Payments THEN Hash[asked[r]] ELSE None

\* The send recorded a hash before it paid.
HasHandle(r) == key[r] # None /\ HashOf(r) # None

\* The node has a payment with the hash.  It counts as this send's own, unless it is too old.
MayFind(r, found) ==
    LET known == HashOf(r) # None /\ \E s \in paid : HashOf(s) = HashOf(r)
    IN  CASE found = "made" -> known
          [] found = "absent" -> ~known
          [] found = "unknown" -> TRUE

-----------------------------------------------------------------------------
(* The send: payOnce, and the sign operation of transactionSigning.        *)

\* loadRequest.
Load(r) ==
    /\ pc[r] = "load"
    /\ Goto(r, IF approval[asked[r]] # "pending" THEN "fail"
               ELSE IF asked[r] \in code THEN "verify"
               ELSE IF asked[r] \in Transfers THEN "check" ELSE "consume")
    /\ UNCHANGED <<approval, code, counted, record, requestVars, answer, nodeVars, moved>>

\* A transfer looks at the total again; nothing is counted yet.
Check(r) ==
    /\ pc[r] = "check"
    /\ Goto(r, IF NeedsCode(asked[r]) THEN "fail" ELSE "consume")
    /\ UNCHANGED <<approval, code, counted, record, requestVars, answer, nodeVars, moved>>

\* verifyCode: the code is the right one, or the send fails and the approval stays.  For a transfer Lit may hold the
\* code: countLitCodeAttempt lets the request on, and Lit compares.
Verify(r) ==
    /\ pc[r] = "verify"
    /\ \/ approval[asked[r]] = "pending" /\ Goto(r, "consume")
       \/ approval[asked[r]] = "pending" /\ asked[r] \in Transfers /\ Goto(r, "signCoded")
       \/ Goto(r, "fail")
    /\ UNCHANGED <<approval, code, counted, record, requestVars, answer, nodeVars, moved>>

\* Mutant: the approval is deleted without looking whether it was still there.
ConsumeAnyway(r) ==
    /\ pc[r] = "consume"
    /\ approval' = [approval EXCEPT ![asked[r]] = "gone"]
    /\ Goto(r, IF asked[r] \in Transfers THEN "sign" ELSE "reserve")
    /\ UNCHANGED <<code, counted, record, requestVars, answer, nodeVars, moved>>

\* consumeRequest: delete ... returning, so one request uses an approval (an expired one too, once loaded).
Consume(r) ==
    /\ pc[r] = "consume"
    /\ IF approval[asked[r]] \in {"pending", "expired"}
       THEN /\ approval' = [approval EXCEPT ![asked[r]] = "gone"]
            /\ Goto(r, IF asked[r] \in Transfers THEN "sign" ELSE "reserve")
       ELSE Goto(r, "fail") /\ UNCHANGED approval
    /\ UNCHANGED <<code, counted, record, requestVars, answer, nodeVars, moved>>

\* Mutant: the payment is counted without looking at the total again.
ReserveUnchecked(r) ==
    /\ pc[r] = "reserve"
    /\ counted' = counted \cup {asked[r]}
    /\ Goto(r, "handle")
    /\ UNCHANGED <<approval, code, record, requestVars, answer, nodeVars, moved>>

\* reserveOutflow: one transaction under the user's outflow lock looks at the total and adds to it.
Reserve(r) ==
    /\ pc[r] = "reserve"
    /\ IF asked[r] \notin code /\ NeedsCode(asked[r])
       THEN Goto(r, "fail") /\ UNCHANGED counted
       ELSE counted' = counted \cup {asked[r]} /\ Goto(r, "handle")
    /\ UNCHANGED <<approval, code, record, requestVars, answer, nodeVars, moved>>

\* paymentHashOf and record(handle), for a keyed send; either may fail, and the send then takes back its count.
RecordHandle(r) ==
    /\ pc[r] = "handle"
    /\ \/ /\ Goto(r, "call")
          /\ record' = IF HasHandle(r) /\ record[key[r]].status = "running"
                       THEN [record EXCEPT ![key[r]].handle = TRUE, ![key[r]].stale = FALSE]
                       ELSE record
       \/ /\ key[r] # None
          /\ Goto(r, "undo")
          /\ UNCHANGED record
    /\ UNCHANGED <<approval, code, counted, requestVars, answer, nodeVars, moved>>

\* node.call(send_payment).
Call(r) ==
    /\ pc[r] = "call"
    /\ calls' = calls \cup {r}
    /\ Goto(r, "calling")
    /\ UNCHANGED <<approval, code, counted, record, requestVars, answer, reply, paid, moved>>

\* The node makes the payment or refuses it, whether or not the server still waits.
NodeTakes(r) ==
    /\ r \in calls
    /\ calls' = calls \ {r}
    /\ \/ /\ ~MayFind(r, "made")
          /\ paid' = paid \cup {r}
          /\ reply' = [reply EXCEPT ![r] = "made"]
       \/ reply' = [reply EXCEPT ![r] = "refused"] /\ UNCHANGED paid
    /\ UNCHANGED <<approval, code, counted, record, pc, requestVars, answer, moved>>

\* The call returns: with the node's answer, or with a timeout or a lost connection at any time.
CallReturns(r) ==
    /\ pc[r] = "calling"
    /\ \/ reply[r] = "made" /\ Goto(r, "store")
       \/ reply[r] = "refused" /\ Goto(r, "lookupRefused")
       \/ Goto(r, "lookupLost")
    /\ UNCHANGED <<approval, code, counted, record, requestVars, answer, nodeVars, moved>>

\* Mutant: "payment session not found" counts as a refusal after a timeout too.
LookupAbsentIsRefused(r) ==
    /\ pc[r] \in {"lookupRefused", "lookupLost"}
    /\ \E found \in {"made", "absent", "unknown"} :
         /\ MayFind(r, found)
         /\ ~HasHandle(r) => found = "absent"
         /\ CASE HasHandle(r) /\ found = "made" -> Goto(r, "store") /\ UNCHANGED answer
              [] found = "absent" \/ key[r] = None -> Goto(r, "undo") /\ UNCHANGED answer
              [] OTHER -> Tell(r, "unknown")
    /\ UNCHANGED <<approval, code, counted, record, requestVars, nodeVars, moved>>

\* After an error: a payment the node made is the result; its own refusal releases the amount, and so does any
\* error of a send without a key; anything else leaves the record running and the amount counted.
Lookup(r) ==
    /\ pc[r] \in {"lookupRefused", "lookupLost"}
    /\ \/ /\ HasHandle(r) /\ MayFind(r, "made")
          /\ Goto(r, "store") /\ UNCHANGED answer
       \/ /\ \/ pc[r] = "lookupRefused" /\ (HasHandle(r) => MayFind(r, "absent"))
             \/ key[r] = None
          /\ Goto(r, "undo") /\ UNCHANGED answer
       \/ /\ key[r] # None
          /\ pc[r] = "lookupLost" \/ HasHandle(r)
          /\ Tell(r, "unknown")
    /\ UNCHANGED <<approval, code, counted, record, requestVars, nodeVars, moved>>

\* release(): the amount is taken back, then the error goes on.
Undo(r) ==
    /\ pc[r] = "undo"
    /\ counted' = counted \ {asked[r]}
    /\ Goto(r, "fail")
    /\ UNCHANGED <<approval, code, record, requestVars, answer, nodeVars, moved>>

\* Mutant: the signature goes back and the amount is never counted.
SignUncounted(r) ==
    /\ pc[r] = "sign"
    /\ Goto(r, "store") \/ Goto(r, "fail")
    /\ UNCHANGED <<approval, code, counted, record, requestVars, answer, nodeVars, moved>>

\* Lit signs the transfer, or fails and it is refused.
Sign(r) ==
    /\ pc[r] = "sign"
    /\ Goto(r, "count") \/ Goto(r, "fail")
    /\ UNCHANGED <<approval, code, counted, record, requestVars, answer, nodeVars, moved>>

\* With a code that Lit holds, Lit signs first, and only a signature uses the approval up: a mistyped code leaves it,
\* and so does an exit of the server before the delete.  A signature whose delete finds no row never goes out.
SignCoded(r) ==
    /\ pc[r] = "signCoded"
    /\ \/ /\ approval[asked[r]] \in {"pending", "expired"}
          /\ approval' = [approval EXCEPT ![asked[r]] = "gone"]
          /\ Goto(r, "count")
       \/ Goto(r, "fail") /\ UNCHANGED approval
    /\ UNCHANGED <<code, counted, record, requestVars, answer, nodeVars, moved>>

\* recordOutflow, after the signature, and recordPendingTransaction.
Count(r) ==
    /\ pc[r] = "count"
    /\ counted' = counted \cup {asked[r]}
    /\ Goto(r, "store")
    /\ UNCHANGED <<approval, code, record, requestVars, answer, nodeVars, moved>>

\* The mutation threw.
Fail(r) ==
    /\ pc[r] = "fail"
    /\ Resolve(r, "failed")
    /\ Tell(r, "failed")
    /\ UNCHANGED <<approval, code, counted, requestVars, nodeVars, moved>>

\* The mutation succeeded: its result goes back even if three attempts to store it failed.
Store(r) ==
    /\ pc[r] = "store"
    /\ Resolve(r, "completed") \/ (key[r] # None /\ UNCHANGED record)
    /\ moved' = IF asked[r] \in Transfers THEN moved \cup {r} ELSE moved
    /\ Tell(r, "paid")
    /\ UNCHANGED <<approval, code, counted, requestVars, nodeVars>>

-----------------------------------------------------------------------------
(* Reconciling a stale record (reconcilePayment).                          *)

Reconcile(r) ==
    /\ pc[r] = "reconcile"
    /\ \/ MayFind(r, "made") /\ Goto(r, "reconciled") /\ UNCHANGED answer
       \/ MayFind(r, "unknown") /\ Tell(r, "unknown")
    /\ UNCHANGED <<approval, code, counted, record, requestVars, nodeVars, moved>>

Reconciled(r) ==
    /\ pc[r] = "reconciled"
    /\ Resolve(r, "completed")
    /\ Tell(r, "paid")
    /\ UNCHANGED <<approval, code, counted, requestVars, nodeVars, moved>>

-----------------------------------------------------------------------------

Running(r) == pc[r] \notin {"idle", "done", "dead"}

\* The server process exits; what it sent to the node stays sent.
Crash ==
    /\ \E r \in Requests : Running(r)
    /\ pc' = [r \in Requests |-> IF Running(r) THEN "dead" ELSE pc[r]]
    /\ UNCHANGED <<approval, code, counted, record, requestVars, answer, nodeVars, moved>>

HandlerStep(r) ==
    \/ Claim(r) \/ Repeat(r) \/ Load(r) \/ Check(r) \/ Verify(r) \/ Consume(r)
    \/ Reserve(r) \/ RecordHandle(r) \/ Call(r) \/ CallReturns(r) \/ Lookup(r)
    \/ Undo(r) \/ Sign(r) \/ SignCoded(r) \/ Count(r) \/ Fail(r) \/ Store(r)
    \/ Reconcile(r) \/ Reconciled(r)

Next ==
    \/ \E a \in Approvals : Preview(a) \/ Expire(a)
    \/ \E r \in Requests : Send(r) \/ HandlerStep(r) \/ NodeTakes(r)
    \/ \E k \in Keys : Stale(k)
    \/ Crash

Spec == Init /\ [][Next]_vars

-----------------------------------------------------------------------------
(* Properties.                                                             *)

TypeOK ==
    /\ approval \in [Approvals -> {"new", "pending", "expired", "gone"}]
    /\ code \subseteq Approvals
    /\ counted \subseteq Approvals
    /\ record \in [Keys -> Records]
    /\ pc \in [Requests -> Labels]
    /\ key \in [Requests -> Keys \cup {None}]
    /\ asked \in [Requests -> Approvals \cup {None}]
    /\ answer \in [Requests -> {"paid", "failed", "unknown", "misused", None}]
    /\ calls \subseteq Requests
    /\ reply \in [Requests -> {"made", "refused", None}]
    /\ paid \subseteq Requests
    /\ moved \subseteq Requests

SameKey(r, s) == key[r] # None /\ key[r] = key[s]

\* Repeating a send never pays twice (fiber-payments.ts:27): of the requests with one key,
\* and of those with one approval, at most one is paid by the node or gets a signature.
PaidOnce ==
    \A r, s \in paid \cup moved : SameKey(r, s) \/ asked[r] = asked[s] => r = s

\* A client told that a keyed send failed is told so for good: no request with that key
\* has paid, or still has a payment at the node.
FailedIsFinal ==
    \A r, s \in Requests :
        SameKey(r, s) /\ answer[r] = "failed" => s \notin paid \cup calls

\* What leaves is in the 24-hour total: every payment a keyed send makes stays in it (fiber-payments.ts:23), and a
\* transfer's signature goes out only once its amount is in it (general-signing.ts:110).
SpentIsCounted ==
    /\ \A r \in paid : key[r] # None => asked[r] \in counted
    /\ \A r \in moved : asked[r] \in counted

KeyedPaid == {asked[r] : r \in {s \in paid : key[s] # None}}
Moved == {asked[r] : r \in moved}

\* Overlapping payments never slip under the daily amount: what left without the emailed code stays below it.
PaidUnderLimit ==
    KeyedPaid \ code # {} => Cardinality(KeyedPaid \ code) < Limit

-----------------------------------------------------------------------------
(* The inductive invariant behind them (proved inductive in                *)
(* FiberPaymentsProofs): one request works on a key and uses an approval.  *)

BeforeUse == {"load", "check", "verify", "consume", "signCoded"}
Paying == {"reserve", "handle", "call", "calling", "lookupRefused", "lookupLost", "undo"}
AfterUse == Paying \cup {"sign", "count", "store"}
Working(r) == pc[r] \in BeforeUse \cup AfterUse \cup {"fail"}

\* A payment of this request is at the node or made, or its signature went out.
Left(r) == r \in calls \cup paid \cup moved
Owns(r) == key[r] # None /\ (Working(r) \/ Left(r))
Uses(r) == pc[r] \in AfterUse \/ Left(r)

\* Where a handler is when it has sent something, and when it has told the client.
PlaceInv ==
    /\ \A r \in Requests : Left(r) \/ reply[r] # None =>
           pc[r] \in {"calling", "lookupRefused", "lookupLost", "undo", "fail", "store", "done", "dead"}
    /\ \A r \in Requests : answer[r] # None => pc[r] = "done"
    /\ \A r \in moved : pc[r] = "done"
    /\ \A r \in Requests : pc[r] # "idle" => asked[r] \in Approvals
    /\ \A r \in Requests : pc[r] \in Paying => asked[r] \in Payments
    /\ \A r \in Requests : pc[r] \in {"signCoded", "sign", "count"} => asked[r] \in Transfers
    /\ \A r \in Requests : pc[r] \in {"claim", "repeat", "reconcile", "reconciled"} => key[r] # None

\* One request runs the mutation of a key.
OwnerInv ==
    /\ \A r \in Requests : key[r] # None /\ (pc[r] \notin {"idle", "claim", "dead"} \/ Left(r)) =>
           record[key[r]].status # "none"
    /\ \A r, s \in Requests : Owns(r) /\ Owns(s) /\ key[r] = key[s] => r = s

\* One request uses an approval.
UserInv ==
    /\ \A r \in Requests : Uses(r) => approval[asked[r]] = "gone"
    /\ \A r, s \in Requests : Uses(r) /\ Uses(s) /\ asked[r] = asked[s] => r = s

\* What is refused, undone or failed has not left, and nothing of its key will.
FailInv ==
    /\ calls \cap paid = {}
    /\ \A r \in Requests : reply[r] = "refused" => r \notin calls \cup paid
    /\ \A r \in Requests : pc[r] = "lookupRefused" => reply[r] = "refused"
    /\ \A r \in Requests : pc[r] \in {"undo", "fail"} /\ key[r] # None => r \notin calls \cup paid
    /\ \A s \in Requests : key[s] # None /\ record[key[s]].status = "failed" =>
           s \notin calls \cup paid /\ ~Working(s)
    /\ \A r, s \in Requests : answer[r] = "failed" /\ SameKey(r, s) =>
           s \notin calls \cup paid /\ ~Working(s)

\* What has left, or is about to, is counted.
CountInv ==
    /\ \A r \in Requests : pc[r] \in {"handle", "call"} => asked[r] \in counted
    /\ \A r \in calls \cup paid : key[r] # None => asked[r] \in counted
    /\ \A r \in Requests : pc[r] = "store" /\ asked[r] \in Transfers => asked[r] \in counted
    /\ \A r \in moved : asked[r] \in counted

\* The node is asked for payments only, and those counted without the emailed code stay below the amount.
Unverified == (counted \cap Payments) \ code
LimitInv ==
    /\ \A r \in calls \cup paid : asked[r] \in Payments
    /\ Unverified # {} => Cardinality(Unverified) < Limit

IInv == TypeOK /\ PlaceInv /\ OwnerInv /\ UserInv /\ FailInv /\ CountInv /\ LimitInv
=============================================================================
