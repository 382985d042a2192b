-------------------------- MODULE TransactionRules --------------------------
(***************************************************************************)
(* What a transaction does to an account, as three parts of the system     *)
(* read it: the server's preview of a general transaction                  *)
(* (server/transaction-policy.ts), its preview of a channel's funding      *)
(* (server/funding-transaction.ts) and the Lit action that signs           *)
(* (lit-actions/sign-ckb-transaction.js).                                  *)
(*                                                                         *)
(* A cell is a record of its lock, its type, the units of the type it      *)
(* holds and its capacity.  Of the locks that carry the account's key:     *)
(* "secp" is its first address, "omni" the address that names its recovery *)
(* list, "list" the owner-only lock of that list, "foreign" an address     *)
(* like "omni" that names a list somebody else made, "twin" one of another *)
(* deployment with the very args of "omni", "flags" one with other flags,  *)
(* and "acp" an anyone-can-pay lock.                                       *)
(* The types "mine" and "theirs" are those two lists, "limits" the         *)
(* send-limit cell.                                                        *)
(*                                                                         *)
(* The sizes a transaction may have are left out, and the data of a cell   *)
(* but for its units; a token cell too short for an amount is not modelled.*)
(***************************************************************************)
EXTENDS Integers, Sequences, FiniteSets, Functions

CONSTANTS
    Sources,      \* the cells a transaction may spend
    Targets,      \* the cells it may make
    MaxCells,     \* bound: cells on either side
    FeeCap,       \* feeRateCap for its size
    FundingFee,   \* MAX_FEE of a funding
    Exempt        \* EXEMPT_OUTFLOW

Tokens == {"token", "coin"}
Nfts == {"nft"}
Lists == {"mine", "theirs"}
TypeIds == Lists \cup {"limits", "code"}
CellTypes == {"none", "dao", "odd"} \cup Tokens \cup Nfts \cup TypeIds
KeyOmnilocks == {"omni", "list", "foreign", "twin", "flags"}
CellLocks == {"secp", "acp", "channel", "other"} \cup KeyOmnilocks

ASSUME TransactionRulesAssumption ==
    /\ FeeCap \in Nat /\ FundingFee \in Nat /\ Exempt \in Nat /\ MaxCells \in Nat \ {0}
    /\ Sources \cup Targets \subseteq [lock : CellLocks, type : CellTypes, units : Nat, cap : Nat]
    /\ \A c \in Sources \cup Targets : c.type \notin Tokens =>
         c.units = IF c.type \in {"none", "dao"} THEN 0 ELSE 1

Cell(lock, type, units, cap) == [lock |-> lock, type |-> type, units |-> units, cap |-> cap]

\* The chain keeps an NFT and a Type ID apart from every other: one cell at most, before and after.
Unique(cells) ==
    \A i, j \in DOMAIN cells : i # j => cells[i].type # cells[j].type \/ cells[i].type \notin Nfts \cup TypeIds
SeqsOf(S) == UNION {[1 .. n -> S] : n \in 1 .. MaxCells}
CellTransactions ==
    [ins : {s \in SeqsOf(Sources) : Unique(s)}, outs : {s \in SeqsOf(Targets) : Unique(s)}]

\* The list the account has made is spent or stays where it is; before, there is none to spend.
Possible(t, on) ==
    LET mine(cells) == \E i \in DOMAIN cells : cells[i].type = "mine"
    IN  IF on THEN mine(t.outs) => mine(t.ins) ELSE ~mine(t.ins)

SumOf(cells, P(_), F(_)) == SumFunction([i \in DOMAIN cells |-> IF P(cells[i]) THEN F(cells[i]) ELSE 0])
Capacity(c) == c.cap
AnyCell(c) == TRUE

-----------------------------------------------------------------------------
(* The account: account-lock.ts.  `on` says whether the account has made   *)
(* its recovery list; `record` is the recovery record the server holds,    *)
(* by the list it names.                                                   *)

\* Mutant: only the current address is the account's.
CurrentLock(record) == {IF record = "none" THEN "secp" ELSE IF record = "mine" THEN "omni" ELSE "foreign"}

\* The current address, and the one before recovery was turned on.
AccountLocks(record) == IF record = "none" THEN {"secp"} ELSE {IF record = "mine" THEN "omni" ELSE "foreign", "secp"}

\* verifyRecoveryAnchor: the transaction that made the list spent a cell of this account's as input 0.
Anchored(record, on) == record \in {"none", "mine"} /\ (record = "mine" => on)

RefusesListSpend(t, record) ==
    record # "none" /\ \E i \in DOMAIN t.ins : t.ins[i].type = record \/ t.ins[i].lock = "list"

\* The args that pass are those of the account's address, whichever deployment they are given to.
SameArgs(record) == CASE record = "none" -> {} [] record = "mine" -> {"omni", "twin"} [] OTHER -> {"foreign"}

RefusesForeignOmnilock(t, record) ==
    \E i \in DOMAIN t.outs : t.outs[i].lock \in KeyOmnilocks \ SameArgs(record)

-----------------------------------------------------------------------------
(* The server's preview: transaction-policy.ts.                            *)

TypeKind(type) ==
    CASE type = "none" -> "none" [] type \in Tokens -> "token" [] type \in Nfts -> "nft" [] type = "dao" -> "dao"
      [] type \in TypeIds -> "quiet" [] OTHER -> "unknown"

Fee(t) == SumOf(t.ins, AnyCell, Capacity) - SumOf(t.outs, AnyCell, Capacity)

PreviewCkb(t, own) ==
    LET isOwn(c) == c.lock \in own
        ownIn == SumOf(t.ins, isOwn, Capacity)
        ownOut == SumOf(t.outs, isOwn, Capacity)
        paysFee == \A i \in DOMAIN t.ins : isOwn(t.ins[i])
        outflow == IF ownIn > ownOut THEN ownIn - ownOut ELSE 0
    IN  [outflow |-> outflow,
         sending |-> IF ~paysFee THEN outflow ELSE IF outflow > Fee(t) THEN outflow - Fee(t) ELSE 0,
         receiving |-> IF ownOut > ownIn THEN ownOut - ownIn ELSE 0,
         fee |-> Fee(t), paysFee |-> paysFee]

PreviewTokens(t, own) ==
    LET Units(c) == c.units
        In(type) == SumOf(t.ins, LAMBDA c : c.lock \in own /\ c.type = type, Units)
        Out(type) == SumOf(t.outs, LAMBDA c : c.lock \in own /\ c.type = type, Units)
    IN  [type \in Tokens |-> Out(type) - In(type)]

\* Every NFT that changes hands, with what happens to it.
PreviewNfts(t, own) ==
    LET In(P(_)) == {t.ins[i].type : i \in {i \in DOMAIN t.ins : TypeKind(t.ins[i].type) = "nft" /\ P(t.ins[i])}}
        Out(P(_)) == {t.outs[i].type : i \in {i \in DOMAIN t.outs : TypeKind(t.outs[i].type) = "nft" /\ P(t.outs[i])}}
        isOwn(c) == c.lock \in own
    IN  {[nft |-> n, change |-> "burned"] : n \in In(isOwn) \ Out(AnyCell)}
          \cup {[nft |-> n, change |-> "sent"] : n \in (In(isOwn) \cap Out(AnyCell)) \ Out(isOwn)}
          \cup {[nft |-> n, change |-> "received"] : n \in (Out(isOwn) \cap In(AnyCell)) \ In(isOwn)}
          \cup {[nft |-> n, change |-> "minted"] : n \in Out(isOwn) \ In(AnyCell)}

\* Cells with a type the server cannot explain, of the account's inputs and of all outputs.
PreviewUnrecognized(t, own) ==
    LET One(c) == 1
        unknown(c) == TypeKind(c.type) = "unknown"
    IN  SumOf(t.ins, LAMBDA c : unknown(c) /\ c.lock \in own, One) + SumOf(t.outs, unknown, One)

\* How many cells of an unexplained type leave.
UnrecognizedLeaving(t, own, type) ==
    LET One(c) == 1
        mine(c) == c.type = type /\ c.lock \in own
        left == SumOf(t.ins, mine, One) - SumOf(t.outs, mine, One)
    IN  IF TypeKind(type) = "unknown" /\ left > 0 THEN left ELSE 0

\* previewGeneralTransaction: what it takes, with a fee within the limit.
Previews(t, record, on) ==
    LET own == AccountLocks(record)
    IN  /\ Anchored(record, on)
        /\ \E i \in DOMAIN t.ins : t.ins[i].lock \in own
        /\ ~RefusesListSpend(t, record) /\ ~RefusesForeignOmnilock(t, record)
        /\ \A i \in DOMAIN t.ins : t.ins[i].lock # "acp"
        /\ Fee(t) \in 0 .. FeeCap

-----------------------------------------------------------------------------
(* The server's preview of a funding: funding-transaction.ts.              *)

FundingOutputs(t) == {i \in DOMAIN t.outs : t.outs[i].lock = "channel"}
Typed(cells) == {i \in DOMAIN cells : cells[i].type # "none"}

\* The token put into the channel by a funding with this channel output.
TokenFunded(t, own, out) ==
    LET Units(c) == c.units
    IN  SumOf(t.ins, LAMBDA c : c.type = t.outs[out].type /\ c.lock \in own, Units)
          - SumOf(t.outs, LAMBDA c : c.type = t.outs[out].type /\ c.lock \in own, Units)

\* checkTokenFunding: nothing typed, or one token, on the channel output and the account's own change alone.
TokenFundingHolds(t, own, out) ==
    \/ Typed(t.ins) = {} /\ Typed(t.outs) = {}
    \/ /\ t.outs[out].type \in Tokens
       /\ \A i \in Typed(t.ins) : t.ins[i].type = t.outs[out].type
       /\ \A i \in Typed(t.outs) : t.outs[i].type = t.outs[out].type /\ (i # out => t.outs[i].lock \in own)
       /\ TokenFunded(t, own, out) > 0

\* calculateFundingSpend: the debit without the fee.
FundingAmount(t, own) ==
    SumOf(t.ins, LAMBDA c : c.lock \in own, Capacity) - SumOf(t.outs, LAMBDA c : c.lock \in own, Capacity) - Fee(t)

\* previewFundingTransaction: what it takes.
Funds(t, record, on) ==
    LET own == AccountLocks(record)
    IN  /\ Anchored(record, on)
        /\ ~RefusesListSpend(t, record) /\ ~RefusesForeignOmnilock(t, record)
        /\ \E i \in DOMAIN t.ins : t.ins[i].lock \in own
        /\ Cardinality(FundingOutputs(t)) = 1
        /\ \A out \in FundingOutputs(t) : TokenFundingHolds(t, own, out)
        /\ Fee(t) \in 0 .. FundingFee /\ FundingAmount(t, own) > 0
        /\ \A i \in DOMAIN t.ins : t.ins[i].lock # "acp"

-----------------------------------------------------------------------------
(* The Lit action: analyse, outflowOf and limitAnalysis.                   *)

\* The locks it signs for, whatever list an administrator-mode one names.
LockKind(lock) ==
    CASE lock = "secp" -> "secp256k1"
      [] lock \in {"omni", "foreign"} -> "omnilock"
      [] lock = "list" -> "list"
      [] OTHER -> "none"

\* An administrator-mode Omnilock of this key that is not of the account's own shape.
StrayAdminOmnilock(lock) == lock \in {"flags", "twin"}

\* adminRefs: the lists that such locks of these cells name.
AdminRefs(cells) ==
    {IF cells[i].lock = "omni" THEN "mine" ELSE "theirs" : i \in {i \in DOMAIN cells : LockKind(cells[i].lock) = "omnilock"}}

ListInputs(t) ==
    LET refs == AdminRefs(t.ins) \cup AdminRefs(t.outs)
    IN  {i \in DOMAIN t.ins : t.ins[i].type \in refs \/ (t.ins[i].lock = "list" /\ t.ins[i].type \in TypeIds)}
ListOutputs(t) ==
    LET refs == AdminRefs(t.ins) \cup AdminRefs(t.outs)
    IN  {i \in DOMAIN t.outs : t.outs[i].type \in refs \/ t.outs[i].lock = "list"}

LiveLists(on) == IF on THEN {"mine"} ELSE {}

\* Mutant: an output's address is not looked up.
OutputsUnchecked(t, on) == TRUE

\* Only the address of the account's one live list may get anything, but from the transaction that makes the list.
OutputsNameLiveList(t, on) ==
    \/ AdminRefs(t.outs) = {} \/ (ListInputs(t) = {} /\ Cardinality(ListOutputs(t)) = 1)
    \/ AdminRefs(t.outs) = LiveLists(on)

\* A recovery list is made at output 0 with the Type ID of an input of the account's, which makes it "mine", and an
\* address of the transaction names that list; only an account without one makes it.
TurnsOn(t, on) ==
    /\ ListOutputs(t) = {1} /\ t.outs[1].lock = "list" /\ t.outs[1].type = "mine"
    /\ t.ins[1].lock = "secp" /\ t.ins[1].type = "none"
    /\ AdminRefs(t.ins) \cup AdminRefs(t.outs) \subseteq {t.outs[1].type}
    /\ LiveLists(on) = {}

\* A list that is spent is input 0 and stays what it is but for its members.
ChangesList(t) ==
    /\ ListInputs(t) = {1} /\ Cardinality(ListOutputs(t)) = 1
    /\ t.ins[1].lock = "list" /\ t.ins[1].type \in TypeIds
    /\ \A i \in ListOutputs(t) : t.outs[i].type = t.ins[1].type /\ t.outs[i].lock = "list" /\ t.outs[i].cap = t.ins[1].cap

\* outflowOf: what the account's cells hold less of, by capacity and by type.
LitCkb(t) ==
    LET owned(c) == LockKind(c.lock) # "none"
        flow == SumOf(t.ins, owned, Capacity) - SumOf(t.outs, owned, Capacity)
    IN  IF flow > 0 THEN flow ELSE 0

LitTokens(t, type) ==
    LET Units(c) == IF type \in Tokens THEN c.units ELSE 1
        counted(c) ==
            /\ c.type = type /\ LockKind(c.lock) # "none" /\ type \notin {"none", "dao"}
            /\ ~(type \in TypeIds /\ (LockKind(c.lock) = "list" \/ (type = "limits" /\ c.lock = "secp")))
        flow == SumOf(t.ins, counted, Units) - SumOf(t.outs, counted, Units)
    IN  IF flow > 0 THEN flow ELSE 0

Types(t) == {t.ins[i].type : i \in DOMAIN t.ins} \cup {t.outs[i].type : i \in DOMAIN t.outs}
IsExempt(t) == LitCkb(t) <= Exempt /\ \A type \in Types(t) : LitTokens(t, type) = 0

SettingsIn(t) == {i \in DOMAIN t.ins : t.ins[i].lock = "secp" /\ t.ins[i].type = "limits"}
SettingsOut(t) == {i \in DOMAIN t.outs : t.outs[i].type = "limits" /\ (t.outs[i].lock = "secp" \/ SettingsIn(t) # {})}

\* limitAnalysis: the shapes it allows.  A send-limit cell is kept where it is or made at output 0 by a transaction
\* that sends nothing; a recovery change sends nothing.
LimitShape(t, plain) ==
    CASE SettingsIn(t) # {} -> plain /\ \E i \in SettingsOut(t) : t.outs[i].lock = "secp"
      [] SettingsOut(t) # {} -> plain /\ SettingsOut(t) = {1} /\ t.ins[1].lock = "secp" /\ t.ins[1].type = "none" /\ IsExempt(t)
      [] OTHER -> IsExempt(t) \/ plain

\* analyse, then limitAnalysis; the codes, the records and the members of a list are in SendLimits and BackupRescue.
LitAccepts(t, on) ==
    LET plain == ListInputs(t) = {} /\ ListOutputs(t) = {}
    IN  /\ \A i \in DOMAIN t.outs : ~StrayAdminOmnilock(t.outs[i].lock)
        /\ \E i \in DOMAIN t.ins : LockKind(t.ins[i].lock) # "none"
        /\ OutputsNameLiveList(t, on)
        /\ Cardinality(ListInputs(t)) <= 1 /\ Cardinality(ListOutputs(t)) <= 1
        /\ plain \/ (IF ListInputs(t) = {} THEN TurnsOn(t, on) ELSE ChangesList(t))
        /\ LimitShape(t, plain)

-----------------------------------------------------------------------------
(* Properties.                                                             *)

\* The addresses only this account can spend from: the one it gets by turning recovery on is among them at once.
Locks(on, t) ==
    {"secp", "list"} \cup (IF on \/ \E i \in DOMAIN t.outs : t.outs[i] = Cell("list", "mine", 1, t.outs[i].cap) THEN {"omni"} ELSE {})
Worth(c, asset) == IF asset = "ckb" THEN c.cap ELSE IF c.type = asset THEN c.units ELSE 0

\* How much less of an asset these locks hold after a transaction.
Loss(t, locks, asset) ==
    LET Measure(c) == Worth(c, asset)
        within(c) == c.lock \in locks
    IN  SumOf(t.ins, within, Measure) - SumOf(t.outs, within, Measure)

ListRecords(on) == {IF on THEN "mine" ELSE "none", "theirs"}

(* A preview the server shows hides nothing the account loses or gains, whichever of
   its addresses the cells are at and whatever recovery record the server holds: the
   CKB it says is sent, plus the fee if the account pays it, is exactly what the
   account's addresses hold less of, every token's change is exact, every NFT that
   leaves is listed, and a cell of a type the server cannot read never leaves
   without a mark (transaction-policy.ts:133-137).  What goes to a "twin" is among
   what is shown as sent: the server takes such an output. *)
ShownInFull ==
    \A on \in BOOLEAN, t \in CellTransactions : \A record \in ListRecords(on) :
        Possible(t, on) /\ Previews(t, record, on) =>
        LET own == AccountLocks(record)
            real == {"secp"} \cup (IF on THEN {"omni"} ELSE {})
            shown == PreviewCkb(t, own)
        IN  /\ shown.sending + (IF shown.paysFee THEN shown.fee ELSE 0) - shown.receiving = Loss(t, real, "ckb")
            /\ \A type \in Tokens : PreviewTokens(t, own)[type] = -Loss(t, real, type)
            /\ \A n \in Nfts : Loss(t, real, n) > 0 => \E e \in PreviewNfts(t, own) : e.nft = n /\ e.change \in {"sent", "burned"}
            /\ \A type \in Types(t) : TypeKind(type) = "unknown" /\ Loss(t, real, type) # 0 => PreviewUnrecognized(t, own) > 0
            /\ Loss(t, real, "odd") > 0 => UnrecognizedLeaving(t, own, "odd") = Loss(t, real, "odd")

(* Whatever the Lit action signs, no more leaves the addresses only the account can
   spend from than the flow it checks against the daily amounts: no mix of the key's
   locks, lists and cells makes a loss it does not count, and a change of the
   recovery list or a first send-limit cell moves nothing out but its fee. *)
LitCountsAll ==
    \A on \in BOOLEAN, t \in CellTransactions : Possible(t, on) /\ LitAccepts(t, on) =>
        /\ Loss(t, Locks(on, t), "ckb") <= LitCkb(t)
        /\ \A type \in Types(t) \ ({"none", "dao"} \cup TypeIds) : Loss(t, Locks(on, t), type) <= LitTokens(t, type)
        /\ ListOutputs(t) # {} \/ (SettingsOut(t) # {} /\ SettingsIn(t) = {}) =>
               Loss(t, Locks(on, t), "ckb") <= Exempt

(* A funding the server shows takes from the account exactly the CKB and the fee it
   names, and no asset but the token it names: the channel's cell gets at least that
   much of it whenever the token itself is neither made nor destroyed, so none of it
   is sent elsewhere (funding-transaction.ts:100-104). *)
FundingExact ==
    \A on \in BOOLEAN, t \in CellTransactions : \A record \in ListRecords(on) :
        Possible(t, on) /\ Funds(t, record, on) =>
        LET own == AccountLocks(record)
            out == CHOOSE i \in FundingOutputs(t) : TRUE
            real == {"secp"} \cup (IF on THEN {"omni"} ELSE {})
            All == {c.lock : c \in Sources \cup Targets}
        IN  /\ Loss(t, real, "ckb") = FundingAmount(t, own) + Fee(t)
            /\ \A type \in Types(t) \ {"none"} : Loss(t, real, type) > 0 => type = t.outs[out].type
            /\ t.outs[out].type # "none" /\ Loss(t, All, t.outs[out].type) = 0 =>
                   t.outs[out].units >= Loss(t, real, t.outs[out].type)
=============================================================================
