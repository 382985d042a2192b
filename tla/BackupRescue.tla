---------------------------- MODULE BackupRescue ----------------------------
(***************************************************************************)
(* The recovery list as the chain and Lit guard it, and a rescue by one of *)
(* its backups: the policy action (lit-actions/sign-ckb-transaction.js),   *)
(* which checks every transaction whoever asks for the signature, the page *)
(* that moves an account's funds without KeyWay (rescue/rescue.ts and      *)
(* app/rescue/rescue-view.tsx) and the scripts that verify a backup's      *)
(* signature (contracts/).                                                 *)
(*                                                                         *)
(* A transaction is its content and may be committed long after it was     *)
(* signed, unless something it spends is gone by then.  A node shows the   *)
(* chain as it was when the node last caught up.  Cells are numbered in    *)
(* the order they are made.  A recovery list is named by its Type ID, that *)
(* is by the cell its enabling transaction spent as input 0, and the name  *)
(* is the salt of its backups' identities.                                 *)
(***************************************************************************)
EXTENDS Integers, FiniteSets, FiniteSetsExt

CONSTANTS
    BackupIds, Emails, Nodes,
    Old,        \* the plain cells of the old address at the start
    Stray,      \* a Type ID cell somebody else made under this key's list lock
    Foreign,    \* the list of another KeyWay account, with a backup in common
    Places,     \* the addresses a rescue may send to
    MaxBackups,     \* MAX_BACKUPS
    MaxRescueCells, \* MAX_RESCUE_CELLS
    MaxCells,   \* bound: cells ever made
    Bounds,     \* bound: how many requests to the action with how many moves of the rescuer
    Nothing

ASSUME BackupRescueAssumption ==
    /\ Max(Old) \in Nat /\ Old \subseteq 1 .. Max(Old)
    /\ MaxBackups \in Nat /\ MaxRescueCells \in Nat \ {0}
    /\ MaxCells \in Nat /\ Bounds \subseteq [requests : Nat, clicks : Nat]

VARIABLES
    chain,   \* the live cells: plain ones of the old address, lists, funds at addresses with a list
    bound,   \* the email each list's enabling transaction bound
    seen,    \* the chain as each node shows it
    run,     \* the run of the action that has read the plain cells and not yet the lists
    mail,    \* the codes the action emailed
    pool,    \* signed transactions that are not committed
    requests, \* how often the action was asked
    missed,  \* did it sign to turn recovery on by the plain cells of a node that had yet to see
             \* a cell the transaction spends?
    page,    \* the rescue page
    job,     \* the task the page waits for, with what it captured when it began
    clicks

litVars == <<run, mail, requests, missed>>
pageVars == <<page, job, clicks>>
rescueVars == <<chain, bound, seen, litVars, pool, pageVars>>

\* A backup's identity in one account's list: its id hashed with the account's salt.
Auth(b, salt) == [backup |-> b, salt |-> salt]

Cells(funds) == {f.cell : f \in funds}

\* A function with one more entry, or another one.
With(f, x, value) == [y \in DOMAIN f \union {x} |-> IF y = x THEN value ELSE f[y]]

---------------------------------------------------------------------------
(* What the action reads from the chain. *)

\* Live Type ID cells under the list lock that this key made.
LiveLists(view) == {l \in DOMAIN view.lists : view.lists[l].lock = "ours" /\ view.lists[l].maker = "ours"}

\* An output may go to the administrator address only of the key's one live list.
OwnAddress(view, to) == LiveLists(view) = {to}

\* Mutant: one of them is enough.
SpendsSomePlain(tx, plain) == plain = {} \/ plain \intersect tx.ins # {}

\* Every live plain cell of the old address is spent.
SpendsAllPlain(tx, plain) == plain \subseteq tx.ins

\* Each identity listed is one a KeyWay backup has with this list's salt.
Resolves(auths, list) == \A a \in auths : a.backup \in BackupIds /\ a.salt = list

RecordHolds(auths) == auths # {} /\ Cardinality(auths) <= MaxBackups

\* A change keeps the list's lock, Type ID and capacity, and adds or removes exactly one backup.
ChangesOne(tx) ==
    /\ RecordHolds(tx.after)
    /\ Cardinality(tx.before \ tx.after) + Cardinality(tx.after \ tx.before) = 1
    /\ Resolves(tx.before \union tx.after, tx.list)

\* Mutant: a code confirms whatever is asked for next.
CodeOfKind(tx, email) == <<tx.kind, email>>

\* The code is made of the transaction and the address, so it confirms nothing else.
CodeOf(tx, email) == <<tx, email>>

Emailed(tx, email) == [code |-> CodeOf(tx, email), about |-> tx, to |-> email]
Confirmed(tx, email) == \E m \in mail : m.code = CodeOf(tx, email)

---------------------------------------------------------------------------
(* Transactions a caller may ask for, built on what a node shows. *)

Within(r, c) == \E b \in Bounds : r <= b.requests /\ c <= b.clicks
Ask == Within(requests + 1, clicks) /\ requests' = requests + 1

Enabling(view) ==
    UNION {{[kind |-> "enable", ins |-> ins, first |-> Min(ins), members |-> {Auth(b, salt) : b \in who}] :
                salt \in ins, who \in (SUBSET BackupIds) \ {{}}} :
           ins \in (SUBSET view.plain) \ {{}}}

Changing(view) ==
    UNION {{[kind |-> "change", list |-> l, version |-> view.lists[l].version,
             before |-> view.lists[l].members, after |-> after] :
                after \in SUBSET {Auth(b, salt) : b \in BackupIds, salt \in {l, Foreign}}} :
           l \in LiveLists(view)}

Sending(view) ==
    {[kind |-> "send", ins |-> ins, to |-> to] :
        ins \in {{c} : c \in view.plain \union Cells({f \in view.funds : f.list # Foreign})}
                \union ({view.plain} \ {{}}),
        to \in {Nothing, Stray} \union LiveLists(view) \union view.plain}

---------------------------------------------------------------------------
(* The action. *)

\* A node behind the transaction: it has yet to see one of the cells.
Misses(n, tx) == \E c \in tx.ins : c > seen[n].top

\* enableView, first read: the plain cells.  A code is emailed only to whom it is asked for, and
\* the signature needs the code of the address the transaction binds.
BeginEnable(n) ==
    /\ run = Nothing /\ Ask
    /\ \E m \in Nodes, e \in Emails : \E tx \in Enabling(seen[m]), mode \in {"send-code", "transaction"} :
         /\ mode = "transaction" => Confirmed(tx, e)
         /\ run' = [mode |-> mode, tx |-> tx, email |-> e, node |-> n, plain |-> seen[n].plain,
                    misses |-> Misses(n, tx)]
    /\ UNCHANGED <<chain, bound, seen, mail, missed, pool, pageVars>>

\* enableView, second read: the lists, from the same node.
EndEnable ==
    /\ run # Nothing
    /\ IF /\ LiveLists(seen[run.node]) = {}
          /\ SpendsAllPlain(run.tx, run.plain)
          /\ RecordHolds(run.tx.members) /\ Resolves(run.tx.members, run.tx.first)
       THEN IF run.mode = "send-code"
            THEN mail' = mail \union {Emailed(run.tx, run.email)} /\ UNCHANGED <<pool, missed>>
            ELSE /\ pool' = pool \union {[tx |-> run.tx, email |-> run.email]}
                 /\ missed' = (missed \/ run.misses)
                 /\ UNCHANGED mail
       ELSE UNCHANGED <<mail, pool, missed>>
    /\ run' = Nothing
    /\ UNCHANGED <<chain, bound, seen, requests, pageVars>>

\* A node that fails between the reads: both are done again on another.
NodeFails(n) ==
    /\ run # Nothing /\ n # run.node
    /\ run' = [run EXCEPT !.node = n, !.plain = seen[n].plain, !.misses = Misses(n, run.tx)]
    /\ UNCHANGED <<chain, bound, seen, mail, pool, requests, missed, pageVars>>

\* A list made before emails were bound needs no code.
Codeless(tx) == bound[tx.list] = Nothing

Change(n) ==
    /\ run = Nothing /\ Ask
    /\ \E tx \in Changing(seen[n]) :
         /\ ChangesOne(tx)
         /\ \/ /\ ~Codeless(tx)
               /\ mail' = mail \union {Emailed(tx, bound[tx.list])} /\ UNCHANGED pool
            \/ /\ Codeless(tx) \/ Confirmed(tx, bound[tx.list])
               /\ pool' = pool \union {[tx |-> tx, email |-> Nothing]}
               /\ UNCHANGED mail
    /\ UNCHANGED <<chain, bound, seen, run, missed, pageVars>>

Send(n) ==
    /\ run = Nothing /\ Ask
    /\ \E m \in Nodes : \E tx \in Sending(seen[m]) :
         /\ tx.to = Nothing \/ OwnAddress(seen[n], tx.to)
         /\ pool' = pool \union {[tx |-> tx, email |-> Nothing]}
    /\ UNCHANGED <<chain, bound, seen, run, mail, missed, pageVars>>

---------------------------------------------------------------------------
(* A backup's signature, as the verifier that Omnilock runs checks it. *)

\* The identity of who signs, under the salt of the account the script runs for.
SignerIs(tx, auth) == Auth(tx.backup, tx.list) = auth

\* The text as the verifier rebuilds it from the transaction.
RescueText(tx) == [dest |-> tx.dest, ins |-> tx.ins]

Verified(tx, members) == tx.auth \in members /\ SignerIs(tx, tx.auth) /\ tx.text = RescueText(tx)

\* The cells a node lets a transaction spend, and the list it reads as a dependency.
Resolved(view, tx) ==
    /\ tx.ins \subseteq Cells({f \in view.funds : f.list = tx.list})
    /\ view.lists[tx.list].version = tx.version

Blamed(view, tx) == {f \in view.funds : f.cell \in tx.ins /\ f.kind = "extension"}

Live(tx) ==
    CASE tx.kind = "enable" -> tx.ins \subseteq chain.plain
      [] tx.kind = "change" -> chain.lists[tx.list].version = tx.version
      [] tx.kind = "send" -> tx.ins \subseteq chain.plain \union Cells(chain.funds)
      [] tx.kind = "rescue" -> /\ Resolved(chain, tx) /\ Blamed(chain, tx) = {}
                               /\ Verified(tx, chain.lists[tx.list].members)

Fund(cell, list, kind) == [cell |-> cell, list |-> list, kind |-> kind]
Spent(ins) == {f \in chain.funds : f.cell \notin ins}

Changed(list, members) ==
    [lock |-> list.lock, maker |-> list.maker, version |-> list.version + 1, members |-> members]

Effect(tx) ==
    LET next == chain.top + 1 IN
    CASE tx.kind = "enable" ->
           [chain EXCEPT !.plain = @ \ tx.ins, !.top = next,
                !.lists = With(@, tx.first, [lock |-> "ours", maker |-> "ours", version |-> 0, members |-> tx.members]),
                !.funds = @ \union {Fund(next, tx.first, "plain")}]
      [] tx.kind = "change" ->
           [chain EXCEPT !.lists = With(@, tx.list, Changed(@[tx.list], tx.after))]
      [] tx.kind = "send" ->
           [chain EXCEPT !.plain = @ \ tx.ins, !.top = next,
                !.funds = Spent(tx.ins) \union (IF tx.to = Nothing THEN {} ELSE {Fund(next, tx.to, "plain")})]
      [] tx.kind = "rescue" -> [chain EXCEPT !.funds = Spent(tx.ins)]

Commit(s) ==
    /\ Live(s.tx)
    /\ s.tx.kind \in {"enable", "send"} => chain.top < MaxCells
    /\ chain' = Effect(s.tx)
    /\ bound' = IF s.tx.kind = "enable" THEN With(bound, s.tx.first, s.email) ELSE bound
    /\ pool' = pool \ {s}
    /\ UNCHANGED <<seen, litVars, pageVars>>

\* Somebody pays the old address, or the address of a list that is live.
Deposit ==
    /\ chain.top < MaxCells
    /\ \/ chain' = [chain EXCEPT !.plain = @ \union {chain.top + 1}, !.top = @ + 1]
       \/ \E l \in LiveLists(chain), kind \in {"plain", "extension", "other"} :
             chain' = [chain EXCEPT !.funds = @ \union {Fund(chain.top + 1, l, kind)}, !.top = @ + 1]
    /\ UNCHANGED <<bound, seen, litVars, pool, pageVars>>

CatchUp(n) ==
    /\ seen[n] # chain
    /\ seen' = [seen EXCEPT ![n] = chain]
    /\ UNCHANGED <<chain, bound, litVars, pool, pageVars>>

---------------------------------------------------------------------------
(* The rescue page. *)

\* The cells a rescue can move, in a fixed order as far as one transaction takes them.
Movable(view, list, excluded) ==
    LET all == {f.cell : f \in {g \in view.funds : g.list = list /\ g.kind # "other" /\ g.cell \notin excluded}}
    IN  {c \in all : Cardinality({d \in all : d < c}) < MaxRescueCells}

\* openRescueAccount: nothing when the list is not on chain.
Opened(node, address, excluded) ==
    IF address \notin DOMAIN seen[node].lists THEN Nothing
    ELSE [list |-> address, version |-> seen[node].lists[address].version,
          auths |-> seen[node].lists[address].members, movable |-> Movable(seen[node], address, excluded)]

\* planRescue: nothing when it refuses.
Planned(account, entry, dest) ==
    IF account.movable = {} \/ entry.auth \notin account.auths THEN Nothing
    ELSE [kind |-> "rescue", ins |-> account.movable, list |-> account.list, version |-> account.version,
          auth |-> entry.auth, backup |-> entry.backup, dest |-> dest]

\* The backup is asked only if its identity under the salt of the account's own lock is the planned
\* one, and is listed.
MayAsk(account, plan) == Auth(plan.backup, account.list) = plan.auth /\ plan.auth \in account.auths

\* What the backup signs: the plan over the list as the page knows it, with the text it showed.
Approval(account, plan) ==
    With(plan, "text", [dest |-> plan.dest, ins |-> account.movable])

\* sameRescue: the list read again is a dependency of its own, which makes another transaction.
SameRescue(account, plan) == account.version = plan.version

\* Mutant: a rescue that was sent is not forgotten when the next one is reviewed.
ClearedButSent(p, from) ==
    [p EXCEPT !.account = IF from = "account" THEN Nothing ELSE @,
              !.client = IF from = "account" THEN Nothing ELSE @,
              !.excluded = IF from = "account" THEN {} ELSE @,
              !.backup = IF from = "review" THEN @ ELSE Nothing,
              !.plan = Nothing]

Cleared(p, from) ==
    [p EXCEPT !.account = IF from = "account" THEN Nothing ELSE @,
              !.client = IF from = "account" THEN Nothing ELSE @,
              !.excluded = IF from = "account" THEN {} ELSE @,
              !.backup = IF from = "review" THEN @ ELSE Nothing,
              !.plan = Nothing, !.sent = Nothing]

Idle == job = Nothing
Move == Within(requests, clicks + 1) /\ clicks' = clicks + 1
Page(fields) == page' = fields
Rest == UNCHANGED <<chain, bound, seen, litVars>>
Start(step) == job' = [step |-> step, page |-> page, fresh |-> Nothing]
Continue(step, fresh) == job' = [job EXCEPT !.step = step, !.fresh = fresh]
Done == job' = Nothing

TypeAddress(a) ==
    /\ Move /\ page.address # a
    /\ Page([page EXCEPT !.address = a])
    /\ Rest /\ UNCHANGED <<pool, job>>

\* The network is switched away and back: what was read is dropped, a task goes on.
SwitchNetwork ==
    /\ Move /\ Page(Cleared(page, "account"))
    /\ Rest /\ UNCHANGED <<pool, job>>

TypePlace(d) ==
    /\ Move /\ page.backup # Nothing /\ page.dest # d
    /\ Page([page EXCEPT !.dest = d, !.plan = Nothing])
    /\ Rest /\ UNCHANGED <<pool, job>>

LookUp(n) ==
    /\ Idle /\ Move
    /\ Page(Cleared(page, "account"))
    /\ job' = [step |-> "account", page |-> [page EXCEPT !.client = n], fresh |-> Nothing]
    /\ Rest /\ UNCHANGED pool

LookedUp ==
    /\ job # Nothing /\ job.step = "account"
    /\ LET found == Opened(job.page.client, job.page.address, {}) IN
       Page(IF found = Nothing THEN page ELSE [page EXCEPT !.account = found, !.client = job.page.client])
    /\ Done /\ Rest /\ UNCHANGED <<pool, clicks>>

Connect ==
    /\ Idle /\ Move /\ page.account # Nothing
    /\ Page(Cleared(page, "backup"))
    /\ Start("backup")
    /\ Rest /\ UNCHANGED pool

\* The wallet connects; its identity here is looked up in the list the page had read.
Connected(b) ==
    /\ job # Nothing /\ job.step = "backup"
    /\ LET entry == Auth(b, job.page.account.list) IN
       Page(IF entry \in job.page.account.auths THEN [page EXCEPT !.backup = [backup |-> b, auth |-> entry]] ELSE page)
    /\ Done /\ Rest /\ UNCHANGED <<pool, clicks>>

Review ==
    /\ Idle /\ Move /\ page.backup # Nothing /\ page.client # Nothing /\ page.dest # Nothing
    /\ Page(Cleared(page, "review"))
    /\ Start("review")
    /\ Rest /\ UNCHANGED pool

\* The account is read again, then the transaction is built.
ReadAgain ==
    /\ job # Nothing /\ job.step \in {"review", "blocked"}
    /\ LET found == Opened(job.page.client, job.page.address, job.page.excluded) IN
       IF found = Nothing THEN Done /\ UNCHANGED page
       ELSE /\ Page(IF job.step = "review" THEN [page EXCEPT !.account = found]
                    ELSE [page EXCEPT !.account = found, !.excluded = job.page.excluded])
            /\ Continue("plan", found)
    /\ Rest /\ UNCHANGED <<pool, clicks>>

Plan ==
    /\ job # Nothing /\ job.step = "plan"
    /\ LET plan == Planned(job.fresh, job.page.backup, job.page.dest) IN
       Page(IF plan = Nothing THEN page ELSE [page EXCEPT !.plan = plan])
    /\ Done /\ Rest /\ UNCHANGED <<pool, clicks>>

Sign ==
    /\ Idle /\ Move /\ page.plan # Nothing /\ page.account # Nothing /\ page.sent = Nothing
    /\ page.backup # Nothing /\ page.client # Nothing
    /\ IF MayAsk(page.account, page.plan)
       THEN Start("sign")
       ELSE UNCHANGED job
    /\ Rest /\ UNCHANGED <<pool, page>>

\* The user approves in the wallet, or refuses.
Approve ==
    /\ job # Nothing /\ job.step = "sign"
    /\ IF SameRescue(job.page.account, job.page.plan) THEN Continue("send", Nothing) ELSE Done
    /\ Rest /\ UNCHANGED <<pool, page, clicks>>

Refuse ==
    /\ job # Nothing /\ job.step = "sign"
    /\ Done /\ Rest /\ UNCHANGED <<pool, page, clicks>>

\* sendRescue: the node tries the transaction first.  A cell it blames is left out and the rescue
\* is built again; a balance or a list that changed is an error, and so is a blamed cell when the
\* node cannot try.
SendRescue ==
    /\ job # Nothing /\ job.step = "send"
    /\ LET tx == Approval(job.page.account, job.page.plan)
           view == seen[job.page.client] IN
       IF ~Resolved(view, tx) THEN Done /\ UNCHANGED <<pool, page>>
       ELSE \/ /\ Blamed(view, tx) # {}
               /\ \/ Done
                  \/ \E f \in Blamed(view, tx) : job' = [job EXCEPT !.step = "blocked", !.page.excluded = @ \union {f.cell}]
               /\ UNCHANGED <<pool, page>>
            \/ /\ Blamed(view, tx) = {}
               /\ IF Verified(tx, view.lists[tx.list].members)
                  THEN /\ pool' = pool \union {[tx |-> tx, email |-> Nothing]}
                       /\ Page([page EXCEPT !.sent = job.page.plan])
                  ELSE UNCHANGED <<pool, page>>
               /\ Done
    /\ Rest /\ UNCHANGED clicks

---------------------------------------------------------------------------
Both == {Foreign, Stray}
OtherLists ==
    [l \in Both |-> [lock |-> IF l = Stray THEN "ours" ELSE "theirs", maker |-> "theirs", version |-> 0,
                     members |-> IF l = Foreign THEN {Auth(b, Foreign) : b \in BackupIds} ELSE {}]]

\* Before recovery was turned on, or after, with or without an email bound.
RescueInit ==
    /\ \/ /\ \E old \in {Old, {}} :
                chain = [plain |-> old, lists |-> OtherLists, top |-> Max(Old), funds |-> {Fund(0, Foreign, "plain")}]
          /\ bound = <<>>
       \/ \E l \in Old, e \in Emails \union {Nothing}, who \in (SUBSET BackupIds) \ {{}} :
            LET list == [lock |-> "ours", maker |-> "ours", version |-> 0, members |-> {Auth(b, l) : b \in who}] IN
            /\ chain = [plain |-> {}, lists |-> With(OtherLists, l, list), top |-> Max(Old) + 1,
                        funds |-> {Fund(0, Foreign, "plain"), Fund(Max(Old) + 1, l, "plain")}]
            /\ bound = [k \in {l} |-> e]
    /\ seen = [n \in Nodes |-> chain]
    /\ run = Nothing /\ mail = {} /\ requests = 0 /\ pool = {} /\ missed = FALSE
    /\ \E a \in DOMAIN chain.lists \ {Stray} :
         page = [address |-> a, client |-> Nothing, account |-> Nothing, backup |-> Nothing, dest |-> Nothing,
                 plan |-> Nothing, sent |-> Nothing, excluded |-> {}]
    /\ job = Nothing /\ clicks = 0

RescueNext ==
    \/ \E n \in Nodes : BeginEnable(n) \/ NodeFails(n) \/ Change(n) \/ Send(n) \/ CatchUp(n) \/ LookUp(n)
    \/ EndEnable \/ Deposit \/ \E s \in pool : Commit(s)
    \/ \E a \in DOMAIN chain.lists : TypeAddress(a)
    \/ \E d \in Places : TypePlace(d)
    \/ SwitchNetwork \/ LookedUp \/ Connect \/ (\E b \in BackupIds : Connected(b)) \/ Review \/ ReadAgain \/ Plan
    \/ Sign \/ Approve \/ Refuse \/ SendRescue

RescueSpec == RescueInit /\ [][RescueNext]_rescueVars

---------------------------------------------------------------------------
(* A backup can move what is at the address, whatever two tabs ask of two  *)
(* nodes, with an enabling transaction signed but not indexed or committed *)
(* between the two reads of a run: funds are only at the address of the    *)
(* key's one list, which it made, which lists somebody, and of which every *)
(* identity is a backup's with its salt.  Unless the action signed by the  *)
(* reads of a node that was behind the transaction: the comments of        *)
(* analyse rule a second list out, those reads do not.                     *)
BackupsCanRescue ==
    ~missed => \A f \in chain.funds : f.list # Foreign =>
        /\ LiveLists(chain) = {f.list}
        /\ chain.lists[f.list].members # {}
        /\ \A a \in chain.lists[f.list].members : a.salt = f.list

(* Each backup that comes or goes was confirmed with a code the action     *)
(* itself emailed to the bound address, for exactly this change of exactly *)
(* this list, even when other changes were asked for, signed and left      *)
(* behind in between, with the same exception.                             *)
ChangesConfirmed ==
    [][~missed => \A l \in LiveLists(chain') :
         IF l \in LiveLists(chain)
         THEN chain'.lists[l].members # chain.lists[l].members /\ bound[l] # Nothing =>
                \E m \in mail : /\ m.to = bound[l] /\ m.about.kind = "change" /\ m.about.list = l
                                /\ m.about.before = chain.lists[l].members /\ m.about.after = chain'.lists[l].members
         ELSE \E m \in mail : /\ m.to = bound'[l] /\ m.about.kind = "enable" /\ m.about.first = l
                              /\ m.about.members = chain'.lists[l].members]_rescueVars

(* Whatever is typed, switched and connected while a rescue is built,      *)
(* signed and sent: what the page says was sent is the rescue it shows.    *)
SentIsShown == page.sent # Nothing /\ page.plan # Nothing => page.sent = page.plan
=============================================================================
