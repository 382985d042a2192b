------------------------ MODULE DeviceHandoffProofs ------------------------
(***************************************************************************)
(* Theorems about DeviceHandoff, for any number of devices, of channel     *)
(* states and of backup generations: one awake browser runs the account's  *)
(* node, it has the account's last channel state, and that state is never  *)
(* lost.  Each part of the inductive invariant has a lemma of its own: the *)
(* steps keep it, given the parts before it.                               *)
(***************************************************************************)
EXTENDS DeviceHandoff, BackupRescue, TLAPS, FiniteSetTheorems

(* The newest row exists and no two rows have one generation. *)
RowsOK ==
    /\ backups # {} => \E b \in backups : \A c \in backups : c.gen <= b.gen
    /\ \A b, c \in backups : b.gen = c.gen => b = c

(* A bootstrap consumes a row that exists. *)
ConsumeOK == boot # None /\ boot.stage = "consume" => backups # {}

(* A page that restores has loaded a backup, and a row of that generation still is that backup. *)
CopyOK ==
    \A d \in Devices : pc[d] \in {"restoring", "confirming"} =>
        /\ copy[d] # None
        /\ copy[d].gen <= NewestGen
        /\ \A b \in backups : b.gen = copy[d].gen => b.ver = copy[d].ver
        /\ pc[d] = "confirming" => local[d] = copy[d].ver

(* The page of the device being bootstrapped waits for the answer, or is gone. *)
WaitOK ==
    /\ boot # None => pc[boot.dev] = IF boot.heard THEN "booting" ELSE "off"
    /\ \A d \in Devices : pc[d] = "booting" => boot # None /\ boot.dev = d
    /\ boot # None /\ boot.stage \in {"claim", "save"} => boot.dev # primary /\ boot.leased \in {None, boot.dev}

(* What holds whatever fails. *)
Basic == TypeOK /\ RowsOK /\ ConsumeOK /\ WaitOK /\ CopyOK

Holding == {"loading", "restoring", "confirming", "starting", "unlocked", "up",
            "marking", "saving", "leaving", "releasing"}

(* Without suspended pages, a page keeps the lease from its acquisition to its release. *)
LeaseOK ==
    "sleep" \notin faults =>
        /\ asleep = {}
        /\ \A d \in Devices : pc[d] \in Holding => LeaseHeld(d)

Running(d) == pc[d] \in {"up", "marking", "saving"}

(* The failures StateKept allows. *)
Mild == faults \subseteq {"sleep", "unmarked"}

(* No backup waits for a device to take it or to restore it. *)
Quiet == backups # {} => Newest.status = "consumed"

(* A bootstrap knows the lease of the running node, and consumes or claims what it read. *)
BootOK ==
    /\ late = {}
    /\ boot # None =>
        /\ \A d \in Devices : Running(d) /\ LeaseHeld(d) => boot.leased = d
        /\ boot.stage = "consume" => boot.dev = primary /\ NewestIs("available") /\ boot.restore = FALSE
        /\ boot.stage = "save" => IF boot.restore THEN ClaimedBy(boot.dev) ELSE Quiet /\ ~hasOpened

(* Only the newest row is claimed, by the device the wallet is or is being bound to; an available one is the *)
(* primary device's own. *)
ClaimOK ==
    /\ \A b \in backups : b.status = "claimed" => b = Newest
    /\ NewestIs("available") => Newest.src = primary
    /\ NewestIs("claimed") => Newest.by = primary \/ (boot # None /\ boot.stage = "save" /\ Newest.by = boot.dev)

(* A page that was not told to restore has nothing to restore, and has the last state if any page has. *)
PageOK ==
    \A d \in Devices :
        /\ pc[d] \in {"loading", "restoring", "confirming"} => mustRestore[d]
        /\ pc[d] \in {"starting", "unlocked", "up", "marking", "saving"} => ~mustRestore[d]
        /\ pc[d] \notin {"off", "booting", "leaving"} /\ ~mustRestore[d] =>
              /\ primary = d => Quiet
              /\ hasOpened /\ local[d] = latest => primary = d

(* No database, backup or loaded copy is ahead of the account. *)
BoundOK ==
    /\ \A d \in Devices : local[d] <= latest /\ (copy[d] # None => copy[d].ver <= latest)
    /\ \A b \in backups : b.ver <= latest

(* The device that has just opened the first channel is alone with it. *)
FirstOK ==
    \A d \in Devices : pc[d] = "marking" =>
        /\ latest = 2 /\ local[d] = 2 /\ ~hasOpened
        /\ \A e \in Devices \ {d} : local[e] <= 1 /\ pc[e] # "marking"
        /\ \A e \in Devices : copy[e] # None => copy[e].ver <= 1
        /\ \A b \in backups : b.ver <= 1

(* Where the last state is. *)
KeptOK ==
    hasOpened =>
        /\ latest >= 2
        /\ Quiet \/ NewestIs("available") => local[primary] = latest
        /\ ~Quiet => Newest.ver = latest

Custody == Mild => BootOK /\ ClaimOK /\ PageOK /\ BoundOK /\ FirstOK /\ KeptOK

(* Without failures, a channel that is not recorded is just being opened, and a page the wallet is not bound to *)
(* any more has nothing to run on. *)
StrictOK ==
    faults = {} =>
        /\ latest >= 2 => hasOpened \/ \E d \in Devices : pc[d] = "marking"
        /\ \A d \in Devices :
              /\ pc[d] \in {"unlocked", "up", "marking", "saving"} /\ primary # d => latest = 1
              /\ NodeUp(d) => local[d] >= 1
              /\ pc[d] = "marking" => primary = d

IInv == Basic /\ LeaseOK /\ Custody /\ StrictOK

-----------------------------------------------------------------------------
(* The rows *)

(* In a set of rows without a repeated generation, the row no other is above is the newest. *)
LEMMA TopRow ==
  ASSUME NEW B \in SUBSET Backups, NEW t \in B, \A c \in B : c.gen <= t.gen,
         \A b, c \in B : b.gen = c.gen => b = c
  PROVE  /\ Max({b.gen : b \in B}) = t.gen
         /\ (CHOOSE b \in B : b.gen = Max({c.gen : c \in B})) = t
<1>1. \A b \in B : b.gen \in Int
  BY HandoffAssumption DEF Backups
<1>2. Max({b.gen : b \in B}) = t.gen
  <2> DEFINE S == {b.gen : b \in B}
  <2>1. t.gen \in S /\ \A x \in S : t.gen >= x
    BY <1>1
  <2>2. \A x \in S : (\A y \in S : x >= y) => x = t.gen
    BY <1>1, <2>1
  <2>3. QED
    BY <2>1, <2>2 DEF Max
<1>3. QED
  BY <1>2

(* The newest row of a state is in the table and no other row is as new. *)
LEMMA NewestRow ==
  ASSUME TypeOK, RowsOK
  PROVE  /\ NewestGen \in 0..MaxGen
         /\ \A b \in backups : b.gen <= NewestGen
         /\ backups # {} => /\ Newest \in backups
                            /\ NewestGen = Newest.gen
                            /\ \A b \in backups : b.gen = Newest.gen => b = Newest
<1>1. CASE backups = {}
  BY <1>1, HandoffAssumption DEF NewestGen
<1>2. CASE backups # {}
  <2>1. PICK t \in backups : \A c \in backups : c.gen <= t.gen
    BY <1>2 DEF RowsOK
  <2>2. NewestGen = t.gen /\ Newest = t
    BY <1>2, <2>1, TopRow DEF NewestGen, Newest, TypeOK, RowsOK
  <2>3. t.gen \in 1..MaxGen
    BY DEF TypeOK, Backups
  <2>4. QED
    BY <1>2, <2>1, <2>2, <2>3, HandoffAssumption DEF RowsOK
<1>3. QED
  BY <1>1, <1>2

LEMMA SameRows ==
  ASSUME UNCHANGED backups
  PROVE  Newest' = Newest /\ NewestGen' = NewestGen
BY DEF Newest, NewestGen

(* A row that is written again keeps its place. *)
LEMMA Rewritten ==
  ASSUME TypeOK, RowsOK, NEW b \in backups, NEW c \in Backups, c.gen = b.gen,
         backups' = (backups \ {b}) \cup {c}
  PROVE  /\ RowsOK'
         /\ backups' \subseteq Backups /\ backups' # {}
         /\ NewestGen' = NewestGen
         /\ Newest' = IF b = Newest THEN c ELSE Newest
<1>1. backups' \subseteq Backups /\ backups' # {}
  BY DEF TypeOK
<1>2. \A x, y \in backups' : x.gen = y.gen => x = y
  BY DEF RowsOK
<1> DEFINE t == IF b = Newest THEN c ELSE Newest
<1>3. Newest \in backups /\ NewestGen = Newest.gen /\ \A x \in backups : x.gen <= Newest.gen
  BY NewestRow
<1>4. t \in backups' /\ t.gen = Newest.gen /\ \A x \in backups' : x.gen <= t.gen
  BY <1>3
<1>5. RowsOK'
  BY <1>2, <1>4 DEF RowsOK
<1>6. Max({x.gen : x \in backups'}) = t.gen /\ (CHOOSE x \in backups' : x.gen = Max({y.gen : y \in backups'})) = t
  <2> HIDE DEF t
  <2> QED
    BY <1>1, <1>2, <1>4, TopRow
<1>7. NewestGen' = t.gen /\ Newest' = t
  BY <1>1, <1>6 DEF NewestGen, Newest
<1>8. QED
  BY <1>1, <1>3, <1>4, <1>5, <1>7

NewRow(d, ver) ==
    [gen |-> NewestGen + 1, ver |-> ver, src |-> d, status |-> "available", by |-> None, expired |-> FALSE]

(* A saved backup becomes the newest row; pruning never takes it. *)
LEMMA Inserted ==
  ASSUME TypeOK, RowsOK, NEW d \in Devices, NEW ver \in 0..MaxState, NewestGen < MaxGen, Insert(d, ver)
  PROVE  /\ RowsOK'
         /\ backups' \subseteq backups \cup {NewRow(d, ver)}
         /\ backups' \subseteq Backups /\ backups' # {}
         /\ NewestGen' = NewestGen + 1
         /\ Newest' = NewRow(d, ver)
<1> DEFINE new == NewRow(d, ver)
           rows == backups \cup {new}
<1>1. NewestGen \in 0..MaxGen /\ \A b \in backups : b.gen <= NewestGen
  BY NewestRow
<1>2. new \in Backups /\ new.gen = NewestGen + 1
  BY <1>1, HandoffAssumption DEF NewRow, Backups, Statuses
<1>3. backups' = Prune(rows)
  BY DEF Insert, NewRow
<1>4. \A b \in backups : b.gen \in Int /\ b.gen < new.gen
  BY <1>1, <1>2, HandoffAssumption DEF TypeOK, Backups
<1> HIDE DEF new
<1>5. {r \in rows : r.gen > new.gen} = {}
  BY <1>1, <1>2, <1>4
<1>6. Cardinality({r \in rows : r.gen > new.gen}) < Keep
  <2>1. Cardinality({r \in rows : r.gen > new.gen}) = 0
    BY <1>5, FS_EmptySet
  <2>2. 0 < Keep
    BY HandoffAssumption
  <2>3. QED
    BY <2>1, <2>2
<1>7. new \in backups' /\ backups' \subseteq rows
  BY <1>3, <1>6 DEF Prune
<1>8. \A b, c \in backups' : b.gen = c.gen => b = c
  BY <1>4, <1>7 DEF RowsOK
<1>9. \A b \in backups' : b.gen <= new.gen
  BY <1>1, <1>2, <1>4, <1>7
<1>10. backups' \subseteq Backups
  BY <1>2, <1>7 DEF TypeOK
<1>11. RowsOK'
  BY <1>7, <1>8, <1>9 DEF RowsOK
<1>12. Max({b.gen : b \in backups'}) = new.gen /\ (CHOOSE b \in backups' : b.gen = Max({c.gen : c \in backups'})) = new
  BY <1>7, <1>8, <1>9, <1>10, TopRow
<1>13. NewestGen' = new.gen /\ Newest' = new
  BY <1>7, <1>12 DEF NewestGen, Newest
<1>14. QED
  BY <1>2, <1>7, <1>10, <1>11, <1>13 DEF new

-----------------------------------------------------------------------------
(* What holds whatever fails *)

(* Answering a bootstrap, or refusing it, changes the page that waits and nothing else. *)
LEMMA AnswerTypes ==
  ASSUME TypeOK, NEW d \in Devices, NEW restore \in BOOLEAN, AnswerBoot(d, restore) \/ RefuseBoot(d)
  PROVE  /\ boot' = None
         /\ pc' \in [Devices -> Pages] /\ mustRestore' \in [Devices -> BOOLEAN]
         /\ \A e \in Devices : pc'[e] = pc[e] \/ (e = d /\ pc'[e] \in {"leasing", "off"})
BY DEF AnswerBoot, RefuseBoot, TypeOK, Goto, Pages

LEMMA StageTypes ==
  ASSUME boot \in Boots, NEW stage \in {"read", "consume", "claim", "save"}, NEW restore \in BOOLEAN,
         NextStage(stage, restore)
  PROVE  /\ boot' \in Boots /\ boot' # None
         /\ boot'.dev = boot.dev /\ boot'.heard = boot.heard /\ boot'.leased = boot.leased
         /\ boot'.stage = stage /\ boot'.restore = restore
<1>1. boot' \in Boots
  BY DEF NextStage, Boots
<1>2. QED
  BY <1>1, HandoffAssumption DEF NextStage, Boots

(* Writing a status leaves a row a row of its generation. *)
LEMMA MarkedRow ==
  ASSUME NEW b \in Backups
  PROVE  /\ \A status \in Statuses :
              /\ [b EXCEPT !.status = status, !.expired = FALSE] \in Backups
              /\ [b EXCEPT !.status = status, !.expired = FALSE].gen = b.gen
         /\ \A d \in Devices :
              /\ [b EXCEPT !.status = "claimed", !.by = d, !.expired = FALSE] \in Backups
              /\ [b EXCEPT !.status = "claimed", !.by = d, !.expired = FALSE].gen = b.gen
         /\ [b EXCEPT !.expired = TRUE] \in Backups
         /\ [b EXCEPT !.expired = TRUE].gen = b.gen
BY DEF Backups, Statuses

(* Each statement of a bootstrap that writes the newest row rewrites it. *)
LEMMA Consumed ==
  ASSUME TypeOK, RowsOK, backups # {},
         backups' = WithNewest([Newest EXCEPT !.status = "consumed", !.expired = FALSE])
  PROVE  /\ RowsOK' /\ backups' \subseteq Backups /\ backups' # {} /\ NewestGen' = NewestGen
         /\ Newest' = [Newest EXCEPT !.status = "consumed", !.expired = FALSE]
<1>1. Newest \in backups /\ Newest \in Backups
  BY NewestRow DEF TypeOK
<1> DEFINE row == [Newest EXCEPT !.status = "consumed", !.expired = FALSE]
<1>2. row \in Backups /\ row.gen = Newest.gen
  BY <1>1, MarkedRow DEF Statuses
<1> HIDE DEF row
<1>3. QED
  BY <1>1, <1>2, Rewritten DEF WithNewest, row

LEMMA Claimed ==
  ASSUME TypeOK, RowsOK, backups # {}, NEW d \in Devices,
         backups' = WithNewest([Newest EXCEPT !.status = "claimed", !.by = d, !.expired = FALSE])
  PROVE  /\ RowsOK' /\ backups' \subseteq Backups /\ backups' # {} /\ NewestGen' = NewestGen
         /\ Newest' = [Newest EXCEPT !.status = "claimed", !.by = d, !.expired = FALSE]
<1>1. Newest \in backups /\ Newest \in Backups
  BY NewestRow DEF TypeOK
<1> DEFINE row == [Newest EXCEPT !.status = "claimed", !.by = d, !.expired = FALSE]
<1>2. row \in Backups /\ row.gen = Newest.gen
  BY <1>1, MarkedRow
<1> HIDE DEF row
<1>3. QED
  BY <1>1, <1>2, Rewritten DEF WithNewest, row

LEMMA Expired ==
  ASSUME TypeOK, RowsOK, ExpireClaim
  PROVE  /\ RowsOK' /\ backups' \subseteq Backups /\ backups' # {} /\ NewestGen' = NewestGen
         /\ Newest' = [Newest EXCEPT !.expired = TRUE]
<1>1. Newest \in backups /\ Newest \in Backups
  BY NewestRow DEF TypeOK, ExpireClaim, NewestIs
<1> DEFINE row == [Newest EXCEPT !.expired = TRUE]
<1>2. row \in Backups /\ row.gen = Newest.gen
  BY <1>1, MarkedRow
<1>3. backups' = (backups \ {Newest}) \cup {row}
  BY DEF ExpireClaim, WithNewest
<1> HIDE DEF row
<1>4. QED
  BY <1>1, <1>2, <1>3, Rewritten DEF row

LEMMA StepTypeOK ==
  ASSUME Basic, [Next]_vars
  PROVE  TypeOK'
<1> USE HandoffAssumption DEF Basic, server, pages, state
<1>1. ASSUME NEW d \in Devices, Bootstrap(d) PROVE TypeOK'
  BY <1>1 DEF Bootstrap, TypeOK, Goto, Pages, Boots, ActiveLease, Leases
<1>2. ASSUME NEW d \in Devices, BootPrepare(d) PROVE TypeOK'
  <2>1. boot # None
    BY <1>2 DEF BootPrepare, Booting
  <2>2. CASE PrepareSame(d)
    <3>1. CASE NewestIs("available") /\ Newest.src = d
      BY <1>2, <2>1, <2>2, <3>1 DEF PrepareSame, BootPrepare, NextStage, TypeOK, Boots
    <3>2. CASE ~(NewestIs("available") /\ Newest.src = d)
      <4>1. AnswerBoot(d, ClaimedBy(d))
        BY <2>2, <3>2 DEF PrepareSame
      <4>2. ClaimedBy(d) \in BOOLEAN
        BY DEF ClaimedBy, NewestIs
      <4>3. QED
        BY <1>2, <4>1, <4>2, AnswerTypes DEF BootPrepare, TypeOK
    <3>3. QED
      BY <3>1, <3>2
  <2>3. CASE PrepareOther(d)
    <3>1. boot' \in Boots \cup {None}
      BY <2>1, <2>3 DEF PrepareOther, RefuseBoot, NextStage, TypeOK, Boots
    <3>2. pc' \in [Devices -> Pages] /\ mustRestore' = mustRestore
      BY <2>3 DEF PrepareOther, RefuseBoot, TypeOK, Pages, Goto
    <3>3. QED
      BY <1>2, <3>1, <3>2 DEF BootPrepare, TypeOK
  <2>4. QED
    BY <1>2, <2>2, <2>3 DEF BootPrepare
<1>3. ASSUME NEW d \in Devices, BootConsume(d) PROVE TypeOK'
  <2>1. backups' \subseteq Backups
    BY <1>3, Consumed DEF BootConsume, Booting, ConsumeOK
  <2>2. boot.restore \in BOOLEAN
    BY <1>3 DEF BootConsume, Booting, TypeOK, Boots
  <2>3. QED
    BY <1>3, <2>1, <2>2, AnswerTypes DEF BootConsume, TypeOK
<1>4. ASSUME NEW d \in Devices, BootClaim(d) PROVE TypeOK'
  <2>1. CASE RefuseBoot(d) /\ UNCHANGED backups
    BY <1>4, <2>1 DEF BootClaim, RefuseBoot, TypeOK, Goto, Pages
  <2>2. CASE ~(RefuseBoot(d) /\ UNCHANGED backups)
    <3>1. backups # {} /\ backups' = WithNewest([Newest EXCEPT !.status = "claimed", !.by = d, !.expired = FALSE])
      BY <1>4, <2>2 DEF BootClaim, NewestIs
    <3>2. backups' \subseteq Backups
      BY <3>1, Claimed
    <3>3. boot' \in Boots /\ UNCHANGED <<pc, mustRestore>>
      BY <1>4, <2>2 DEF BootClaim, Booting, NextStage, TypeOK, Boots
    <3>4. QED
      BY <1>4, <3>2, <3>3 DEF BootClaim, TypeOK
  <2>3. QED
    BY <2>1, <2>2
<1>5. ASSUME NEW d \in Devices, BootSave(d) PROVE TypeOK'
  <2>1. boot.restore \in BOOLEAN
    BY <1>5 DEF BootSave, Booting, TypeOK, Boots
  <2>2. QED
    BY <1>5, <2>1, AnswerTypes DEF BootSave, TypeOK
<1>6. ASSUME NEW d \in Devices, BootDies(d) PROVE TypeOK'
  BY <1>6, AnswerTypes DEF BootDies, TypeOK
<1>7. ASSUME NEW d \in Devices, AcquireCheck(d) PROVE TypeOK'
  BY <1>7 DEF AcquireCheck, TypeOK, Goto, Pages
<1>8. ASSUME NEW d \in Devices, AcquireInsert(d) PROVE TypeOK'
  <2>1. lease' \in Leases \cup {None}
    <3>1. \A answered \in BOOLEAN : [dev |-> d, mine |-> answered, live |-> TRUE] \in Leases
      BY DEF Leases
    <3>2. QED
      BY <1>8, <3>1 DEF AcquireInsert, TypeOK
  <2>2. pc' \in [Devices -> Pages]
    BY <1>8 DEF AcquireInsert, TypeOK, Goto, Pages
  <2>3. QED
    BY <1>8, <2>1, <2>2 DEF AcquireInsert, TypeOK
<1>9. ASSUME NEW d \in Devices, LoadBackup(d) PROVE TypeOK'
  <2>1. ClaimedBy(d) => [gen |-> Newest.gen, ver |-> Newest.ver] \in Copies
    BY NewestRow DEF ClaimedBy, NewestIs, TypeOK, Backups, Copies
  <2>2. copy' \in [Devices -> Copies \cup {None}]
    BY <1>9, <2>1 DEF LoadBackup, TypeOK
  <2>3. QED
    BY <1>9, <2>2 DEF LoadBackup, TypeOK, Goto, Pages
<1>10. ASSUME NEW d \in Devices, RestoreLocal(d) PROVE TypeOK'
  <2>1. copy[d] \in Copies
    BY <1>10 DEF RestoreLocal, At, CopyOK, TypeOK
  <2>2. QED
    BY <1>10, <2>1 DEF RestoreLocal, TypeOK, Goto, Pages, Copies
<1>11. ASSUME NEW d \in Devices, Confirm(d) PROVE TypeOK'
  <2>1. backups' \subseteq Backups
    <3>1. \A b \in backups : [b EXCEPT !.status = "consumed", !.expired = FALSE] \in Backups
      BY MarkedRow DEF TypeOK, Statuses
    <3>2. CASE UNCHANGED backups
      BY <3>2 DEF TypeOK
    <3>3. CASE \E b \in backups : backups' = (backups \ {b}) \cup {[b EXCEPT !.status = "consumed", !.expired = FALSE]}
      BY <3>1, <3>3 DEF TypeOK
    <3>4. QED
      BY <1>11, <3>2, <3>3 DEF Confirm
  <2>2. mustRestore' \in [Devices -> BOOLEAN] /\ pc' \in [Devices -> Pages]
    BY <1>11 DEF Confirm, TypeOK, Goto, Pages
  <2>3. QED
    BY <1>11, <2>1, <2>2 DEF Confirm, TypeOK
<1>12. ASSUME NEW d \in Devices, Unlock(d) PROVE TypeOK'
  BY <1>12 DEF Unlock, TypeOK, Goto, Pages
<1>13. ASSUME NEW d \in Devices, StartNode(d) PROVE TypeOK'
  BY <1>13 DEF StartNode, TypeOK, Goto, Pages
<1>14. ASSUME NEW d \in Devices, OpenChannel(d) PROVE TypeOK'
  BY <1>14 DEF OpenChannel, TypeOK, Goto, Pages
<1>15. ASSUME NEW d \in Devices, MarkOpened(d) PROVE TypeOK'
  BY <1>15 DEF MarkOpened, TypeOK, Goto, Pages
<1>16. ASSUME NEW d \in Devices, UpdateState(d) PROVE TypeOK'
  BY <1>16 DEF UpdateState, TypeOK
<1>17. ASSUME NEW d \in Devices, Stop(d) PROVE TypeOK'
  BY <1>17 DEF Stop, TypeOK, Goto, Pages
<1>18. ASSUME NEW d \in Devices, LogoutBackup(d) PROVE TypeOK'
  BY <1>18 DEF LogoutBackup, TypeOK, Goto, Pages
<1>19. ASSUME NEW d \in Devices, Save(d) PROVE TypeOK'
  <2>1. local[d] \in 0..MaxState
    BY DEF TypeOK
  <2>2. backups' \subseteq Backups /\ late' \subseteq [dev : Devices, ver : 0..MaxState]
    BY <1>19, <2>1, Inserted DEF Save, TypeOK
  <2>3. QED
    BY <1>19, <2>2 DEF Save, TypeOK, Goto, Pages
<1>20. ASSUME LateInsert PROVE TypeOK'
  <2>1. PICK s \in late : Insert(s.dev, s.ver) /\ late' = late \ {s}
    BY <1>20 DEF LateInsert
  <2>2. s.dev \in Devices /\ s.ver \in 0..MaxState
    BY DEF TypeOK
  <2>3. backups' \subseteq Backups
    BY <1>20, <2>1, <2>2, Inserted DEF LateInsert
  <2>4. QED
    BY <1>20, <2>1, <2>3 DEF LateInsert, TypeOK
<1>21. ASSUME NEW d \in Devices, Release(d) PROVE TypeOK'
  BY <1>21 DEF Release, TypeOK, Goto, Pages, Leases
<1>22. ASSUME NEW d \in Devices, Restart(d) PROVE TypeOK'
  BY <1>22 DEF Restart, TypeOK, Goto, Pages
<1>23. ASSUME NEW d \in Devices, Crash(d) PROVE TypeOK'
  <2>1. lease' \in Leases \cup {None}
    BY <1>23 DEF Crash, TypeOK, Leases
  <2>2. boot' \in Boots \cup {None}
    BY <1>23 DEF Crash, TypeOK, Boots
  <2>3. local' \in [Devices -> 0..MaxState]
    BY <1>23 DEF Crash, TypeOK
  <2>4. QED
    BY <1>23, <2>1, <2>2, <2>3 DEF Crash, TypeOK, Goto, Pages
<1>24. ASSUME NEW d \in Devices, Sleep(d) PROVE TypeOK'
  BY <1>24 DEF Sleep, TypeOK
<1>25. ASSUME NEW d \in Devices, Wake(d) PROVE TypeOK'
  BY <1>25 DEF Wake, TypeOK
<1>26. ASSUME ExpireLease PROVE TypeOK'
  BY <1>26 DEF ExpireLease, TypeOK, Leases
<1>27. ASSUME ExpireClaim PROVE TypeOK'
  BY <1>27, Expired DEF ExpireClaim, TypeOK
<1>28. ASSUME UNCHANGED vars PROVE TypeOK'
  BY <1>28 DEF vars, TypeOK
<1>29. QED
  BY <1>1, <1>2, <1>3, <1>4, <1>5, <1>6, <1>7, <1>8, <1>9, <1>10, <1>11, <1>12, <1>13, <1>14, <1>15, <1>16,
     <1>17, <1>18, <1>19, <1>20, <1>21, <1>22, <1>23, <1>24, <1>25, <1>26, <1>27, <1>28 DEF Next, BootStep,
     StartStep, RunStep, StopStep, TabStep

(* What a step does to the rows: each one it leaves was there with its generation and version, or is the next. *)
Grown ==
    /\ NewestGen' \in {NewestGen, NewestGen + 1}
    /\ backups # {} => backups' # {}
    /\ \A b \in backups' :
          \/ \E c \in backups : c.gen = b.gen /\ c.ver = b.ver
          \/ b.gen = NewestGen + 1

LEMMA StepRows ==
  ASSUME Basic, [Next]_vars
  PROVE  RowsOK' /\ Grown
<1> USE DEF Basic
<1>1. ASSUME UNCHANGED backups PROVE RowsOK' /\ Grown
  BY <1>1, SameRows, NewestRow DEF RowsOK, Grown
<1>2. ASSUME NEW d \in Devices, BootConsume(d) PROVE RowsOK' /\ Grown
  <2> DEFINE row == [Newest EXCEPT !.status = "consumed", !.expired = FALSE]
  <2>1. backups # {} /\ backups' = WithNewest(row)
    BY <1>2 DEF BootConsume, Booting, ConsumeOK
  <2>2. row.gen = Newest.gen /\ row.ver = Newest.ver /\ Newest \in backups
    BY <2>1, NewestRow DEF TypeOK, Backups
  <2>3. RowsOK' /\ NewestGen' = NewestGen
    BY <2>1, Consumed
  <2> HIDE DEF row
  <2>4. QED
    BY <2>1, <2>2, <2>3, NewestRow DEF Grown, WithNewest
<1>3. ASSUME NEW d \in Devices, BootClaim(d) PROVE RowsOK' /\ Grown
  <2>1. CASE UNCHANGED backups
    BY <2>1, <1>1
  <2>2. CASE ~UNCHANGED backups
    <3> DEFINE row == [Newest EXCEPT !.status = "claimed", !.by = d, !.expired = FALSE]
    <3>1. backups # {} /\ backups' = WithNewest(row)
      BY <1>3, <2>2 DEF BootClaim, NewestIs
    <3>2. row.gen = Newest.gen /\ row.ver = Newest.ver /\ Newest \in backups
      BY <3>1, NewestRow DEF TypeOK, Backups
    <3>3. RowsOK' /\ NewestGen' = NewestGen
      BY <3>1, Claimed
    <3> HIDE DEF row
    <3>4. QED
      BY <3>1, <3>2, <3>3, NewestRow DEF Grown, WithNewest
  <2>3. QED
    BY <2>1, <2>2
<1>4. ASSUME NEW d \in Devices, Confirm(d) PROVE RowsOK' /\ Grown
  <2>1. ASSUME NEW b \in backups, backups' = (backups \ {b}) \cup {[b EXCEPT !.status = "consumed", !.expired = FALSE]}
        PROVE  RowsOK' /\ Grown
    <3>1. b \in Backups
      BY DEF TypeOK
    <3> DEFINE c == [b EXCEPT !.status = "consumed", !.expired = FALSE]
    <3>2. c \in Backups /\ c.gen = b.gen /\ c.ver = b.ver
      BY <3>1, MarkedRow DEF Statuses, Backups
    <3>3. backups' = (backups \ {b}) \cup {c}
      BY <2>1
    <3> HIDE DEF c
    <3>4. RowsOK' /\ NewestGen' = NewestGen
      BY <3>2, <3>3, Rewritten
    <3>5. QED
      BY <3>2, <3>3, <3>4, NewestRow DEF Grown
  <2>2. QED
    BY <1>1, <1>4, <2>1 DEF Confirm
<1>5. ASSUME NEW d \in Devices, Save(d) PROVE RowsOK' /\ Grown
  <2>1. local[d] \in 0..MaxState
    BY DEF TypeOK
  <2>2. CASE Insert(d, local[d]) /\ NewestGen < MaxGen
    BY <2>1, <2>2, Inserted, NewestRow DEF Grown, NewRow
  <2>3. QED
    BY <1>1, <1>5, <2>2 DEF Save
<1>6. ASSUME LateInsert PROVE RowsOK' /\ Grown
  <2>1. PICK s \in late : Insert(s.dev, s.ver)
    BY <1>6 DEF LateInsert
  <2>2. s.dev \in Devices /\ s.ver \in 0..MaxState /\ NewestGen < MaxGen
    BY <1>6 DEF TypeOK, LateInsert
  <2>3. QED
    BY <2>1, <2>2, Inserted, NewestRow DEF Grown, NewRow
<1>7. ASSUME ExpireClaim PROVE RowsOK' /\ Grown
  <2> DEFINE row == [Newest EXCEPT !.expired = TRUE]
  <2>1. backups # {} /\ backups' = WithNewest(row)
    BY <1>7 DEF ExpireClaim, NewestIs
  <2>2. row.gen = Newest.gen /\ row.ver = Newest.ver /\ Newest \in backups
    BY <2>1, NewestRow DEF TypeOK, Backups
  <2>3. RowsOK' /\ NewestGen' = NewestGen
    BY <1>7, Expired
  <2> HIDE DEF row
  <2>4. QED
    BY <2>1, <2>2, <2>3, NewestRow DEF Grown, WithNewest
<1>8. QED
  BY <1>1, <1>2, <1>3, <1>4, <1>5, <1>6, <1>7 DEF Next, vars, server, BootStep, StartStep, RunStep, StopStep,
     TabStep, Bootstrap, BootPrepare, BootSave, BootDies, AcquireCheck, AcquireInsert, LoadBackup, RestoreLocal,
     Unlock, StartNode, OpenChannel, MarkOpened, UpdateState, Stop, LogoutBackup, Release, Restart, Crash,
     Sleep, Wake, ExpireLease
LEMMA StepConsumeOK ==
  ASSUME Basic, [Next]_vars
  PROVE  ConsumeOK'
<1> USE DEF Basic
<1>1. backups # {} => backups' # {}
  BY StepRows DEF Grown
<1>2. ASSUME NEW d \in Devices, BootPrepare(d) PROVE ConsumeOK'
  BY <1>1, <1>2 DEF BootPrepare, PrepareSame, PrepareOther, Booting, NextStage, AnswerBoot, RefuseBoot,
     NewestIs, ConsumeOK, TypeOK, Boots
<1>3. ASSUME boot' = boot \/ boot' = None PROVE ConsumeOK'
  BY <1>1, <1>3 DEF ConsumeOK
<1>4. ASSUME NEW d \in Devices, Bootstrap(d) PROVE ConsumeOK'
  BY <1>4 DEF Bootstrap, ConsumeOK
<1>5. ASSUME NEW d \in Devices, BootClaim(d) PROVE ConsumeOK'
  <2>1. boot' = None \/ boot' = [boot EXCEPT !.stage = "save", !.restore = TRUE]
    BY <1>5 DEF BootClaim, RefuseBoot, NextStage
  <2>2. boot \in Boots
    BY <1>5 DEF BootClaim, Booting, TypeOK
  <2>3. QED
    BY <2>1, <2>2 DEF ConsumeOK, Boots
<1>6. ASSUME NEW d \in Devices, Crash(d) PROVE ConsumeOK'
  BY <1>1, <1>6 DEF Crash, ConsumeOK, TypeOK, Boots
<1>7. ASSUME NEW d \in Devices, BootConsume(d) \/ BootSave(d) \/ BootDies(d) PROVE boot' = None
  BY <1>7 DEF BootConsume, BootSave, BootDies, AnswerBoot, RefuseBoot
<1>8. QED
  BY <1>2, <1>3, <1>4, <1>5, <1>6, <1>7 DEF Next, vars, server, BootStep, StartStep, RunStep, StopStep, TabStep,
     ExpireClaim, LateInsert, Confirm, Save, AcquireCheck, AcquireInsert, LoadBackup, RestoreLocal, Unlock,
     StartNode, OpenChannel, MarkOpened, UpdateState, Stop, LogoutBackup, Release, Restart, Sleep, Wake,
     ExpireLease

-----------------------------------------------------------------------------
(* The pages *)

DeviceStep(d) == BootStep(d) \/ StartStep(d) \/ RunStep(d) \/ StopStep(d) \/ TabStep(d)

SamePage(d) ==
    pc'[d] = pc[d] /\ mustRestore'[d] = mustRestore[d] /\ copy'[d] = copy[d] /\ local'[d] = local[d]

(* Only a device's own step changes its page and its databases. *)
LEMMA OtherPages ==
  ASSUME TypeOK, NEW e \in Devices, DeviceStep(e), NEW d \in Devices \ {e}
  PROVE  SamePage(d)
<1> USE DEF TypeOK, SamePage, pages, state
<1>1. ASSUME BootStep(e) PROVE SamePage(d)
  <2>1. UNCHANGED <<copy, local>>
    BY <1>1 DEF BootStep, Bootstrap, BootPrepare, BootConsume, BootClaim, BootSave, BootDies
  <2>2. CASE Bootstrap(e)
    BY <1>1, <2>1, <2>2 DEF Bootstrap, Goto
  <2>3. CASE BootPrepare(e)
    BY <1>1, <2>1, <2>3 DEF BootPrepare, PrepareSame, PrepareOther, AnswerBoot, RefuseBoot, Goto
  <2>4. CASE BootConsume(e) \/ BootSave(e) \/ BootDies(e)
    BY <1>1, <2>1, <2>4 DEF BootConsume, BootSave, BootDies, AnswerBoot, RefuseBoot, Goto
  <2>5. CASE BootClaim(e)
    BY <1>1, <2>1, <2>5 DEF BootClaim, RefuseBoot, Goto
  <2>6. QED
    BY <1>1, <2>2, <2>3, <2>4, <2>5 DEF BootStep
<1>2. ASSUME StartStep(e) PROVE SamePage(d)
  <2>1. pc'[d] = pc[d] /\ mustRestore'[d] = mustRestore[d]
    BY <1>2 DEF StartStep, AcquireCheck, AcquireInsert, LoadBackup, RestoreLocal, Confirm, Unlock, StartNode,
       Goto
  <2>2. copy'[d] = copy[d] /\ local'[d] = local[d]
    BY <1>2 DEF StartStep, AcquireCheck, AcquireInsert, LoadBackup, RestoreLocal, Confirm, Unlock, StartNode,
       Goto
  <2>3. QED
    BY <2>1, <2>2
<1>3. ASSUME RunStep(e) PROVE SamePage(d)
  BY <1>3 DEF RunStep, OpenChannel, MarkOpened, UpdateState, Goto
<1>4. ASSUME StopStep(e) PROVE SamePage(d)
  BY <1>4 DEF StopStep, Stop, LogoutBackup, Save, Release, Restart, Goto
<1>5. ASSUME TabStep(e) PROVE SamePage(d)
  BY <1>5 DEF TabStep, Crash, Sleep, Wake, Goto
<1>6. QED
  BY <1>1, <1>2, <1>3, <1>4, <1>5 DEF DeviceStep

(* The slow save and the clocks touch no page. *)
ClockStep == LateInsert \/ ExpireLease \/ ExpireClaim \/ UNCHANGED vars

LEMMA ClockSteps ==
  ASSUME ClockStep
  PROVE  UNCHANGED <<boot, primary, hasOpened, pc, mustRestore, copy, asleep, local, latest>>
BY DEF ClockStep, LateInsert, ExpireLease, ExpireClaim, vars, server, pages, state

LEMMA Steps ==
  ASSUME [Next]_vars
  PROVE  ClockStep \/ \E d \in Devices : DeviceStep(d)
BY DEF Next, DeviceStep, ClockStep

(* The other steps of a device leave the bootstrap alone, and its page is not waiting for one. *)
OwnStep(d) ==
    /\ UNCHANGED <<boot, primary>>
    /\ pc[d] \notin {"booting", "off"} /\ pc'[d] # "booting"

LEMMA OwnSteps ==
  ASSUME TypeOK, NEW d \in Devices, DeviceStep(d)
  PROVE  BootStep(d) \/ Crash(d) \/ OwnStep(d) \/ (SamePage(d) /\ UNCHANGED <<boot, primary>>)
<1> USE DEF TypeOK, OwnStep, server, At
<1>1. CASE StartStep(d)
  BY <1>1 DEF StartStep, AcquireCheck, AcquireInsert, LoadBackup, RestoreLocal, Confirm, Unlock, StartNode, Goto
<1>2. CASE RunStep(d)
  BY <1>2 DEF RunStep, OpenChannel, MarkOpened, UpdateState, Goto, pages
<1>3. CASE StopStep(d)
  BY <1>3 DEF StopStep, Stop, LogoutBackup, Save, Release, Restart, Goto
<1>4. CASE Sleep(d) \/ Wake(d)
  BY <1>4 DEF Sleep, Wake, SamePage, state
<1>5. QED
  BY <1>1, <1>2, <1>3, <1>4 DEF DeviceStep, TabStep

(* The statements of a bootstrap, and what becomes of it. *)
LEMMA BootSteps ==
  ASSUME TypeOK, NEW d \in Devices, BootStep(d), ~Bootstrap(d)
  PROVE  /\ boot \in Boots /\ boot.dev = d
         /\ \/ /\ boot' = None
               /\ pc'[d] = IF boot.heard THEN pc'[d] ELSE pc[d]
               /\ boot.heard => pc'[d] \in {"leasing", "off"}
               /\ primary' # primary => boot.stage = "save" /\ primary' = d
            \/ /\ \E stage \in {"consume", "claim", "save"}, restore \in BOOLEAN :
                     /\ NextStage(stage, restore)
                     /\ stage \in {"claim", "save"} =>
                           boot.stage = "claim" \/ (primary # d /\ boot.leased \in {None, d})
               /\ UNCHANGED <<pc, primary, mustRestore>>
<1>1. boot \in Boots /\ boot.dev = d
  BY DEF BootStep, BootPrepare, BootConsume, BootClaim, BootSave, BootDies, Booting, TypeOK
<1>2. CASE BootPrepare(d)
  <2>1. CASE PrepareSame(d)
    BY <1>1, <1>2, <2>1 DEF BootPrepare, PrepareSame, AnswerBoot, NextStage, Goto, TypeOK
  <2>2. CASE PrepareOther(d)
    BY <1>1, <1>2, <2>2 DEF BootPrepare, PrepareOther, RefuseBoot, NextStage, Goto, TypeOK
  <2>3. QED
    BY <1>2, <2>1, <2>2 DEF BootPrepare
<1>3. CASE BootConsume(d) \/ BootDies(d)
  BY <1>1, <1>3 DEF BootConsume, BootDies, AnswerBoot, RefuseBoot, Goto, TypeOK
<1>4. CASE BootSave(d)
  BY <1>1, <1>4 DEF BootSave, Booting, AnswerBoot, Goto, TypeOK
<1>5. CASE BootClaim(d)
  BY <1>1, <1>5 DEF BootClaim, Booting, RefuseBoot, NextStage, Goto, TypeOK
<1>6. QED
  BY <1>1, <1>2, <1>3, <1>4, <1>5 DEF BootStep

LEMMA StepWaitOK ==
  ASSUME Basic, [Next]_vars
  PROVE  WaitOK'
<1> USE DEF Basic
<1>1. ASSUME NEW d \in Devices, Bootstrap(d) PROVE WaitOK'
  <2>1. boot = None /\ boot' \in Boots /\ boot'.dev = d /\ boot'.stage = "read" /\ boot'.heard = TRUE
    BY <1>1 DEF Bootstrap, Boots, ActiveLease, TypeOK, Leases
  <2>2. boot' # None
    BY <2>1, HandoffAssumption
  <2>3. pc' = [pc EXCEPT ![d] = "booting"]
    BY <1>1 DEF Bootstrap, Goto
  <2>4. QED
    BY <2>1, <2>2, <2>3 DEF WaitOK, TypeOK
<1>2. ASSUME NEW d \in Devices, BootStep(d), ~Bootstrap(d) PROVE WaitOK'
  <2>1. boot \in Boots /\ boot.dev = d /\ boot # None
    BY <1>2, BootSteps, HandoffAssumption
  <2>2. \A e \in Devices \ {d} : pc[e] # "booting" /\ pc'[e] = pc[e]
    BY <1>2, <2>1, OtherPages DEF WaitOK, DeviceStep, SamePage
  <2>3. pc[d] = IF boot.heard THEN "booting" ELSE "off"
    BY <2>1 DEF WaitOK
  <2>4. CASE boot' = None
    <3>1. pc'[d] # "booting"
      BY <1>2, <2>1, <2>3, <2>4, BootSteps, StageTypes
    <3>2. QED
      BY <2>2, <2>4, <3>1 DEF WaitOK
  <2>5. CASE boot' # None
    <3>1. PICK stage \in {"consume", "claim", "save"}, restore \in BOOLEAN :
             /\ NextStage(stage, restore)
             /\ stage \in {"claim", "save"} => boot.stage = "claim" \/ (primary # d /\ boot.leased \in {None, d})
             /\ UNCHANGED <<pc, primary>>
      BY <1>2, <2>5, BootSteps
    <3>2. boot'.dev = d /\ boot'.heard = boot.heard /\ boot'.stage = stage /\ boot'.leased = boot.leased
      BY <2>1, <3>1, StageTypes
    <3>3. boot'.stage \in {"claim", "save"} => boot'.dev # primary' /\ boot'.leased \in {None, boot'.dev}
      BY <2>1, <3>1, <3>2 DEF WaitOK
    <3>4. \A e \in Devices : pc'[e] = "booting" => e = d
      BY <2>2
    <3>5. pc'[d] = IF boot'.heard THEN "booting" ELSE "off"
      BY <2>3, <3>1, <3>2
    <3>6. QED
      BY <2>1, <2>5, <3>2, <3>3, <3>4, <3>5 DEF WaitOK
  <2>6. QED
    BY <2>4, <2>5
<1>3. ASSUME NEW d \in Devices, Crash(d) PROVE WaitOK'
  <2>1. pc' = [pc EXCEPT ![d] = "off"] /\ UNCHANGED primary
    BY <1>3 DEF Crash, Goto
  <2>2. CASE boot = None
    BY <1>3, <2>1, <2>2 DEF Crash, WaitOK, TypeOK
  <2>3. CASE boot # None /\ boot.dev # d
    BY <1>3, <2>1, <2>3 DEF Crash, WaitOK, TypeOK
  <2>4. CASE boot # None /\ boot.dev = d
    <3>1. boot' = [boot EXCEPT !.heard = FALSE] /\ boot \in Boots
      BY <1>3, <2>4 DEF Crash, TypeOK
    <3>2. boot'.dev = d /\ boot'.heard = FALSE /\ boot'.stage = boot.stage /\ boot'.leased = boot.leased
      BY <2>4, <3>1 DEF Boots
    <3>3. QED
      BY <2>1, <2>4, <3>2 DEF WaitOK, TypeOK
  <2>5. QED
    BY <2>2, <2>3, <2>4
<1>4. ASSUME UNCHANGED <<boot, primary>>, \A d \in Devices : OwnStep(d) \/ SamePage(d) PROVE WaitOK'
  <2>1. \A d \in Devices : pc[d] \in {"booting", "off"} => pc'[d] = pc[d]
    BY <1>4 DEF OwnStep, SamePage
  <2>2. \A d \in Devices : pc'[d] = "booting" => pc[d] = "booting"
    BY <1>4 DEF OwnStep, SamePage
  <2>3. boot # None => boot.dev \in Devices
    BY DEF TypeOK, Boots
  <2>4. QED
    BY <1>4, <2>1, <2>2, <2>3 DEF WaitOK
<1>5. ASSUME ClockStep PROVE WaitOK'
  BY <1>4, <1>5, ClockSteps DEF SamePage
<1>6. ASSUME NEW d \in Devices, DeviceStep(d) PROVE WaitOK'
  <2>1. \A e \in Devices \ {d} : SamePage(e)
    BY <1>6, OtherPages
  <2>2. CASE OwnStep(d) \/ (SamePage(d) /\ UNCHANGED <<boot, primary>>)
    BY <1>4, <2>1, <2>2 DEF OwnStep
  <2>3. QED
    BY <1>1, <1>2, <1>3, <1>6, <2>2, OwnSteps
<1>7. QED
  BY <1>5, <1>6, Steps

LEMMA StepCopyOK ==
  ASSUME Basic, [Next]_vars
  PROVE  CopyOK'
<1> SUFFICES ASSUME NEW d \in Devices, pc'[d] \in {"restoring", "confirming"}
             PROVE  /\ copy'[d] # None
                    /\ copy'[d].gen <= NewestGen'
                    /\ \A b \in backups' : b.gen = copy'[d].gen => b.ver = copy'[d].ver
                    /\ pc'[d] = "confirming" => local'[d] = copy'[d].ver
  BY DEF CopyOK
<1> USE DEF Basic
<1>1. Grown
  BY StepRows
<1>2. ASSUME copy'[d] = copy[d], pc[d] \in {"restoring", "confirming"}
      PROVE  /\ copy'[d] # None
             /\ copy'[d].gen <= NewestGen'
             /\ \A b \in backups' : b.gen = copy'[d].gen => b.ver = copy'[d].ver
  <2>1. copy[d] # None /\ copy[d].gen <= NewestGen /\ \A b \in backups : b.gen = copy[d].gen => b.ver = copy[d].ver
    BY <1>2 DEF CopyOK
  <2>2. copy[d].gen \in Int /\ NewestGen \in Int
    BY <2>1, NewestRow, HandoffAssumption DEF TypeOK, Copies
  <2>3. QED
    BY <1>1, <1>2, <2>1, <2>2 DEF Grown
<1>3. CASE LoadBackup(d)
  <2>1. backups # {} /\ copy'[d] = [gen |-> Newest.gen, ver |-> Newest.ver] /\ pc'[d] = "restoring"
    BY <1>3 DEF LoadBackup, ClaimedBy, NewestIs, TypeOK, Goto
  <2>2. UNCHANGED backups /\ Newest.gen <= NewestGen'
    BY <1>3, <2>1, NewestRow, SameRows, HandoffAssumption DEF LoadBackup, server
  <2>3. [gen |-> Newest.gen, ver |-> Newest.ver] # None
    BY <2>1, NewestRow, HandoffAssumption DEF TypeOK, Backups, Copies
  <2>4. QED
    BY <2>1, <2>2, <2>3, NewestRow
<1>4. CASE RestoreLocal(d)
  <2>1. copy'[d] = copy[d] /\ pc[d] = "restoring"
    BY <1>4 DEF RestoreLocal, At
  <2>2. local'[d] = copy[d].ver
    BY <1>4 DEF RestoreLocal, TypeOK, Goto
  <2>3. QED
    BY <1>2, <2>1, <2>2
<1>5. CASE UNCHANGED <<copy, local>> /\ pc[d] \in {"restoring", "confirming"} /\ pc'[d] = pc[d]
  BY <1>2, <1>5 DEF CopyOK
<1>6. CASE SamePage(d)
  BY <1>2, <1>6 DEF SamePage, CopyOK
<1>7. ASSUME DeviceStep(d), ~LoadBackup(d), ~RestoreLocal(d), ~SamePage(d) PROVE FALSE
  <2>1. ASSUME BootStep(d) PROVE pc'[d] \in {"booting", "leasing", "off"}
    <3>1. CASE Bootstrap(d)
      BY <3>1 DEF Bootstrap, Goto, TypeOK
    <3>2. CASE ~Bootstrap(d)
      <4>1. pc[d] \in {"booting", "off"} /\ (boot.heard => pc[d] = "booting")
        BY <2>1, <3>2, BootSteps, HandoffAssumption DEF WaitOK
      <4>2. QED
        BY <2>1, <3>2, <4>1, BootSteps
    <3>3. QED
      BY <3>1, <3>2
  <2>2. CASE StartStep(d)
    BY <1>7, <2>2 DEF StartStep, AcquireCheck, AcquireInsert, Confirm, Unlock, StartNode, Goto, TypeOK
  <2>3. CASE RunStep(d)
    BY <1>7, <2>3 DEF RunStep, OpenChannel, MarkOpened, UpdateState, Goto, TypeOK, pages, At
  <2>4. CASE StopStep(d)
    BY <1>7, <2>4 DEF StopStep, Stop, LogoutBackup, Save, Release, Restart, Goto, TypeOK
  <2>5. CASE TabStep(d)
    BY <1>7, <2>5 DEF TabStep, Crash, Sleep, Wake, Goto, TypeOK, SamePage, state
  <2>6. QED
    BY <1>7, <2>1, <2>2, <2>3, <2>4, <2>5 DEF DeviceStep
<1>8. QED
  BY <1>3, <1>4, <1>6, <1>7, Steps, ClockSteps, OtherPages DEF SamePage
-----------------------------------------------------------------------------
(* One node *)

LEMMA SameFaults == [Next]_vars => UNCHANGED faults
BY DEF Next, vars

(* Apart from taking, giving back and losing it, no step of a device changes the lease or goes where it is held. *)
LEMMA LeaseSteps ==
  ASSUME Basic, NEW d \in Devices, DeviceStep(d), ~AcquireInsert(d), ~Release(d), ~Crash(d)
  PROVE  UNCHANGED lease /\ (pc'[d] \in Holding => pc[d] \in Holding)
<1> USE DEF Basic, Holding, At
<1>1. CASE Bootstrap(d)
  BY <1>1 DEF Bootstrap, Goto, TypeOK
<1>2. CASE BootStep(d) /\ ~Bootstrap(d)
  <2>1. UNCHANGED lease
    BY <1>2 DEF BootStep, BootPrepare, BootConsume, BootClaim, BootSave, BootDies
  <2>2. pc'[d] = pc[d] \/ pc'[d] \in {"leasing", "off"}
    BY <1>2, BootSteps
  <2>3. QED
    BY <2>1, <2>2
<1>3. CASE StartStep(d)
  BY <1>3 DEF StartStep, AcquireCheck, LoadBackup, RestoreLocal, Confirm, Unlock, StartNode, Goto, TypeOK,
     server
<1>4. CASE RunStep(d)
  BY <1>4 DEF RunStep, OpenChannel, MarkOpened, UpdateState, Goto, TypeOK, server, pages
<1>5. CASE StopStep(d)
  BY <1>5 DEF StopStep, Stop, LogoutBackup, Save, Restart, Goto, TypeOK, server
<1>6. CASE TabStep(d)
  BY <1>6 DEF TabStep, Sleep, Wake, server
<1>7. QED
  BY <1>1, <1>2, <1>3, <1>4, <1>5, <1>6 DEF DeviceStep

LEMMA StepLeaseOK ==
  ASSUME Basic, LeaseOK, [Next]_vars
  PROVE  LeaseOK'
<1> SUFFICES ASSUME "sleep" \notin faults
             PROVE  asleep' = {} /\ \A d \in Devices : pc'[d] \in Holding => LeaseHeld(d)'
  BY SameFaults DEF LeaseOK
<1> USE DEF Basic
<1>1. asleep = {} /\ \A d \in Devices : pc[d] \in Holding => LeaseHeld(d)
  BY DEF LeaseOK
<1>2. ASSUME NEW d \in Devices, DeviceStep(d) PROVE asleep' = {}
  <2>1. CASE BootStep(d)
    BY <1>1, <2>1 DEF BootStep, Bootstrap, BootPrepare, BootConsume, BootClaim, BootSave, BootDies
  <2>2. CASE StartStep(d)
    BY <1>1, <2>2 DEF StartStep, AcquireCheck, AcquireInsert, LoadBackup, RestoreLocal, Confirm, Unlock,
       StartNode
  <2>3. CASE RunStep(d)
    BY <1>1, <2>3 DEF RunStep, OpenChannel, MarkOpened, UpdateState, pages
  <2>4. CASE StopStep(d)
    BY <1>1, <2>4 DEF StopStep, Stop, LogoutBackup, Save, Release, Restart
  <2>5. CASE TabStep(d)
    BY <1>1, <2>5 DEF TabStep, Crash, Sleep, Wake
  <2>6. QED
    BY <1>2, <2>1, <2>2, <2>3, <2>4, <2>5 DEF DeviceStep
<1>3. ASSUME UNCHANGED lease, \A d \in Devices : pc'[d] \in Holding => pc[d] \in Holding
      PROVE  \A d \in Devices : pc'[d] \in Holding => LeaseHeld(d)'
  BY <1>1, <1>3 DEF LeaseHeld
<1>4. ASSUME NEW d \in Devices, AcquireInsert(d)
      PROVE  \A e \in Devices : pc'[e] \in Holding => LeaseHeld(e)'
  <2>1. CASE ActiveLease \in {None, d}
    <3>1. PICK answered \in BOOLEAN :
             /\ lease' = [dev |-> d, mine |-> answered, live |-> TRUE]
             /\ Goto(d, IF ~answered THEN "idle" ELSE IF mustRestore[d] THEN "loading" ELSE "starting")
      BY <1>4, <2>1 DEF AcquireInsert
    <3>2. lease' \in Leases /\ lease' # None
      <4>1. lease' \in Leases
        BY <3>1 DEF Leases
      <4>2. QED
        BY <4>1, HandoffAssumption
    <3>3. \A e \in Devices \ {d} : ~LeaseHeld(e)
      BY <2>1, HandoffAssumption DEF ActiveLease, LeaseHeld
    <3>4. \A e \in Devices \ {d} : pc'[e] \notin Holding
      BY <1>1, <3>1, <3>3 DEF Goto, TypeOK
    <3>5. pc'[d] \in Holding => LeaseHeld(d)'
      BY <3>1, <3>2 DEF Goto, TypeOK, Holding, LeaseHeld
    <3>6. QED
      BY <3>4, <3>5
  <2>2. CASE ActiveLease \notin {None, d}
    BY <1>3, <1>4, <2>2 DEF AcquireInsert, Goto, TypeOK, Holding
  <2>3. QED
    BY <2>1, <2>2
<1>5. ASSUME NEW d \in Devices, Release(d) \/ Crash(d)
      PROVE  \A e \in Devices : pc'[e] \in Holding => LeaseHeld(e)'
  <2>1. pc'[d] \notin Holding /\ \A e \in Devices \ {d} : pc'[e] = pc[e]
    BY <1>5 DEF Release, Crash, Goto, TypeOK, Holding
  <2>2. \A e \in Devices \ {d} : LeaseHeld(e) => lease' = lease
    BY <1>5 DEF Release, Crash, LeaseHeld
  <2>3. QED
    BY <1>1, <2>1, <2>2 DEF LeaseHeld
<1>6. ASSUME ClockStep
      PROVE  asleep' = {} /\ \A e \in Devices : pc'[e] \in Holding => LeaseHeld(e)'
  <2>1. UNCHANGED <<pc, asleep>>
    BY <1>6, ClockSteps
  <2>2. CASE ExpireLease
    <3>1. \A e \in Devices : ~LeaseHeld(e)
      BY <1>1, <2>2 DEF ExpireLease, Beating, Awake, LeaseHeld
    <3>2. QED
      BY <1>1, <2>1, <3>1
  <2>3. CASE ~ExpireLease
    <3>1. UNCHANGED lease
      BY <1>6, <2>3 DEF ClockStep, LateInsert, ExpireClaim, vars, server
    <3>2. QED
      BY <1>1, <1>3, <2>1, <3>1
  <2>4. QED
    BY <2>2, <2>3
<1>7. ASSUME NEW d \in Devices, DeviceStep(d)
      PROVE  asleep' = {} /\ \A e \in Devices : pc'[e] \in Holding => LeaseHeld(e)'
  <2>1. \A e \in Devices \ {d} : pc'[e] = pc[e]
    BY <1>7, OtherPages DEF SamePage
  <2>2. QED
    BY <1>2, <1>3, <1>4, <1>5, <1>7, <2>1, LeaseSteps
<1>8. QED
  BY <1>6, <1>7, Steps
-----------------------------------------------------------------------------
(* What each step that writes the rows does to the newest *)

Held == BootOK /\ ClaimOK /\ PageOK /\ BoundOK /\ FirstOK /\ KeptOK

(* The newest row is written again with another status; the others stay. *)
Written(status) ==
    /\ backups # {} /\ backups' # {}
    /\ Newest'.status = status /\ Newest'.ver = Newest.ver /\ Newest'.src = Newest.src
    /\ \A b \in backups' : b = Newest' \/ (b \in backups /\ b # Newest)

LEMMA ConsumeEffect ==
  ASSUME Basic, Mild, Held, NEW d \in Devices, BootConsume(d)
  PROVE  NewestIs("available") /\ Newest.src = primary /\ primary = d /\ Written("consumed")
<1> USE DEF Basic, Held
<1>1. NewestIs("available") /\ primary = d /\ Newest.src = primary
  BY DEF BootConsume, Booting, BootOK, ClaimOK
<1>2. Newest \in Backups /\ backups # {}
  BY <1>1, NewestRow DEF TypeOK, NewestIs
<1>3. backups' = WithNewest([Newest EXCEPT !.status = "consumed", !.expired = FALSE])
  BY DEF BootConsume
<1>4. backups' # {} /\ Newest' = [Newest EXCEPT !.status = "consumed", !.expired = FALSE]
  BY <1>2, <1>3, Consumed
<1>5. QED
  BY <1>1, <1>2, <1>3, <1>4 DEF Written, WithNewest, Backups

LEMMA ClaimEffect ==
  ASSUME Basic, NEW d \in Devices, BootClaim(d)
  PROVE  \/ RefuseBoot(d) /\ UNCHANGED backups
         \/ /\ ~Quiet /\ Written("claimed") /\ Newest'.by = d
            /\ NextStage("save", TRUE) /\ UNCHANGED <<pc, mustRestore>>
<1> USE DEF Basic
<1>1. CASE NewestIs("available") \/ (NewestIs("claimed") /\ Newest.expired)
  <2>1. /\ backups' = WithNewest([Newest EXCEPT !.status = "claimed", !.by = d, !.expired = FALSE])
        /\ NextStage("save", TRUE) /\ UNCHANGED <<pc, mustRestore>>
    BY <1>1 DEF BootClaim
  <2>2. backups # {} /\ ~Quiet /\ Newest \in Backups
    BY <1>1, NewestRow DEF NewestIs, Quiet, TypeOK
  <2>3. backups' # {} /\ Newest' = [Newest EXCEPT !.status = "claimed", !.by = d, !.expired = FALSE]
    BY <2>1, <2>2, Claimed
  <2>4. QED
    BY <2>1, <2>2, <2>3 DEF Written, WithNewest, Backups
<1>2. QED
  BY <1>1 DEF BootClaim

(* What a device confirms is the newest row, and it had claimed it. *)
LEMMA ConfirmEffect ==
  ASSUME Basic, Mild, Held, NEW d \in Devices, Confirm(d)
  PROVE  \/ /\ UNCHANGED <<backups, mustRestore>> /\ pc' = [pc EXCEPT ![d] = "releasing"]
         \/ /\ ClaimedBy(d) /\ Written("consumed") /\ local[d] = Newest.ver
            /\ \E answered \in BOOLEAN :
                  /\ mustRestore' = [mustRestore EXCEPT ![d] = ~answered]
                  /\ pc' = [pc EXCEPT ![d] = IF answered THEN "starting" ELSE "releasing"]
<1> USE DEF Basic, Held
<1>1. ASSUME NEW b \in backups, NEW answered \in BOOLEAN,
             b.gen = copy[d].gen /\ b.status = "claimed" /\ b.by = d,
             backups' = (backups \ {b}) \cup {[b EXCEPT !.status = "consumed", !.expired = FALSE]}
      PROVE  ClaimedBy(d) /\ Written("consumed") /\ local[d] = Newest.ver
  <2>1. b = Newest /\ backups # {} /\ Newest \in Backups
    BY <1>1, NewestRow DEF ClaimOK, TypeOK
  <2>2. local[d] = Newest.ver
    BY <1>1, <2>1 DEF Confirm, At, CopyOK
  <2>3. backups' = WithNewest([Newest EXCEPT !.status = "consumed", !.expired = FALSE])
    BY <1>1, <2>1 DEF WithNewest
  <2>4. backups' # {} /\ Newest' = [Newest EXCEPT !.status = "consumed", !.expired = FALSE]
    BY <2>1, <2>3, Consumed
  <2>5. QED
    BY <1>1, <2>1, <2>2, <2>3, <2>4 DEF Written, WithNewest, Backups, ClaimedBy, NewestIs
<1>2. QED
  BY <1>1 DEF Confirm, Goto

LEMMA SaveEffect ==
  ASSUME Basic, Mild, Held, NEW d \in Devices, Save(d)
  PROVE  /\ late' = {}
         /\ \/ UNCHANGED backups
            \/ /\ Admitted(d) /\ Quiet /\ backups' # {} /\ Newest' = NewRow(d, local[d])
               /\ backups' \subseteq backups \cup {NewRow(d, local[d])}
<1> USE DEF Basic, Held
<1>1. local[d] \in 0..MaxState /\ "slowSave" \notin faults /\ late = {}
  BY DEF TypeOK, Mild, BootOK
<1>2. pc[d] = "saving" /\ ~mustRestore[d]
  BY DEF Save, At, PageOK
<1>3. CASE Admitted(d)
  <2>1. Quiet
    BY <1>2, <1>3 DEF PageOK, Admitted
  <2>2. Insert(d, local[d]) /\ UNCHANGED late /\ NewestGen < MaxGen
    BY <1>1, <1>3 DEF Save
  <2>3. QED
    BY <1>1, <1>3, <2>1, <2>2, Inserted
<1>4. QED
  BY <1>1, <1>3 DEF Save

LEMMA ExpireEffect ==
  ASSUME Basic, ExpireClaim
  PROVE  Written("claimed") /\ NewestIs("claimed") /\ Newest'.by = Newest.by
<1>1. NewestIs("claimed") /\ backups # {} /\ Newest \in Backups
  BY NewestRow DEF Basic, TypeOK, ExpireClaim, NewestIs
<1>2. backups' # {} /\ Newest' = [Newest EXCEPT !.expired = TRUE]
  BY Expired DEF Basic
<1>3. QED
  BY <1>1, <1>2 DEF Written, ExpireClaim, WithNewest, Backups, NewestIs

(* No other step writes a row. *)
LEMMA RowSteps ==
  ASSUME Basic, Mild, Held, NEW d \in Devices, DeviceStep(d), ~BootConsume(d), ~BootClaim(d), ~Confirm(d), ~Save(d)
  PROVE  UNCHANGED <<backups, late>> /\ Newest' = Newest
<1>1. UNCHANGED <<backups, late>>
  <2>1. CASE BootStep(d)
    BY <2>1 DEF BootStep, Bootstrap, BootPrepare, BootSave, BootDies
  <2>2. CASE StartStep(d)
    BY <2>2 DEF StartStep, AcquireCheck, AcquireInsert, LoadBackup, RestoreLocal, Unlock, StartNode, server
  <2>3. CASE RunStep(d)
    BY <2>3 DEF RunStep, OpenChannel, MarkOpened, UpdateState, server
  <2>4. CASE StopStep(d)
    BY <2>4 DEF StopStep, Stop, LogoutBackup, Release, Restart, server
  <2>5. CASE TabStep(d)
    BY <2>5 DEF TabStep, Crash, Sleep, Wake, server
  <2>6. QED
    BY <2>1, <2>2, <2>3, <2>4, <2>5 DEF DeviceStep
<1>2. QED
  BY <1>1, SameRows
-----------------------------------------------------------------------------
(* The bootstrap *)

(* A node that runs with the lease had it before the step, unless it has just been started. *)
LEMMA RunningSteps ==
  ASSUME Basic, Mild, [Next]_vars, NEW e \in Devices, Running(e)', LeaseHeld(e)'
  PROVE  LeaseHeld(e) /\ (Running(e) \/ StartNode(e))
<1> USE DEF Basic, Running
<1>1. ASSUME NEW d \in Devices, d # e, DeviceStep(d) PROVE LeaseHeld(e) /\ Running(e)
  <2>1. Running(e)
    BY <1>1, OtherPages DEF SamePage
  <2>2. CASE AcquireInsert(d)
    BY <1>1, <2>1, <2>2 DEF AcquireInsert, LeaseHeld
  <2>3. CASE Release(d) \/ Crash(d)
    BY <1>1, <2>1, <2>3 DEF Release, Crash, LeaseHeld, TypeOK, Leases
  <2>4. CASE UNCHANGED lease
    BY <2>1, <2>4 DEF LeaseHeld
  <2>5. QED
    BY <1>1, <2>1, <2>2, <2>3, <2>4, LeaseSteps
<1>2. ASSUME DeviceStep(e) PROVE LeaseHeld(e) /\ (Running(e) \/ StartNode(e))
  <2>1. ~BootStep(e)
    <3>1. ASSUME BootStep(e), ~Bootstrap(e) PROVE FALSE
      BY <3>1, BootSteps, HandoffAssumption DEF WaitOK
    <3>2. QED
      BY <3>1 DEF Bootstrap, Goto, TypeOK
  <2>2. CASE StartStep(e)
    BY <2>2 DEF StartStep, AcquireCheck, AcquireInsert, LoadBackup, RestoreLocal, Confirm, Unlock, StartNode,
       Goto, TypeOK, server, LeaseHeld
  <2>3. CASE RunStep(e)
    BY <2>3 DEF RunStep, OpenChannel, MarkOpened, UpdateState, LeaseHeld, server, pages, At
  <2>4. CASE StopStep(e)
    BY <2>4 DEF StopStep, Stop, LogoutBackup, Save, Release, Restart, Goto, TypeOK, server, At, LeaseHeld
  <2>5. CASE TabStep(e)
    BY <2>5 DEF TabStep, Crash, Sleep, Wake, Goto, TypeOK, server, LeaseHeld
  <2>6. QED
    BY <1>2, <2>1, <2>2, <2>3, <2>4, <2>5 DEF DeviceStep
<1>3. ASSUME ClockStep PROVE LeaseHeld(e) /\ Running(e)
  <2>1. Running(e)
    BY <1>3, ClockSteps
  <2>2. LeaseHeld(e)
    BY <1>3 DEF ClockStep, LateInsert, ExpireLease, ExpireClaim, vars, server, LeaseHeld, TypeOK, Leases
  <2>3. QED
    BY <2>1, <2>2
<1>4. QED
  BY <1>1, <1>2, <1>3, Steps

LEMMA StepBootOK ==
  ASSUME Basic, Mild, Held, [Next]_vars
  PROVE  BootOK'
<1> USE DEF Basic, Held
<1>1. late' = {}
  <2>1. ASSUME NEW d \in Devices, DeviceStep(d) PROVE late' = {}
    BY <2>1, SaveEffect, RowSteps DEF BootOK, BootConsume, BootClaim, Confirm
  <2>2. ASSUME ClockStep PROVE late' = {}
    BY <2>2 DEF BootOK, ClockStep, LateInsert, ExpireLease, ExpireClaim, vars, server
  <2>3. QED
    BY <2>1, <2>2, Steps
<1>2. ASSUME boot # None, boot' # None, boot'.leased = boot.leased, NEW e \in Devices, Running(e)', LeaseHeld(e)'
      PROVE  boot'.leased = e
  <2>1. LeaseHeld(e) /\ (Running(e) \/ StartNode(e))
    BY <1>2, RunningSteps
  <2>2. CASE Running(e)
    BY <1>2, <2>1, <2>2 DEF BootOK
  <2>3. CASE StartNode(e)
    <3>1. e \in {boot.dev, boot.leased} /\ pc[e] = "unlocked"
      BY <1>2, <2>3 DEF StartNode, Mild, At
    <3>2. e # boot.dev
      BY <1>2, <3>1 DEF WaitOK
    <3>3. QED
      BY <1>2, <3>1, <3>2
  <2>4. QED
    BY <2>1, <2>2, <2>3
<1>3. ASSUME NEW d \in Devices, Bootstrap(d) PROVE BootOK'
  <2>1. boot' = [dev |-> d, leased |-> ActiveLease, stage |-> "read", restore |-> FALSE, heard |-> TRUE]
    BY <1>3 DEF Bootstrap
  <2>2. ASSUME NEW e \in Devices, Running(e)', LeaseHeld(e)' PROVE boot'.leased = e
    <3>1. LeaseHeld(e)
      BY <1>3, <2>2 DEF Bootstrap, LeaseHeld
    <3>2. QED
      BY <2>1, <3>1 DEF ActiveLease, LeaseHeld
  <2>3. QED
    BY <1>1, <2>1, <2>2 DEF BootOK
<1>4. ASSUME NEW d \in Devices, BootPrepare(d) PROVE BootOK'
  <2>1. boot \in Boots /\ boot # None /\ boot.dev = d
    BY <1>4, HandoffAssumption DEF BootPrepare, Booting, TypeOK
  <2>2. UNCHANGED <<backups, hasOpened, primary>> /\ Newest' = Newest
    BY <1>4, SameRows DEF BootPrepare
  <2>3. CASE boot' = None
    BY <1>1, <2>3 DEF BootOK
  <2>4. CASE NextStage("consume", FALSE) /\ PrepareSame(d)
    <3>1. NewestIs("available") /\ primary = d
      BY <2>4, HandoffAssumption, <2>1, StageTypes DEF PrepareSame, AnswerBoot
    <3>2. boot' # None /\ boot'.leased = boot.leased /\ boot'.dev = d /\ boot'.stage = "consume" /\ boot'.restore = FALSE
      BY <2>1, <2>4, StageTypes
    <3>3. QED
      BY <1>1, <1>2, <2>1, <2>2, <3>1, <3>2 DEF BootOK, NewestIs
  <2>5. CASE NextStage("claim", TRUE)
    <3>1. boot' # None /\ boot'.leased = boot.leased /\ boot'.stage = "claim"
      BY <2>1, <2>5, StageTypes
    <3>2. QED
      BY <1>1, <1>2, <2>1, <3>1 DEF BootOK
  <2>6. CASE NextStage("save", FALSE) /\ Quiet /\ ~hasOpened
    <3>1. boot' # None /\ boot'.leased = boot.leased /\ boot'.stage = "save" /\ boot'.restore = FALSE
      BY <2>1, <2>6, StageTypes
    <3>2. QED
      BY <1>1, <1>2, <2>1, <2>2, <2>6, <3>1 DEF BootOK, Quiet
  <2>7. QED
    BY <1>4, <2>3, <2>4, <2>5, <2>6 DEF BootPrepare, PrepareSame, PrepareOther, AnswerBoot, RefuseBoot, Quiet,
       NewestIs
<1>5. ASSUME NEW d \in Devices, BootClaim(d) PROVE BootOK'
  <2>1. CASE RefuseBoot(d)
    BY <1>1, <2>1 DEF BootOK, RefuseBoot
  <2>2. CASE ~RefuseBoot(d)
    <3>1. boot \in Boots /\ boot # None /\ boot.dev = d
      BY <1>5 DEF BootClaim, Booting, TypeOK
    <3>2. Written("claimed") /\ Newest'.by = d /\ NextStage("save", TRUE)
      BY <1>5, <2>2, ClaimEffect
    <3>3. boot' # None /\ boot'.leased = boot.leased /\ boot'.dev = d /\ boot'.stage = "save" /\ boot'.restore = TRUE
      BY <3>1, <3>2, StageTypes
    <3>4. QED
      BY <1>1, <1>2, <3>1, <3>2, <3>3 DEF BootOK, Written, ClaimedBy, NewestIs
  <2>3. QED
    BY <2>1, <2>2
<1>6. ASSUME NEW d \in Devices, BootConsume(d) \/ BootSave(d) \/ BootDies(d) PROVE BootOK'
  BY <1>1, <1>6 DEF BootConsume, BootSave, BootDies, AnswerBoot, RefuseBoot, BootOK
<1>7. ASSUME boot # None => /\ boot' # None /\ boot'.leased = boot.leased /\ boot'.dev = boot.dev
                            /\ boot'.stage = boot.stage /\ boot'.restore = boot.restore,
             boot = None => boot' = None,
             boot # None => UNCHANGED <<primary, hasOpened>>,
             boot # None /\ boot.stage = "consume" => (NewestIs("available") => NewestIs("available")'),
             boot # None /\ boot.stage = "save" => (Quiet => Quiet') /\ (ClaimedBy(boot.dev) => ClaimedBy(boot.dev)')
      PROVE  BootOK'
  BY <1>1, <1>2, <1>7 DEF BootOK
<1>8. ASSUME NEW d \in Devices, Confirm(d) PROVE BootOK'
  <2>1. UNCHANGED <<boot, primary, hasOpened>> /\ pc[d] = "confirming"
    BY <1>8 DEF Confirm, At
  <2>2. boot # None => boot.dev # d
    BY <2>1 DEF WaitOK
  <2>3. CASE UNCHANGED backups
    BY <1>7, <2>1, <2>3, SameRows DEF Quiet, ClaimedBy, NewestIs
  <2>4. CASE ClaimedBy(d) /\ Written("consumed")
    BY <1>7, <2>1, <2>2, <2>4 DEF Quiet, ClaimedBy, NewestIs, Written
  <2>5. QED
    BY <1>8, <2>3, <2>4, ConfirmEffect
<1>9. ASSUME NEW d \in Devices, Save(d) PROVE BootOK'
  <2>1. UNCHANGED <<boot, primary, hasOpened>> /\ pc[d] = "saving"
    BY <1>9 DEF Save, At
  <2>2. boot # None => boot.dev # d
    BY <2>1 DEF WaitOK
  <2>3. CASE UNCHANGED backups
    BY <1>7, <2>1, <2>3, SameRows DEF Quiet, ClaimedBy, NewestIs
  <2>4. CASE ~UNCHANGED backups
    <3>1. primary = d /\ LeaseHeld(d)
      BY <1>9, <2>4, SaveEffect DEF Admitted
    <3>2. boot # None => boot.leased = d
      BY <2>1, <3>1 DEF BootOK, Running
    <3>3. boot # None => boot.stage \notin {"consume", "save"}
      BY <2>2, <3>1, <3>2, HandoffAssumption DEF BootOK, WaitOK
    <3>4. QED
      BY <1>7, <2>1, <3>3
  <2>5. QED
    BY <2>3, <2>4
<1>10. ASSUME NEW d \in Devices, MarkOpened(d) PROVE BootOK'
  BY <1>1, <1>10 DEF MarkOpened, BootOK
<1>11. ASSUME NEW d \in Devices, Crash(d) PROVE BootOK'
  <2>1. UNCHANGED <<primary, hasOpened, backups>> /\ Newest' = Newest
    BY <1>11, SameRows DEF Crash
  <2>2. boot = None => boot' = None
    BY <1>11 DEF Crash
  <2>3. boot # None => /\ boot' # None /\ boot'.leased = boot.leased /\ boot'.dev = boot.dev
                       /\ boot'.stage = boot.stage /\ boot'.restore = boot.restore
    <3>1. [boot EXCEPT !.heard = FALSE] \in Boots \/ boot = None
      BY DEF TypeOK, Boots
    <3>2. QED
      BY <1>11, <3>1, HandoffAssumption DEF Crash, TypeOK, Boots
  <2>4. QED
    BY <1>7, <2>1, <2>2, <2>3 DEF Quiet, ClaimedBy, NewestIs
<1>12. ASSUME ClockStep PROVE BootOK'
  <2>1. UNCHANGED <<boot, primary, hasOpened>>
    BY <1>12, ClockSteps
  <2>2. CASE ExpireClaim
    BY <1>7, <2>1, <2>2, ExpireEffect DEF Quiet, ClaimedBy, NewestIs, Written
  <2>3. CASE ~ExpireClaim
    <3>1. UNCHANGED backups
      BY <1>12, <2>3 DEF ClockStep, LateInsert, ExpireLease, vars, server, BootOK
    <3>2. QED
      BY <1>7, <2>1, <3>1, SameRows DEF Quiet, ClaimedBy, NewestIs
  <2>4. QED
    BY <2>2, <2>3
<1>13. ASSUME NEW d \in Devices, DeviceStep(d), ~BootStep(d), ~Confirm(d), ~Save(d), ~MarkOpened(d), ~Crash(d)
       PROVE  BootOK'
  <2>1. UNCHANGED <<boot, primary>>
    BY <1>13, OwnSteps DEF OwnStep
  <2>2. UNCHANGED backups /\ Newest' = Newest
    BY <1>13, RowSteps DEF BootStep
  <2>3. UNCHANGED hasOpened
    BY <1>13 DEF DeviceStep, StartStep, AcquireCheck, AcquireInsert, LoadBackup, RestoreLocal, Unlock,
       StartNode, RunStep, OpenChannel, UpdateState, StopStep, Stop, LogoutBackup, Release, Restart, TabStep,
       Sleep, Wake, server
  <2>4. QED
    BY <1>7, <2>1, <2>2, <2>3 DEF Quiet, ClaimedBy, NewestIs
<1>14. QED
  BY <1>3, <1>4, <1>5, <1>6, <1>8, <1>9, <1>10, <1>11, <1>12, <1>13, Steps DEF BootStep
-----------------------------------------------------------------------------
(* The claims *)

LEMMA StepClaimOK ==
  ASSUME Basic, Mild, Held, [Next]_vars
  PROVE  ClaimOK'
<1> USE DEF Basic, Held
<1>1. ASSUME UNCHANGED backups, Newest' = Newest,
             NewestIs("available") => UNCHANGED primary,
             NewestIs("claimed") => \/ Newest.by = primary'
                                    \/ boot' # None /\ boot'.stage = "save" /\ Newest.by = boot'.dev
      PROVE  ClaimOK'
  BY <1>1 DEF ClaimOK, NewestIs
<1>2. ASSUME Written("consumed") PROVE ClaimOK'
  BY <1>2 DEF ClaimOK, Written, NewestIs
<1>3. ASSUME NEW d \in Devices, BootPrepare(d) PROVE ClaimOK'
  <2>1. boot.stage = "read" /\ UNCHANGED <<primary, backups>>
    BY <1>3 DEF BootPrepare, Booting
  <2>2. QED
    BY <1>1, <2>1, SameRows DEF ClaimOK
<1>4. ASSUME NEW d \in Devices, BootClaim(d) PROVE ClaimOK'
  <2>1. boot \in Boots /\ boot.stage = "claim" /\ boot.dev = d /\ UNCHANGED primary
    BY <1>4 DEF BootClaim, Booting, TypeOK
  <2>2. CASE UNCHANGED backups
    BY <1>1, <2>1, <2>2, SameRows DEF ClaimOK
  <2>3. CASE ~UNCHANGED backups
    <3>1. Written("claimed") /\ Newest'.by = d /\ NextStage("save", TRUE)
      BY <1>4, <2>3, ClaimEffect
    <3>2. boot' # None /\ boot'.stage = "save" /\ boot'.dev = d
      BY <2>1, <3>1, StageTypes
    <3>3. QED
      BY <3>1, <3>2 DEF ClaimOK, Written, NewestIs
  <2>4. QED
    BY <2>2, <2>3
<1>5. ASSUME NEW d \in Devices, BootSave(d) PROVE ClaimOK'
  <2>1. boot # None /\ boot.stage = "save" /\ boot.dev = d /\ primary' = d /\ UNCHANGED backups
    BY <1>5 DEF BootSave, Booting
  <2>2. IF boot.restore THEN ClaimedBy(d) ELSE Quiet
    BY <2>1 DEF BootOK
  <2>3. QED
    BY <1>1, <2>1, <2>2, SameRows DEF ClaimedBy, Quiet, NewestIs
<1>6. ASSUME NEW d \in Devices, Confirm(d) PROVE ClaimOK'
  <2>1. CASE UNCHANGED backups
    BY <1>1, <1>6, <2>1, SameRows DEF Confirm, ClaimOK
  <2>2. QED
    BY <1>2, <1>6, <2>1, ConfirmEffect
<1>7. ASSUME NEW d \in Devices, Save(d) PROVE ClaimOK'
  <2>1. UNCHANGED <<primary, boot>>
    BY <1>7 DEF Save
  <2>2. CASE UNCHANGED backups
    BY <1>1, <2>1, <2>2, SameRows DEF ClaimOK
  <2>3. CASE ~UNCHANGED backups
    <3>1. /\ Admitted(d) /\ Quiet /\ backups' # {} /\ Newest' = NewRow(d, local[d])
          /\ backups' \subseteq backups \cup {Newest'}
      BY <1>7, <2>3, SaveEffect
    <3>2. \A b \in backups : b.status # "claimed"
      BY <3>1 DEF ClaimOK, Quiet
    <3>3. QED
      BY <2>1, <3>1, <3>2 DEF ClaimOK, NewestIs, NewRow, Admitted
  <2>4. QED
    BY <2>2, <2>3
<1>8. ASSUME NEW d \in Devices, Crash(d) PROVE ClaimOK'
  <2>1. UNCHANGED <<primary, backups>>
    BY <1>8 DEF Crash
  <2>2. boot # None => boot' # None /\ boot'.dev = boot.dev /\ boot'.stage = boot.stage
    <3>1. [boot EXCEPT !.heard = FALSE] \in Boots \/ boot = None
      BY DEF TypeOK, Boots
    <3>2. QED
      BY <1>8, <3>1, HandoffAssumption DEF Crash, TypeOK, Boots
  <2>3. QED
    BY <1>1, <2>1, <2>2, SameRows DEF ClaimOK
<1>9. ASSUME ClockStep PROVE ClaimOK'
  <2>1. UNCHANGED <<boot, primary>>
    BY <1>9, ClockSteps
  <2>2. CASE ExpireClaim
    BY <2>1, <2>2, ExpireEffect DEF ClaimOK, Written, NewestIs
  <2>3. CASE ~ExpireClaim
    <3>1. UNCHANGED backups
      BY <1>9, <2>3 DEF ClockStep, LateInsert, ExpireLease, vars, server, BootOK
    <3>2. QED
      BY <1>1, <2>1, <3>1, SameRows DEF ClaimOK
  <2>4. QED
    BY <2>2, <2>3
<1>10. ASSUME NEW d \in Devices, Bootstrap(d) PROVE ClaimOK'
  <2>1. boot = None /\ UNCHANGED <<primary, backups>>
    BY <1>10 DEF Bootstrap
  <2>2. QED
    BY <1>1, <2>1, SameRows DEF ClaimOK
<1>11. ASSUME NEW d \in Devices, DeviceStep(d), ~BootStep(d), ~Confirm(d), ~Save(d), ~Crash(d)
       PROVE  ClaimOK'
  <2>1. UNCHANGED <<boot, primary>>
    BY <1>11, OwnSteps DEF OwnStep
  <2>2. UNCHANGED backups /\ Newest' = Newest
    BY <1>11, RowSteps DEF BootStep
  <2>3. QED
    BY <1>1, <2>1, <2>2 DEF ClaimOK
<1>12. ASSUME NEW d \in Devices, BootDies(d) PROVE FALSE
  BY <1>12 DEF BootDies, Mild
<1>13. ASSUME NEW d \in Devices, BootConsume(d) PROVE ClaimOK'
  BY <1>2, <1>13, ConsumeEffect
<1>14. QED
  BY <1>3, <1>4, <1>5, <1>6, <1>7, <1>8, <1>9, <1>10, <1>11, <1>12, <1>13, Steps DEF BootStep
-----------------------------------------------------------------------------
(* What the pages believe *)

\* The page is connected and was not told to restore, or has restored.
Ready(d) == pc[d] \notin {"off", "booting", "leaving"} /\ ~mustRestore[d]

(* A page becomes ready by an answer to its bootstrap or by a confirmed import. *)
LEMMA ReadySteps ==
  ASSUME Basic, Mild, Held, NEW d \in Devices, DeviceStep(d), Ready(d)'
  PROVE  BootStep(d) \/ Confirm(d) \/ Ready(d)
<1> USE DEF Basic, Ready
<1>1. CASE StartStep(d)
  BY <1>1 DEF StartStep, AcquireCheck, AcquireInsert, LoadBackup, RestoreLocal, Unlock, StartNode, Goto, TypeOK,
     At
<1>2. CASE RunStep(d)
  BY <1>2 DEF RunStep, OpenChannel, MarkOpened, UpdateState, Goto, TypeOK, pages, At
<1>3. CASE StopStep(d)
  BY <1>3 DEF StopStep, Stop, LogoutBackup, Save, Release, Restart, Goto, TypeOK, At, Mild
<1>4. CASE TabStep(d)
  BY <1>4 DEF TabStep, Crash, Sleep, Wake, Goto, TypeOK
<1>5. QED
  BY <1>1, <1>2, <1>3, <1>4 DEF DeviceStep

(* A bootstrap that leaves its page ready leaves nothing to restore, and the wallet bound to the device. *)
LEMMA AnsweredReady ==
  ASSUME Basic, Mild, Held, NEW d \in Devices, BootStep(d), Ready(d)'
  PROVE  primary' = d /\ Quiet'
<1> USE DEF Basic, Held, Ready
<1>1. ~Bootstrap(d)
  BY DEF Bootstrap, Goto, TypeOK
<1>2. boot \in Boots /\ boot.dev = d /\ pc[d] \in {"booting", "off"}
  BY <1>1, BootSteps, HandoffAssumption DEF WaitOK
<1>3. CASE BootPrepare(d)
  <2>1. AnswerBoot(d, ClaimedBy(d)) /\ primary = d /\ ~(NewestIs("available") /\ Newest.src = d)
    BY <1>2, <1>3 DEF BootPrepare, PrepareSame, PrepareOther, RefuseBoot, Goto, TypeOK
  <2>2. ~ClaimedBy(d)
    BY <1>2, <2>1 DEF AnswerBoot, Goto, TypeOK
  <2>3. ~NewestIs("available") /\ ~NewestIs("claimed")
    BY <1>3, <2>1, <2>2 DEF ClaimOK, BootPrepare, Booting, ClaimedBy
  <2>4. Quiet
    BY <2>3, NewestRow DEF NewestIs, Quiet, TypeOK, Backups, Statuses
  <2>5. QED
    BY <1>3, <2>1, <2>4, SameRows DEF BootPrepare, Quiet
<1>4. CASE BootConsume(d)
  BY <1>4, ConsumeEffect DEF Written, Quiet, BootConsume
<1>5. CASE BootSave(d)
  <2>1. ~boot.restore
    BY <1>2, <1>5 DEF BootSave, AnswerBoot, Goto, TypeOK
  <2>2. Quiet
    BY <1>2, <1>5, <2>1, HandoffAssumption DEF BootOK, BootSave, Booting
  <2>3. QED
    BY <1>5, <2>2, SameRows DEF BootSave, Quiet
<1>6. CASE BootClaim(d) \/ BootDies(d)
  BY <1>2, <1>6 DEF BootClaim, BootDies, RefuseBoot, Goto, TypeOK
<1>7. QED
  BY <1>1, <1>3, <1>4, <1>5, <1>6 DEF BootStep

LEMMA StepPageTold ==
  ASSUME Basic, Mild, Held, [Next]_vars, NEW d \in Devices
  PROVE  /\ pc'[d] \in {"loading", "restoring", "confirming"} => mustRestore'[d]
         /\ pc'[d] \in {"starting", "unlocked", "up", "marking", "saving"} => ~mustRestore'[d]
<1> USE DEF Basic, Held, PageOK
<1>1. CASE SamePage(d)
  BY <1>1 DEF SamePage
<1>2. CASE BootStep(d)
  <2>1. CASE Bootstrap(d)
    BY <2>1 DEF Bootstrap, Goto, TypeOK
  <2>2. CASE ~Bootstrap(d)
    <3>1. pc[d] \in {"booting", "off"}
      BY <1>2, <2>2, BootSteps, HandoffAssumption DEF WaitOK
    <3>2. pc'[d] \in {"booting", "off", "leasing"}
      BY <1>2, <2>2, <3>1, BootSteps
    <3>3. QED
      BY <3>2
  <2>3. QED
    BY <2>1, <2>2
<1>3. CASE StartStep(d)
  BY <1>3 DEF StartStep, AcquireCheck, AcquireInsert, LoadBackup, RestoreLocal, Confirm, Unlock, StartNode,
     Goto, TypeOK, At
<1>4. CASE RunStep(d)
  BY <1>4 DEF RunStep, OpenChannel, MarkOpened, UpdateState, Goto, TypeOK, pages, At
<1>5. CASE StopStep(d)
  BY <1>5 DEF StopStep, Stop, LogoutBackup, Save, Release, Restart, Goto, TypeOK, At
<1>6. CASE TabStep(d)
  BY <1>6 DEF TabStep, Crash, Sleep, Wake, Goto, TypeOK
<1>7. QED
  BY <1>1, <1>2, <1>3, <1>4, <1>5, <1>6, Steps, ClockSteps, OtherPages DEF SamePage, DeviceStep

(* A ready page of the primary device stays so while nothing waits to be restored. *)
LEMMA StepReadyQuiet ==
  ASSUME Basic, Mild, Held, [Next]_vars, NEW d \in Devices, Ready(d)', primary' = d
  PROVE  Quiet'
<1> USE DEF Basic, Held
<1>1. ASSUME NEW e \in Devices, DeviceStep(e), Ready(d), primary = d PROVE Quiet'
  <2>1. Quiet
    BY <1>1 DEF PageOK, Ready
  <2>2. CASE BootConsume(e) \/ Confirm(e)
    BY <2>1, <2>2, ConsumeEffect, ConfirmEffect, SameRows DEF Written, Quiet
  <2>3. CASE BootClaim(e)
    BY <2>1, <2>3, ClaimEffect, SameRows DEF Quiet
  <2>4. CASE Save(e)
    <3>1. UNCHANGED backups \/ e = d
      BY <1>1, <2>4, SaveEffect DEF Admitted
    <3>2. e # d
      BY <2>4 DEF Save, Goto, TypeOK, Ready
    <3>3. QED
      BY <2>1, <3>1, <3>2, SameRows DEF Quiet
  <2>5. QED
    BY <1>1, <2>1, <2>2, <2>3, <2>4, RowSteps DEF Quiet
<1>2. ASSUME ClockStep PROVE Quiet'
  <2>1. Ready(d) /\ primary = d
    BY <1>2, ClockSteps DEF Ready
  <2>2. Quiet
    BY <2>1 DEF PageOK, Ready
  <2>3. UNCHANGED backups
    BY <1>2, <2>2 DEF ClockStep, LateInsert, ExpireLease, ExpireClaim, vars, server, BootOK, Quiet, NewestIs
  <2>4. QED
    BY <2>2, <2>3, SameRows DEF Quiet
<1>3. ASSUME NEW e \in Devices, DeviceStep(e) PROVE Quiet'
  <2>1. CASE e = d /\ BootStep(d)
    BY <2>1, AnsweredReady
  <2>2. CASE e = d /\ Confirm(d)
    <3>1. ~UNCHANGED <<backups, mustRestore>> \/ Ready(d)
      BY <2>2 DEF Confirm, At, Ready
    <3>2. CASE Ready(d)
      BY <1>1, <1>3, <2>2, <3>2 DEF Confirm
    <3>3. CASE ~Ready(d)
      BY <2>2, <3>1, <3>3, ConfirmEffect DEF Written, Quiet
    <3>4. QED
      BY <3>2, <3>3
  <2>3. CASE e # d \/ ~(BootStep(d) \/ Confirm(d))
    <3>1. Ready(d)
      BY <1>3, <2>3, ReadySteps, OtherPages DEF Ready, SamePage
    <3>2. primary = d
      <4>1. CASE BootStep(e)
        <5>1. e # d
          BY <2>3, <4>1
        <5>2. CASE Bootstrap(e)
          BY <5>2 DEF Bootstrap
        <5>3. QED
          BY <4>1, <5>1, <5>2, BootSteps
      <4>2. CASE ~BootStep(e)
        BY <1>3, <4>2, OwnSteps DEF OwnStep, Crash
      <4>3. QED
        BY <4>1, <4>2
    <3>3. QED
      BY <1>1, <1>3, <3>1, <3>2
  <2>4. QED
    BY <2>1, <2>2, <2>3
<1>4. QED
  BY <1>2, <1>3, Steps
(* What changes the databases, the channels and the wallet. *)
LEMMA StateSteps ==
  ASSUME NEW d \in Devices, DeviceStep(d)
  PROVE  /\ RestoreLocal(d) \/ StartNode(d) \/ OpenChannel(d) \/ UpdateState(d) \/ Crash(d) \/ UNCHANGED local
         /\ OpenChannel(d) \/ UpdateState(d) \/ UNCHANGED latest
         /\ MarkOpened(d) \/ UNCHANGED hasOpened
         /\ BootSave(d) \/ UNCHANGED primary
<1>1. CASE BootStep(d)
  BY <1>1 DEF BootStep, Bootstrap, BootPrepare, BootConsume, BootClaim, BootSave, BootDies, state
<1>2. CASE StartStep(d)
  BY <1>2 DEF StartStep, AcquireCheck, AcquireInsert, LoadBackup, RestoreLocal, Confirm, Unlock, StartNode,
     server, state
<1>3. CASE RunStep(d)
  BY <1>3 DEF RunStep, OpenChannel, MarkOpened, UpdateState, server, state
<1>4. CASE StopStep(d)
  BY <1>4 DEF StopStep, Stop, LogoutBackup, Save, Release, Restart, server, state
<1>5. CASE TabStep(d)
  BY <1>5 DEF TabStep, Crash, Sleep, Wake, server, state
<1>6. QED
  BY <1>1, <1>2, <1>3, <1>4, <1>5 DEF DeviceStep

(* Once the account has a channel, the wallet leaves a device only for one that has claimed the backup. *)
LEMMA RebindsClaimed ==
  ASSUME Basic, Mild, Held, NEW e \in Devices, BootSave(e), hasOpened
  PROVE  ClaimedBy(e) /\ ~Quiet /\ e # primary /\ primary' = e
<1>1. boot # None /\ boot.dev = e /\ boot.stage = "save" /\ primary' = e
  BY DEF BootSave, Booting
<1>2. QED
  BY <1>1 DEF Held, BootOK, Basic, WaitOK, ClaimedBy, NewestIs, Quiet

LEMMA StepReadyOwn ==
  ASSUME Basic, Mild, Held, [Next]_vars, NEW d \in Devices, Ready(d)', hasOpened', local'[d] = latest'
  PROVE  primary' = d
<1> USE DEF Basic, Held
<1>1. ASSUME Ready(d), hasOpened, local[d] = latest PROVE primary = d /\ Quiet
  BY <1>1 DEF PageOK, Ready
<1>2. ASSUME ClockStep PROVE primary' = d
  BY <1>1, <1>2, ClockSteps DEF Ready
<1>3. ASSUME NEW e \in Devices, DeviceStep(e), Ready(d), hasOpened PROVE primary' = d
  <2>1. latest >= 2 /\ local[d] <= latest /\ local[d] \in Nat /\ latest \in Nat
    BY <1>3, HandoffAssumption DEF KeptOK, BoundOK, TypeOK
  <2>2. local[d] = latest
    <3>1. CASE OpenChannel(e)
      BY <2>1, <3>1 DEF OpenChannel
    <3>2. CASE UpdateState(e)
      BY <2>1, <3>2 DEF UpdateState, TypeOK
    <3>3. CASE StartNode(e)
      BY <2>1, <3>3 DEF StartNode, TypeOK
    <3>4. CASE RestoreLocal(e)
      <4>1. e # d
        BY <1>3, <3>4 DEF RestoreLocal, At, PageOK, Ready
      <4>2. QED
        BY <2>1, <3>4, <4>1 DEF RestoreLocal, TypeOK
    <3>5. CASE Crash(e)
      <4>1. e # d
        BY <3>5 DEF Crash, Goto, TypeOK, Ready
      <4>2. QED
        BY <2>1, <3>5, <4>1 DEF Crash, TypeOK
    <3>6. QED
      BY <1>3, <3>1, <3>2, <3>3, <3>4, <3>5, StateSteps
  <2>3. primary = d /\ Quiet
    BY <1>1, <1>3, <2>2
  <2>4. ~BootSave(e)
    BY <1>3, <2>3, RebindsClaimed
  <2>5. QED
    BY <1>3, <2>3, <2>4, StateSteps
<1>4. ASSUME NEW e \in Devices, DeviceStep(e), ~hasOpened PROVE primary' = d
  <2>1. MarkOpened(e) /\ primary = e /\ primary' = e /\ pc[e] = "marking" /\ UNCHANGED <<local, latest>>
    BY <1>4, StateSteps DEF MarkOpened, At, state
  <2>2. latest = 2 /\ \A f \in Devices \ {e} : local[f] <= 1
    BY <2>1 DEF FirstOK
  <2>3. QED
    BY <2>1, <2>2
<1>5. ASSUME NEW e \in Devices, DeviceStep(e), hasOpened PROVE primary' = d
  <2>1. CASE e = d /\ BootStep(d)
    BY <2>1, AnsweredReady
  <2>2. CASE e = d /\ Confirm(d)
    <3>1. CASE Ready(d)
      BY <1>3, <1>5, <3>1
    <3>2. CASE ~Ready(d)
      <4>1. ClaimedBy(d)
        BY <2>2, <3>2, ConfirmEffect DEF Confirm, At, Ready
      <4>2. boot # None => boot.dev # d
        BY <2>2 DEF Confirm, At, WaitOK
      <4>3. primary = d
        BY <4>1, <4>2 DEF ClaimOK, ClaimedBy
      <4>4. QED
        BY <2>2, <4>3 DEF Confirm
    <3>3. QED
      BY <3>1, <3>2
  <2>3. CASE e # d \/ ~(BootStep(d) \/ Confirm(d))
    BY <1>3, <1>5, <2>3, ReadySteps, OtherPages DEF Ready, SamePage
  <2>4. QED
    BY <2>1, <2>2, <2>3
<1>6. QED
  BY <1>2, <1>4, <1>5, Steps

LEMMA StepPageOK ==
  ASSUME Basic, Mild, Held, [Next]_vars
  PROVE  PageOK'
<1> SUFFICES ASSUME NEW d \in Devices
             PROVE  /\ pc'[d] \in {"loading", "restoring", "confirming"} => mustRestore'[d]
                    /\ pc'[d] \in {"starting", "unlocked", "up", "marking", "saving"} => ~mustRestore'[d]
                    /\ pc'[d] \notin {"off", "booting", "leaving"} /\ ~mustRestore'[d] =>
                          /\ primary' = d => Quiet'
                          /\ hasOpened' /\ local'[d] = latest' => primary' = d
  BY DEF PageOK
<1>1. ASSUME Ready(d)' PROVE (primary' = d => Quiet') /\ (hasOpened' /\ local'[d] = latest' => primary' = d)
  BY <1>1, StepReadyQuiet, StepReadyOwn
<1>2. QED
  BY <1>1, StepPageTold DEF Ready

-----------------------------------------------------------------------------
(* The versions *)

LEMMA CopySteps ==
  ASSUME TypeOK, NEW d \in Devices, DeviceStep(d), ~LoadBackup(d)
  PROVE  copy'[d] = copy[d] \/ copy'[d] = None
<1>1. CASE BootStep(d)
  BY <1>1 DEF BootStep, Bootstrap, BootPrepare, BootConsume, BootClaim, BootSave, BootDies
<1>2. CASE StartStep(d)
  BY <1>2 DEF StartStep, AcquireCheck, AcquireInsert, RestoreLocal, Confirm, Unlock, StartNode, TypeOK
<1>3. CASE RunStep(d)
  BY <1>3 DEF RunStep, OpenChannel, MarkOpened, UpdateState, pages
<1>4. CASE StopStep(d)
  BY <1>4 DEF StopStep, Stop, LogoutBackup, Save, Release, Restart, TypeOK
<1>5. CASE TabStep(d)
  BY <1>5 DEF TabStep, Crash, Sleep, Wake, TypeOK
<1>6. QED
  BY <1>1, <1>2, <1>3, <1>4, <1>5 DEF DeviceStep

LEMMA StepBoundOK ==
  ASSUME Basic, Mild, Held, [Next]_vars
  PROVE  BoundOK'
<1> USE DEF Basic, Held
<1>1. latest' >= latest
  <2>1. ASSUME NEW e \in Devices, DeviceStep(e) PROVE latest' >= latest
    BY <2>1, StateSteps, HandoffAssumption DEF OpenChannel, UpdateState, TypeOK
  <2>2. QED
    BY <2>1, Steps, ClockSteps, HandoffAssumption DEF TypeOK
<1> latest \in Int /\ latest' \in Int
  BY StepTypeOK, HandoffAssumption DEF TypeOK
<1>2. \A b \in backups' : b.ver <= latest'
  <2>1. ASSUME NEW c \in backups PROVE c.ver <= latest'
    <3>1. c.ver \in Int /\ c.ver <= latest
      BY HandoffAssumption DEF BoundOK, TypeOK, Backups
    <3>2. QED
      BY <1>1, <3>1
  <2>2. ASSUME Written("consumed") \/ Written("claimed"), NEW b \in backups' PROVE b.ver <= latest'
    <3>1. Newest \in backups
      BY <2>2, NewestRow DEF Written
    <3>2. QED
      BY <2>1, <2>2, <3>1 DEF Written
  <2>3. ASSUME NEW d \in Devices, Save(d), NEW b \in backups' PROVE b.ver <= latest'
    <3>1. local[d] <= latest'
      <4>1. local[d] \in Int /\ local[d] <= latest
        BY HandoffAssumption DEF BoundOK, TypeOK
      <4>2. QED
        BY <1>1, <4>1
    <3>2. QED
      BY <2>1, <2>3, <3>1, SaveEffect DEF NewRow
  <2>4. ASSUME UNCHANGED backups, NEW b \in backups' PROVE b.ver <= latest'
    BY <2>1, <2>4
  <2>5. ASSUME NEW d \in Devices, DeviceStep(d), NEW b \in backups' PROVE b.ver <= latest'
    BY <2>2, <2>3, <2>4, <2>5, ConsumeEffect, ClaimEffect, ConfirmEffect, RowSteps
  <2>6. ASSUME ClockStep, NEW b \in backups' PROVE b.ver <= latest'
    BY <2>2, <2>4, <2>6, ExpireEffect DEF ClockStep, LateInsert, ExpireLease, vars, server, BootOK
  <2>7. QED
    BY <2>5, <2>6, Steps
<1>3. ASSUME NEW d \in Devices PROVE local'[d] <= latest'
  <2>1. local[d] <= latest /\ local[d] \in Int /\ latest \in Int /\ latest >= 1 /\ latest' \in Int
    BY StepTypeOK, HandoffAssumption DEF BoundOK, TypeOK
  <2>2. ASSUME NEW e \in Devices, DeviceStep(e) PROVE local'[d] <= latest'
    <3>1. CASE RestoreLocal(e)
      <4>1. local'[d] = local[d] \/ local'[d] = copy[e].ver
        BY <3>1 DEF RestoreLocal, TypeOK
      <4>2. copy[e].ver <= latest
        BY <3>1 DEF RestoreLocal, At, BoundOK, CopyOK
      <4>3. QED
        BY <2>1, <3>1, <4>1, <4>2 DEF RestoreLocal
    <3>2. CASE StartNode(e) \/ OpenChannel(e) \/ UpdateState(e) \/ Crash(e)
      BY <2>1, <3>2 DEF StartNode, OpenChannel, UpdateState, Crash, TypeOK
    <3>3. QED
      BY <1>1, <2>1, <2>2, <3>1, <3>2, StateSteps
  <2>3. QED
    BY <2>1, <2>2, Steps, ClockSteps
<1>4. ASSUME NEW d \in Devices, copy'[d] # None PROVE copy'[d].ver <= latest'
  <2>1. CASE copy'[d] = copy[d]
    <3>1. copy[d].ver <= latest /\ copy[d] \in Copies
      BY <1>4, <2>1 DEF BoundOK, TypeOK
    <3>2. latest \in Int /\ latest' \in Int /\ copy[d].ver \in Int
      BY <3>1, StepTypeOK, HandoffAssumption DEF TypeOK, Copies
    <3>3. QED
      BY <1>1, <2>1, <3>1, <3>2
  <2>2. CASE LoadBackup(d)
    BY <1>4, <2>2, NewestRow DEF LoadBackup, ClaimedBy, NewestIs, BoundOK, TypeOK, state
  <2>3. QED
    BY <1>4, <2>1, <2>2, CopySteps, Steps, ClockSteps, OtherPages DEF SamePage
<1>5. QED
  BY <1>2, <1>3, <1>4 DEF BoundOK
-----------------------------------------------------------------------------
(* The first channel *)

LEMMA StepFirstOK ==
  ASSUME Basic, Mild, Held, [Next]_vars
  PROVE  FirstOK'
<1> SUFFICES ASSUME NEW d \in Devices, pc'[d] = "marking"
             PROVE  /\ latest' = 2 /\ local'[d] = 2 /\ ~hasOpened'
                    /\ \A e \in Devices \ {d} : local'[e] <= 1 /\ pc'[e] # "marking"
                    /\ \A e \in Devices : copy'[e] # None => copy'[e].ver <= 1
                    /\ \A b \in backups' : b.ver <= 1
  BY DEF FirstOK
<1> USE DEF Basic, Held
<1>1. CASE OpenChannel(d)
  <2>1. latest = 1 /\ latest' = 2 /\ local' = [local EXCEPT ![d] = 2] /\ pc' = [pc EXCEPT ![d] = "marking"]
        /\ UNCHANGED <<hasOpened, copy, backups>>
    BY <1>1 DEF OpenChannel, Goto, server
  <2>2. ~hasOpened /\ \A e \in Devices : pc[e] # "marking"
    BY <2>1 DEF KeptOK, FirstOK
  <2>3. QED
    BY <2>1, <2>2 DEF BoundOK, TypeOK
<1>2. ASSUME pc[d] = "marking", NEW f \in Devices, DeviceStep(f), f # d \/ Sleep(d) \/ Wake(d)
      PROVE  /\ latest' = 2 /\ local'[d] = 2 /\ ~hasOpened'
             /\ \A e \in Devices \ {d} : local'[e] <= 1 /\ pc'[e] # "marking"
             /\ \A e \in Devices : copy'[e] # None => copy'[e].ver <= 1
             /\ \A b \in backups' : b.ver <= 1
  <2>1. /\ latest = 2 /\ local[d] = 2 /\ ~hasOpened
        /\ \A e \in Devices \ {d} : local[e] <= 1 /\ pc[e] # "marking"
        /\ \A e \in Devices : copy[e] # None => copy[e].ver <= 1
        /\ \A b \in backups : b.ver <= 1
    BY <1>2 DEF FirstOK
  <2>2. CASE Sleep(d) \/ Wake(d)
    BY <1>2, <2>1, <2>2 DEF Sleep, Wake, server, state
  <2>3. CASE f # d
    <3>1. ~OpenChannel(f) /\ ~UpdateState(f) /\ ~MarkOpened(f)
      BY <2>1, <2>3 DEF OpenChannel, UpdateState, MarkOpened, At
    <3>2. UNCHANGED <<latest, hasOpened>>
      BY <1>2, <3>1, StateSteps
    <3>3. \A e \in Devices \ {f} : local'[e] = local[e] /\ pc'[e] = pc[e] /\ copy'[e] = copy[e]
      BY <1>2, OtherPages DEF SamePage
    <3>4. local'[f] <= 1
      <4>1. CASE RestoreLocal(f)
        <5>1. copy[f].ver <= 1
          BY <2>1, <4>1 DEF RestoreLocal, At, CopyOK
        <5>2. QED
          BY <2>1, <2>3, <4>1, <5>1 DEF RestoreLocal, TypeOK
      <4>2. CASE StartNode(f) \/ Crash(f)
        BY <2>1, <2>3, <4>2 DEF StartNode, Crash, TypeOK
      <4>3. QED
        BY <1>2, <2>1, <2>3, <3>1, <4>1, <4>2, StateSteps
    <3>5. pc'[f] # "marking"
      <4>1. CASE BootStep(f)
        <5>1. CASE Bootstrap(f)
          BY <5>1 DEF Bootstrap, Goto, TypeOK
        <5>2. CASE ~Bootstrap(f)
          BY <2>1, <2>3, <4>1, <5>2, BootSteps
        <5>3. QED
          BY <5>1, <5>2
      <4>2. CASE StartStep(f)
        BY <4>2 DEF StartStep, AcquireCheck, AcquireInsert, LoadBackup, RestoreLocal, Confirm, Unlock,
           StartNode, Goto, TypeOK
      <4>3. CASE RunStep(f)
        BY <2>1, <2>3, <3>1, <4>3 DEF RunStep
      <4>4. CASE StopStep(f)
        BY <4>4 DEF StopStep, Stop, LogoutBackup, Save, Release, Restart, Goto, TypeOK
      <4>5. CASE TabStep(f)
        BY <2>1, <2>3, <4>5 DEF TabStep, Crash, Sleep, Wake, Goto, TypeOK
      <4>6. QED
        BY <1>2, <4>1, <4>2, <4>3, <4>4, <4>5 DEF DeviceStep
    <3>6. copy'[f] # None => copy'[f].ver <= 1
      <4>1. CASE LoadBackup(f)
        BY <2>1, <4>1, NewestRow DEF LoadBackup, ClaimedBy, NewestIs, TypeOK
      <4>2. QED
        BY <1>2, <2>1, <4>1, CopySteps
    <3>7. \A b \in backups' : b.ver <= 1
      <4>1. ASSUME Written("consumed") \/ Written("claimed"), NEW b \in backups' PROVE b.ver <= 1
        <5>1. Newest \in backups
          BY <4>1, NewestRow DEF Written
        <5>2. QED
          BY <2>1, <4>1, <5>1 DEF Written
      <4>2. ASSUME Save(f), NEW b \in backups' PROVE b.ver <= 1
        BY <2>1, <2>3, <4>2, SaveEffect DEF NewRow
      <4>3. QED
        BY <1>2, <2>1, <4>1, <4>2, ConsumeEffect, ClaimEffect, ConfirmEffect, RowSteps
    <3>8. QED
      BY <2>1, <2>3, <3>2, <3>3, <3>4, <3>5, <3>6, <3>7
  <2>4. QED
    BY <1>2, <2>2, <2>3
<1>3. ASSUME DeviceStep(d), ~OpenChannel(d) PROVE pc[d] = "marking" /\ (Sleep(d) \/ Wake(d))
  <2>1. ~BootStep(d)
    <3>1. ASSUME BootStep(d), ~Bootstrap(d) PROVE FALSE
      BY <3>1, BootSteps, HandoffAssumption DEF WaitOK
    <3>2. QED
      BY <3>1 DEF Bootstrap, Goto, TypeOK
  <2>2. CASE StartStep(d)
    BY <2>2 DEF StartStep, AcquireCheck, AcquireInsert, LoadBackup, RestoreLocal, Confirm, Unlock, StartNode,
       Goto, TypeOK
  <2>3. CASE RunStep(d)
    BY <1>3, <2>3 DEF RunStep, MarkOpened, UpdateState, Goto, TypeOK, At, pages
  <2>4. CASE StopStep(d)
    BY <2>4 DEF StopStep, Stop, LogoutBackup, Save, Release, Restart, Goto, TypeOK
  <2>5. CASE TabStep(d)
    BY <2>5 DEF TabStep, Crash, Sleep, Wake, Goto, TypeOK
  <2>6. QED
    BY <1>3, <2>1, <2>2, <2>3, <2>4, <2>5 DEF DeviceStep
<1>4. ASSUME ClockStep
      PROVE  /\ latest' = 2 /\ local'[d] = 2 /\ ~hasOpened'
             /\ \A e \in Devices \ {d} : local'[e] <= 1 /\ pc'[e] # "marking"
             /\ \A e \in Devices : copy'[e] # None => copy'[e].ver <= 1
             /\ \A b \in backups' : b.ver <= 1
  <2>1. UNCHANGED <<hasOpened, pc, copy, local, latest>>
    BY <1>4, ClockSteps
  <2>2. \A b \in backups' : b.ver <= 1
    <3>1. \A b \in backups : b.ver <= 1
      BY <2>1 DEF FirstOK
    <3>2. CASE ExpireClaim
      <4>1. Written("claimed") /\ Newest \in backups
        BY <3>2, ExpireEffect, NewestRow DEF Written
      <4>2. QED
        BY <3>1, <4>1 DEF Written
    <3>3. CASE ~ExpireClaim
      BY <1>4, <3>1, <3>3 DEF ClockStep, LateInsert, ExpireLease, vars, server, BootOK
    <3>4. QED
      BY <3>2, <3>3
  <2>3. QED
    BY <2>1, <2>2 DEF FirstOK
<1>5. QED
  BY <1>1, <1>2, <1>3, <1>4, Steps, OtherPages DEF SamePage

-----------------------------------------------------------------------------
(* The last state *)

LEMMA StepKeptOK ==
  ASSUME Basic, Mild, Held, [Next]_vars
  PROVE  KeptOK'
<1> SUFFICES ASSUME hasOpened'
             PROVE  /\ latest' >= 2
                    /\ Quiet' \/ NewestIs("available")' => local'[primary'] = latest'
                    /\ ~Quiet' => Newest'.ver = latest'
  BY DEF KeptOK
<1> DEFINE Kept == /\ latest' >= 2
                   /\ Quiet' \/ NewestIs("available")' => local'[primary'] = latest'
                   /\ ~Quiet' => Newest'.ver = latest'
<1> USE DEF Basic, Held
<1>1. hasOpened => /\ latest >= 2
                   /\ Quiet \/ NewestIs("available") => local[primary] = latest
                   /\ ~Quiet => Newest.ver = latest
  BY DEF KeptOK
<1>2. ASSUME ~hasOpened, NEW d \in Devices, DeviceStep(d) PROVE Kept
  <2>1. MarkOpened(d)
    BY <1>2, StateSteps
  <2>2. primary = d /\ pc[d] = "marking" /\ UNCHANGED <<primary, backups, local, latest>>
    BY <1>2, <2>1 DEF MarkOpened, At, state
  <2>3. latest = 2 /\ local[d] = 2
    BY <2>2 DEF FirstOK
  <2>4. Quiet
    BY <2>2 DEF PageOK
  <2>5. QED
    BY <2>2, <2>3, <2>4, SameRows DEF Quiet
<1>3. ASSUME hasOpened, UNCHANGED <<primary, local, latest>>,
             Quiet' \/ NewestIs("available")' => Quiet \/ NewestIs("available"),
             ~Quiet' => ~Quiet /\ Newest'.ver = Newest.ver
      PROVE  Kept
  BY <1>1, <1>3
<1>4. ASSUME hasOpened, NEW d \in Devices, Confirm(d) PROVE Kept
  <2>1. UNCHANGED <<primary, local, latest>> /\ pc[d] = "confirming"
    BY <1>4 DEF Confirm, At, state
  <2>2. CASE UNCHANGED backups
    BY <1>3, <1>4, <2>1, <2>2, SameRows DEF Quiet, NewestIs
  <2>3. CASE ~UNCHANGED backups
    <3>1. ClaimedBy(d) /\ Written("consumed") /\ local[d] = Newest.ver
      BY <1>4, <2>3, ConfirmEffect
    <3>2. primary = d
      BY <2>1, <3>1 DEF ClaimOK, ClaimedBy, WaitOK
    <3>3. Newest.ver = latest
      BY <1>1, <1>4, <3>1 DEF ClaimedBy, NewestIs, Quiet
    <3>4. QED
      BY <1>1, <1>4, <2>1, <3>1, <3>2, <3>3 DEF Written, Quiet
  <2>4. QED
    BY <2>2, <2>3
<1>5. ASSUME hasOpened, NEW d \in Devices, Save(d) PROVE Kept
  <2>1. UNCHANGED <<primary, local, latest>>
    BY <1>5 DEF Save, state
  <2>2. CASE UNCHANGED backups
    BY <1>3, <1>5, <2>1, <2>2, SameRows DEF Quiet, NewestIs
  <2>3. CASE ~UNCHANGED backups
    BY <1>1, <1>5, <2>1, <2>3, SaveEffect DEF NewRow, Admitted
  <2>4. QED
    BY <2>2, <2>3
<1>6. ASSUME hasOpened, NEW d \in Devices, BootConsume(d) PROVE Kept
  <2>1. UNCHANGED <<primary, local, latest>>
    BY <1>6 DEF BootConsume, state
  <2>2. QED
    BY <1>3, <1>6, <2>1, ConsumeEffect DEF Written, Quiet
<1>7. ASSUME hasOpened, NEW d \in Devices, BootClaim(d) PROVE Kept
  <2>1. UNCHANGED <<primary, local, latest>>
    BY <1>7 DEF BootClaim, state
  <2>2. CASE UNCHANGED backups
    BY <1>3, <1>7, <2>1, <2>2, SameRows DEF Quiet, NewestIs
  <2>3. CASE ~UNCHANGED backups
    BY <1>3, <1>7, <2>1, <2>3, ClaimEffect DEF Written, Quiet, NewestIs
  <2>4. QED
    BY <2>2, <2>3
<1>8. ASSUME hasOpened, NEW d \in Devices, BootSave(d) PROVE Kept
  <2>1. UNCHANGED <<backups, local, latest>> /\ Newest' = Newest
    BY <1>8, SameRows DEF BootSave, state
  <2>2. ClaimedBy(d) /\ ~Quiet
    BY <1>8, RebindsClaimed
  <2>3. QED
    BY <1>1, <1>8, <2>1, <2>2 DEF ClaimedBy, NewestIs, Quiet
<1>9. ASSUME hasOpened, NEW d \in Devices, UpdateState(d) PROVE Kept
  <2>1. pc[d] = "up" /\ local[d] = latest /\ latest' = latest + 1 /\ local' = [local EXCEPT ![d] = latest + 1]
        /\ UNCHANGED <<primary, backups>>
    BY <1>9 DEF UpdateState, At, server
  <2>2. primary = d /\ Quiet
    BY <1>9, <2>1 DEF PageOK
  <2>3. latest \in Nat /\ latest >= 2
    BY <1>1, <1>9, HandoffAssumption DEF TypeOK
  <2>4. QED
    BY <2>1, <2>2, <2>3, SameRows DEF Quiet, TypeOK
<1>10. ASSUME hasOpened, NEW d \in Devices, RestoreLocal(d) \/ StartNode(d) \/ Crash(d) PROVE Kept
  <2>1. UNCHANGED <<primary, backups, latest>> /\ Newest' = Newest
    BY <1>10, SameRows DEF RestoreLocal, StartNode, Crash, server
  <2>2. \A e \in Devices : local[e] # 0 => local'[e] = local[e]
    BY <1>10 DEF RestoreLocal, StartNode, Crash, TypeOK
  <2>3. primary \in Devices
    BY DEF TypeOK
  <2>4. QED
    BY <1>1, <1>10, <2>1, <2>2, <2>3 DEF Quiet, NewestIs
<1>11. ASSUME hasOpened, NEW d \in Devices, OpenChannel(d) PROVE FALSE
  BY <1>1, <1>11 DEF OpenChannel
<1>12. ASSUME hasOpened, NEW d \in Devices, DeviceStep(d), ~Confirm(d), ~Save(d), ~BootConsume(d), ~BootClaim(d),
              ~BootSave(d), ~UpdateState(d), ~RestoreLocal(d), ~StartNode(d), ~Crash(d), ~OpenChannel(d)
       PROVE  Kept
  <2>1. UNCHANGED <<primary, local, latest>>
    BY <1>12, StateSteps
  <2>2. UNCHANGED backups /\ Newest' = Newest
    BY <1>12, RowSteps
  <2>3. QED
    BY <1>3, <1>12, <2>1, <2>2 DEF Quiet, NewestIs
<1>13. ASSUME ClockStep PROVE Kept
  <2>1. UNCHANGED <<hasOpened, primary, local, latest>>
    BY <1>13, ClockSteps
  <2>2. CASE ExpireClaim
    BY <1>3, <2>1, <2>2, ExpireEffect DEF Written, Quiet, NewestIs
  <2>3. CASE ~ExpireClaim
    <3>1. UNCHANGED backups
      BY <1>13, <2>3 DEF ClockStep, LateInsert, ExpireLease, vars, server, BootOK
    <3>2. QED
      BY <1>3, <2>1, <3>1, SameRows DEF Quiet, NewestIs
  <2>4. QED
    BY <2>2, <2>3
<1>14. QED
  BY <1>2, <1>4, <1>5, <1>6, <1>7, <1>8, <1>9, <1>10, <1>11, <1>12, <1>13, Steps
-----------------------------------------------------------------------------
(* Without failures *)

LEMMA OneHolder ==
  ASSUME LeaseOK, "sleep" \notin faults, NEW d \in Devices, NEW e \in Devices, pc[d] \in Holding, pc[e] \in Holding
  PROVE  d = e
BY DEF LeaseOK, LeaseHeld

(* The wallet is not bound to another device under a running node. *)
LEMMA NotUnderNode ==
  ASSUME Basic, Mild, Held, LeaseOK, faults = {}, NEW e \in Devices, BootSave(e), NEW d \in Devices, Running(d)
  PROVE  FALSE
<1>1. boot # None /\ boot.dev = e /\ boot.stage = "save"
  BY DEF BootSave, Booting
<1>2. LeaseHeld(d) /\ d # e
  BY <1>1 DEF LeaseOK, Running, Holding, Basic, WaitOK
<1>3. boot.leased = d
  BY <1>1, <1>2 DEF Held, BootOK
<1>4. QED
  BY <1>1, <1>2, <1>3, HandoffAssumption DEF Basic, WaitOK

(* How a page comes to have a node, or to open a channel. *)
LEMMA NodePages ==
  ASSUME Basic, NEW d \in Devices, DeviceStep(d)
  PROVE  /\ pc'[d] \in {"unlocked", "up", "marking", "saving"} =>
               \/ pc[d] \in {"unlocked", "up", "marking", "saving"}
               \/ Admitted(d) /\ UNCHANGED primary
         /\ NodeUp(d)' => NodeUp(d) \/ StartNode(d)
         /\ pc'[d] = "marking" => pc[d] = "marking" \/ OpenChannel(d)
         /\ pc[d] = "marking" => pc'[d] = "marking" \/ MarkOpened(d) \/ Crash(d)
<1> USE DEF Basic, NodeUp
<1>1. CASE BootStep(d)
  <2>1. CASE Bootstrap(d)
    BY <2>1 DEF Bootstrap, Goto, TypeOK
  <2>2. CASE ~Bootstrap(d)
    <3>1. pc[d] \in {"booting", "off"}
      BY <1>1, <2>2, BootSteps, HandoffAssumption DEF WaitOK
    <3>2. pc'[d] \in {"booting", "off", "leasing"}
      BY <1>1, <2>2, <3>1, BootSteps
    <3>3. QED
      BY <3>1, <3>2
  <2>3. QED
    BY <2>1, <2>2
<1>2. CASE StartStep(d)
  BY <1>2 DEF StartStep, AcquireCheck, AcquireInsert, LoadBackup, RestoreLocal, Confirm, Unlock, StartNode,
     Goto, TypeOK, server, At
<1>3. CASE RunStep(d)
  BY <1>3 DEF RunStep, OpenChannel, MarkOpened, UpdateState, Goto, TypeOK, pages, At
<1>4. CASE StopStep(d)
  BY <1>4 DEF StopStep, Stop, LogoutBackup, Save, Release, Restart, Goto, TypeOK, At
<1>5. CASE TabStep(d)
  BY <1>5 DEF TabStep, Crash, Sleep, Wake, Goto, TypeOK
<1>6. QED
  BY <1>1, <1>2, <1>3, <1>4, <1>5 DEF DeviceStep

LEMMA StepStrictOK ==
  ASSUME Basic, Mild, Held, LeaseOK, StrictOK, [Next]_vars
  PROVE  StrictOK'
<1> SUFFICES ASSUME faults = {}
             PROVE  /\ latest' >= 2 => hasOpened' \/ \E d \in Devices : pc'[d] = "marking"
                    /\ \A d \in Devices :
                          /\ pc'[d] \in {"unlocked", "up", "marking", "saving"} /\ primary' # d => latest' = 1
                          /\ NodeUp(d)' => local'[d] >= 1
                          /\ pc'[d] = "marking" => primary' = d
  BY SameFaults DEF StrictOK
<1> USE DEF Basic, Held
<1>1. /\ latest >= 2 => hasOpened \/ \E d \in Devices : pc[d] = "marking"
      /\ \A d \in Devices :
            /\ pc[d] \in {"unlocked", "up", "marking", "saving"} /\ primary # d => latest = 1
            /\ NodeUp(d) => local[d] >= 1
            /\ pc[d] = "marking" => primary = d
  BY DEF StrictOK
<1>2. ASSUME ClockStep
      PROVE  /\ latest' >= 2 => hasOpened' \/ \E d \in Devices : pc'[d] = "marking"
             /\ \A d \in Devices :
                   /\ pc'[d] \in {"unlocked", "up", "marking", "saving"} /\ primary' # d => latest' = 1
                   /\ NodeUp(d)' => local'[d] >= 1
                   /\ pc'[d] = "marking" => primary' = d
  BY <1>1, <1>2, ClockSteps DEF NodeUp
<1>3. ASSUME NEW e \in Devices, DeviceStep(e), latest' >= 2
      PROVE  hasOpened' \/ \E d \in Devices : pc'[d] = "marking"
  <2>1. CASE OpenChannel(e)
    BY <2>1 DEF OpenChannel, Goto, TypeOK
  <2>2. CASE ~OpenChannel(e)
    <3>1. latest >= 2
      BY <1>3, <2>2, StateSteps, HandoffAssumption DEF UpdateState, TypeOK
    <3>2. hasOpened => hasOpened'
      BY <1>3, StateSteps DEF MarkOpened
    <3>3. ASSUME NEW d \in Devices, pc[d] = "marking" PROVE hasOpened' \/ pc'[d] = "marking"
      <4>1. CASE e # d
        BY <1>3, <3>3, <4>1, OtherPages DEF SamePage
      <4>2. CASE e = d
        <5>1. ~Crash(d)
          BY <3>3 DEF Crash
        <5>2. MarkOpened(d) => hasOpened'
          BY <1>1, <3>3 DEF MarkOpened
        <5>3. QED
          BY <1>3, <3>3, <4>2, <5>1, <5>2, NodePages
      <4>3. QED
        BY <4>1, <4>2
    <3>4. QED
      BY <1>1, <3>1, <3>2, <3>3
  <2>3. QED
    BY <2>1, <2>2
<1>4. ASSUME NEW e \in Devices, DeviceStep(e), NEW d \in Devices, pc'[d] \in {"unlocked", "up", "marking", "saving"},
             primary' # d
      PROVE  latest' = 1
  <2>1. pc[d] \in {"unlocked", "up", "marking", "saving"} \/ (Admitted(d) /\ UNCHANGED primary)
    BY <1>4, NodePages, OtherPages DEF SamePage
  <2>2. pc[d] \in {"unlocked", "up", "marking", "saving"}
    BY <1>4, <2>1 DEF Admitted
  <2>3. CASE BootSave(e)
    <3>1. UNCHANGED latest
      BY <2>3 DEF BootSave, state
    <3>2. CASE primary # d
      BY <1>1, <2>2, <3>1, <3>2
    <3>3. CASE primary = d
      <4>1. Quiet
        BY <2>2, <3>3 DEF PageOK
      <4>2. ~hasOpened
        BY <2>3, <4>1, RebindsClaimed
      <4>3. \A m \in Devices : pc[m] # "marking"
        BY <2>3, NotUnderNode DEF Running
      <4>4. latest < 2
        BY <1>1, <4>2, <4>3, HandoffAssumption DEF TypeOK
      <4>5. QED
        BY <3>1, <4>4, HandoffAssumption DEF TypeOK
    <3>4. QED
      BY <3>2, <3>3
  <2>4. CASE ~BootSave(e)
    <3>1. primary # d /\ latest = 1
      BY <1>1, <1>4, <2>2, <2>4, StateSteps
    <3>2. ~OpenChannel(e)
      <4>1. ASSUME OpenChannel(e) PROVE e = d /\ primary = e
        <5>1. pc[e] = "up" /\ primary = e
          BY <4>1 DEF OpenChannel, At
        <5>2. QED
          BY <2>2, <5>1, OneHolder DEF Holding
      <4>2. QED
        BY <3>1, <4>1
    <3>3. ~UpdateState(e)
      BY <3>1, HandoffAssumption DEF UpdateState
    <3>4. QED
      BY <1>4, <3>1, <3>2, <3>3, StateSteps
  <2>5. QED
    BY <2>3, <2>4
<1>5. ASSUME NEW e \in Devices, DeviceStep(e), NEW d \in Devices, NodeUp(d)' PROVE local'[d] >= 1
  <2>1. CASE NodeUp(d)
    <3>1. local[d] >= 1 /\ local[d] \in Nat /\ latest \in Nat /\ latest >= 1
      BY <1>1, <2>1, HandoffAssumption DEF TypeOK
    <3>2. CASE RestoreLocal(e)
      BY <2>1, <3>1, <3>2 DEF RestoreLocal, At, NodeUp, TypeOK
    <3>3. CASE StartNode(e) \/ OpenChannel(e) \/ UpdateState(e) \/ Crash(e)
      BY <3>1, <3>3 DEF StartNode, OpenChannel, UpdateState, Crash, TypeOK
    <3>4. QED
      BY <1>5, <3>1, <3>2, <3>3, StateSteps
  <2>2. CASE StartNode(d)
    BY <2>2, HandoffAssumption DEF StartNode, TypeOK
  <2>3. QED
    BY <1>5, <2>1, <2>2, NodePages, OtherPages DEF SamePage, NodeUp
<1>6. ASSUME NEW e \in Devices, DeviceStep(e), NEW d \in Devices, pc'[d] = "marking" PROVE primary' = d
  <2>1. CASE OpenChannel(d)
    BY <2>1 DEF OpenChannel, server
  <2>2. CASE pc[d] = "marking"
    <3>1. ~BootSave(e)
      BY <2>2, NotUnderNode DEF Running
    <3>2. QED
      BY <1>1, <1>6, <2>2, <3>1, StateSteps
  <2>3. QED
    BY <1>6, <2>1, <2>2, NodePages, OtherPages DEF SamePage
<1>7. QED
  BY <1>2, <1>3, <1>4, <1>5, <1>6, Steps

-----------------------------------------------------------------------------
(* The theorems *)

LEMMA InitIInv == Init => IInv
<1> SUFFICES ASSUME Init PROVE IInv
  OBVIOUS
<1>1. TypeOK
  <2>1. mustRestore \in [Devices -> BOOLEAN] /\ copy \in [Devices -> Copies \cup {None}]
    BY DEF Init
  <2>2. local \in [Devices -> 0..MaxState] /\ latest \in 1..MaxState
    BY HandoffAssumption DEF Init
  <2>3. QED
    BY <2>1, <2>2 DEF Init, TypeOK, Pages
<1>2. RowsOK /\ ConsumeOK /\ WaitOK /\ CopyOK
  BY DEF Init, RowsOK, ConsumeOK, WaitOK, CopyOK
<1>3. LeaseOK /\ StrictOK
  BY DEF Init, LeaseOK, StrictOK, Holding, NodeUp
<1>4. BootOK /\ ClaimOK /\ PageOK
  BY DEF Init, BootOK, ClaimOK, PageOK, NewestIs
<1>5. BoundOK /\ FirstOK /\ KeptOK
  BY DEF Init, BoundOK, FirstOK, KeptOK
<1>6. QED
  BY <1>1, <1>2, <1>3, <1>4, <1>5 DEF IInv, Basic, Custody

LEMMA StepIInv == IInv /\ [Next]_vars => IInv'
<1> SUFFICES ASSUME IInv, [Next]_vars PROVE IInv'
  OBVIOUS
<1> USE DEF IInv
<1>1. Basic'
  BY StepTypeOK, StepRows, StepConsumeOK, StepWaitOK, StepCopyOK DEF Basic
<1>2. LeaseOK'
  BY StepLeaseOK
<1>3. Mild' => Mild
  BY SameFaults DEF Mild
<1>4. Mild => Held
  BY DEF Custody, Held
<1>5. Custody'
  BY <1>3, <1>4, StepBootOK, StepClaimOK, StepPageOK, StepBoundOK, StepFirstOK, StepKeptOK DEF Custody
<1>6. StrictOK'
  <2>1. CASE faults = {}
    BY <1>4, <2>1, StepStrictOK DEF Mild
  <2>2. CASE faults # {}
    BY <2>2, SameFaults DEF StrictOK
  <2>3. QED
    BY <2>1, <2>2
<1>7. QED
  BY <1>1, <1>2, <1>5, <1>6

THEOREM Invariance == Spec => []IInv
BY InitIInv, StepIInv, PTL DEF Spec

(* The variables keep their types: generations and channel states stay within their bounds, a row of backups is *)
(* well formed whichever statement wrote it last. *)
THEOREM TypeCorrect == Spec => []TypeOK
<1>1. IInv => TypeOK
  BY DEF IInv, Basic
<1>2. QED
  BY <1>1, Invariance, PTL

(* At most one awake browser runs the account's node, unless a page is suspended past its lease: whatever else *)
(* fails, a page that runs a node holds the one row of the lease. *)
THEOREM OneNodeHolds == Spec => []OneNode
<1>1. IInv => OneNode
  BY OneHolder DEF IInv, OneNode, NodeUp, Holding
<1>2. QED
  BY <1>1, Invariance, PTL

(* Once the account has a channel its last state is never lost, through crashes, lost answers, leases and claims *)
(* that run out, suspended pages and channels that were not marked. *)
THEOREM StateIsKept == Spec => []StateKept
<1>1. IInv => StateKept
  <2> SUFFICES ASSUME IInv, Mild, hasOpened
               PROVE  \/ local[primary] = latest
                      \/ /\ backups # {} /\ Newest.ver = latest
                         /\ \/ ClaimedBy(primary)
                            \/ boot # None /\ boot.stage = "save" /\ ClaimedBy(boot.dev)
    BY DEF StateKept, Mild
  <2>1. KeptOK /\ ClaimOK /\ TypeOK /\ RowsOK
    BY DEF IInv, Custody, Basic
  <2>2. CASE Quiet \/ NewestIs("available")
    BY <2>1, <2>2 DEF KeptOK
  <2>3. CASE ~(Quiet \/ NewestIs("available"))
    <3>1. NewestIs("claimed")
      BY <2>1, <2>3, NewestRow DEF Quiet, NewestIs, TypeOK, Backups, Statuses
    <3>2. QED
      BY <2>1, <2>3, <3>1 DEF KeptOK, ClaimOK, ClaimedBy, NewestIs
  <2>4. QED
    BY <2>2, <2>3
<1>2. QED
  BY <1>1, Invariance, PTL

(* A node runs on the account's last channel state: it starts on databases that are not older than any other *)
(* device's, and no other device changes the channels while it runs. *)
THEOREM StartsOnLatestHolds == Spec => []StartsOnLatest
<1>1. IInv => StartsOnLatest
  <2> SUFFICES ASSUME IInv, faults = {}, NEW d \in Devices, NodeUp(d) PROVE local[d] = latest
    BY DEF StartsOnLatest
  <2>1. TypeOK /\ LeaseOK /\ StrictOK /\ KeptOK /\ PageOK /\ BoundOK /\ FirstOK
    BY DEF IInv, Basic, Custody, Mild
  <2>2. local[d] \in Nat /\ latest \in Nat /\ latest >= 1 /\ local[d] >= 1 /\ local[d] <= latest
    BY <2>1, HandoffAssumption DEF TypeOK, StrictOK, BoundOK
  <2>3. CASE latest = 1
    BY <2>2, <2>3
  <2>4. CASE hasOpened
    <3>1. latest # 1
      BY <2>1, <2>4 DEF KeptOK
    <3>2. primary = d
      BY <2>1, <3>1 DEF StrictOK, NodeUp
    <3>3. Quiet
      BY <2>1, <3>2 DEF PageOK, NodeUp
    <3>4. QED
      BY <2>1, <2>4, <3>2, <3>3 DEF KeptOK
  <2>5. CASE latest # 1 /\ ~hasOpened
    <3>1. PICK m \in Devices : pc[m] = "marking"
      BY <2>1, <2>2, <2>5 DEF StrictOK
    <3>2. m = d
      BY <2>1, <3>1, OneHolder DEF NodeUp, Holding
    <3>3. QED
      BY <2>1, <3>1, <3>2 DEF FirstOK
  <2>6. QED
    BY <2>3, <2>4, <2>5
<1>2. QED
  BY <1>1, Invariance, PTL

---------------------------------------------------------------------------
(***************************************************************************)
(* The recovery list and a rescue by one of its backups (BackupRescue):    *)
(* what the chain holds, what each node shows of it, what the action has   *)
(* read, emailed and signed, and, apart, what the rescue page shows.       *)
(***************************************************************************)

(* What is read of the chain is a view of it. *)
IsView(v) ==
    /\ v = [plain |-> v.plain, lists |-> v.lists, top |-> v.top, funds |-> v.funds]
    /\ v.plain \subseteq Nat /\ v.top \in Nat /\ \A c \in v.plain : c <= v.top
    /\ v.lists = [l \in DOMAIN v.lists |-> v.lists[l]]
    /\ \A l \in DOMAIN v.lists :
          /\ v.lists[l] = [lock |-> v.lists[l].lock, maker |-> v.lists[l].maker,
                           version |-> v.lists[l].version, members |-> v.lists[l].members]
          /\ v.lists[l].version \in Nat
ViewTypes ==
    /\ IsView(chain)
    /\ seen = [n \in Nodes |-> seen[n]] /\ \A n \in Nodes : IsView(seen[n])

(* The key has one list at most, and its identities are salted with its name. *)
OneListInv ==
    /\ \A l, k \in LiveLists(chain) : l = k
    /\ \A l \in LiveLists(chain) :
          /\ chain.lists[l].members # {}
          /\ \A a \in chain.lists[l].members : a.salt = l

(* Money with a list is with the key's one. *)
FundsInv == \A f \in chain.funds : f.list # Foreign => f.list \in LiveLists(chain)

(* A node is behind: it shows plain cells and versions the chain has had, and misses no old one. *)
ShowsPast(v) ==
    /\ v.top <= chain.top
    /\ \A c \in chain.plain : c <= v.top => c \in v.plain
    /\ LiveLists(v) \subseteq LiveLists(chain)
    /\ \A l \in LiveLists(v) :
          /\ v.lists[l].version <= chain.lists[l].version
          /\ v.lists[l].version = chain.lists[l].version => v.lists[l].members = chain.lists[l].members
    /\ LiveLists(chain) # {} /\ LiveLists(v) = {} =>
          ~(v.plain \subseteq chain.plain) \/ \A c \in chain.plain : c > v.top
NodesInv == \A n \in Nodes : ShowsPast(seen[n])

(* An enabling transaction. *)
EnableOK(tx) == tx.kind = "enable" /\ tx.ins # {} /\ tx.ins \subseteq Nat /\ \A c \in tx.ins : c <= chain.top

(* These are all the live plain cells that are not newer than the ones it spends. *)
Covers(cells, tx) == \A c \in chain.plain, d \in tx.ins : c <= d => c \in cells
Enables == {s \in pool : s.tx.kind = "enable"}
EnablesInv ==
    \A s \in Enables :
        /\ EnableOK(s.tx) /\ Covers(s.tx.ins, s.tx)
        /\ s.tx.members # {} /\ \A a \in s.tx.members : a.salt = s.tx.first
        /\ Confirmed(s.tx, s.email)
        /\ LiveLists(chain) # {} => ~(s.tx.ins \subseteq chain.plain)

ChangesInv ==
    \A s \in pool : s.tx.kind = "change" =>
        /\ s.tx.list \in LiveLists(chain)
        /\ s.tx.version <= chain.lists[s.tx.list].version /\ s.tx.version \in Nat
        /\ s.tx.version = chain.lists[s.tx.list].version => s.tx.before = chain.lists[s.tx.list].members
        /\ s.tx.after # {} /\ \A a \in s.tx.after : a.salt = s.tx.list
        /\ bound[s.tx.list] # Nothing => Confirmed(s.tx, bound[s.tx.list])
SendsInv ==
    /\ \A s \in pool : s.tx.kind \in {"enable", "change", "send", "rescue"}
    /\ \A s \in pool : s.tx.kind = "send" /\ s.tx.to # Nothing => s.tx.to \in LiveLists(chain)

(* What the action has read. *)
RunInv == run # Nothing =>
    /\ run = [mode |-> run.mode, tx |-> run.tx, email |-> run.email, node |-> run.node, plain |-> run.plain,
              misses |-> run.misses]
    /\ run.mode \in {"send-code", "transaction"} /\ run.node \in Nodes /\ EnableOK(run.tx)
    /\ run.plain \subseteq Nat /\ \A c \in run.plain : c <= chain.top
    /\ run.mode = "transaction" => Confirmed(run.tx, run.email)
    /\ ~run.misses =>
          /\ Covers(run.plain, run.tx)
          /\ LiveLists(chain) # {} /\ LiveLists(seen[run.node]) = {} =>
                ~(run.plain \union run.tx.ins \subseteq chain.plain)

MailInv == \A m \in mail : m.code = CodeOf(m.about, m.to)


ListInv ==
    /\ ViewTypes /\ OneListInv /\ FundsInv /\ NodesInv /\ EnablesInv /\ ChangesInv /\ SendsInv /\ RunInv /\ MailInv

IsPlan(p) == p # Nothing => "kind" \in DOMAIN p /\ p.kind = "rescue"
PageShape(p) ==
    p = [address |-> p.address, client |-> p.client, account |-> p.account, backup |-> p.backup, dest |-> p.dest,
         plan |-> p.plan, sent |-> p.sent, excluded |-> p.excluded]
PageInv ==
    /\ PageShape(page) /\ IsPlan(page.plan)
    /\ page.sent # Nothing /\ page.plan # Nothing => page.sent = page.plan
    /\ job # Nothing =>
          /\ job = [step |-> job.step, page |-> job.page, fresh |-> job.fresh]
          /\ page.sent = Nothing
          /\ job.step \in {"sign", "send"} =>
                /\ job.page.plan # Nothing /\ IsPlan(job.page.plan)
                /\ page.plan # Nothing => page.plan = job.page.plan

(* A function with one more entry has it, and its other ones as they were. *)
LEMMA WithAdds ==
    ASSUME NEW f, NEW x, NEW y, NEW g, g = With(f, x, y)
    PROVE  DOMAIN g = DOMAIN f \cup {x} /\ g[x] = y /\ \A z \in DOMAIN f : z # x => g[z] = f[z]
  BY DEF With

(* An enabling transaction spends plain cells that its caller is shown. *)
LEMMA EnablingTx ==
    ASSUME NEW view, view.plain \subseteq Nat, NEW tx \in Enabling(view)
    PROVE  tx.kind = "enable" /\ tx.ins # {} /\ tx.ins \subseteq view.plain
  BY DEF Enabling

(* A change is of a list that its caller is shown, as it is shown. *)
LEMMA ChangingTx ==
    ASSUME NEW view, NEW tx \in Changing(view)
    PROVE  /\ tx.kind = "change" /\ tx.list \in LiveLists(view) /\ tx.version = view.lists[tx.list].version
           /\ tx.before = view.lists[tx.list].members
  BY DEF Changing

(* What a caller builds to send is a send. *)
LEMMA SendingTx ==
    ASSUME NEW view, NEW tx \in Sending(view)
    PROVE  tx.kind = "send"
  BY DEF Sending

(* A plan with its approval is still a rescue. *)
LEMMA RescueTx ==
    ASSUME NEW account, NEW plan, "kind" \in DOMAIN plan, plan.kind = "rescue"
    PROVE  Approval(account, plan).kind = "rescue"
  BY DEF Approval, With

(* The chain moves on: a deposit, a payment or a rescue; plain cells only go, or are new. *)
PlainMoves ==
    /\ chain' = [plain |-> chain'.plain, lists |-> chain.lists, top |-> chain'.top, funds |-> chain'.funds]
    /\ chain'.lists = chain.lists
    /\ chain'.top \in Nat /\ chain.top <= chain'.top /\ chain'.plain \subseteq Nat
    /\ \A c \in chain'.plain : c <= chain'.top /\ (c <= chain.top => c \in chain.plain)

(* Deposits, payments and rescues take no list away, and no enabling transaction comes alive by them. *)
LEMMA ChainMovesOn ==
    ASSUME ListInv, PlainMoves, pool' \subseteq pool, UNCHANGED <<bound, seen, run, mail>>
    PROVE  ViewTypes' /\ OneListInv' /\ NodesInv' /\ EnablesInv' /\ ChangesInv' /\ SendsInv' /\ RunInv' /\ MailInv'
<1> USE DEF ListInv
<1>1. LiveLists(chain)' = LiveLists(chain)
  BY DEF PlainMoves, LiveLists
<1>2. ViewTypes'
  BY DEF PlainMoves, ViewTypes, IsView
<1>3. /\ chain.top \in Nat
      /\ \A n \in Nodes : seen[n].plain \subseteq Nat /\ seen[n].top \in Nat /\ \A c \in seen[n].plain : c <= seen[n].top
  BY DEF ViewTypes, IsView
<1>4. OneListInv'
  BY <1>1 DEF OneListInv, PlainMoves
<1>5. NodesInv'
  <2>1. \A n \in Nodes : \A c \in seen[n].plain : c <= chain.top
    BY <1>3 DEF NodesInv, ShowsPast
  <2> SUFFICES ASSUME NEW n \in Nodes PROVE ShowsPast(seen[n])'
    BY DEF NodesInv
  <2>2. ShowsPast(seen[n]) /\ seen'[n] = seen[n] /\ LiveLists(seen[n])' = LiveLists(seen[n])
    BY DEF NodesInv, LiveLists
  <2>3. seen[n].top <= chain'.top /\ \A c \in chain'.plain : c <= seen[n].top => c \in seen[n].plain
    BY <1>3, <2>2 DEF ShowsPast, PlainMoves
  <2>4. ~(seen[n].plain \subseteq chain.plain) => ~(seen[n].plain \subseteq chain'.plain)
    BY <2>1 DEF PlainMoves
  <2>5. (\A c \in chain.plain : c > seen[n].top) => \A c \in chain'.plain : c > seen[n].top
    BY <1>3, <2>2 DEF ShowsPast, PlainMoves
  <2>6. QED
    BY <1>1, <2>2, <2>3, <2>4, <2>5 DEF ShowsPast, PlainMoves
<1>6. \A s \in Enables : s.tx.ins \subseteq chain'.plain => s.tx.ins \subseteq chain.plain
  BY DEF EnablesInv, EnableOK, PlainMoves
<1>7. Enables' \subseteq Enables /\ \A tx, e : Confirmed(tx, e)' = Confirmed(tx, e)
  BY DEF Enables, Confirmed, CodeOf
<1>8. \A tx, cells : EnableOK(tx) => EnableOK(tx)' /\ (Covers(cells, tx) => Covers(cells, tx)')
  BY <1>3 DEF EnableOK, Covers, PlainMoves
<1>9. EnablesInv'
  BY <1>1, <1>6, <1>7, <1>8 DEF EnablesInv
<1>10. ChangesInv'
  BY <1>1, <1>7 DEF ChangesInv, PlainMoves
<1>11. SendsInv'
  BY <1>1 DEF SendsInv
<1>12. RunInv'
  <2>1. LiveLists(seen[run.node])' = LiveLists(seen[run.node])
    BY DEF LiveLists
  <2>2. run # Nothing /\ ~(run.plain \union run.tx.ins \subseteq chain.plain)
        => ~(run.plain \union run.tx.ins \subseteq chain'.plain)
    BY DEF RunInv, EnableOK, PlainMoves
  <2>3. run # Nothing => \A c \in run.plain : c <= chain'.top
    BY <1>3 DEF RunInv, PlainMoves
  <2>4. QED
    BY <1>1, <1>7, <1>8, <2>1, <2>2, <2>3 DEF RunInv
<1>13. MailInv'
  BY DEF MailInv, CodeOf
<1>14. QED
  BY <1>2, <1>4, <1>5, <1>9, <1>10, <1>11, <1>12, <1>13

(* What the invariant of the lists says is not about the page. *)
LEMMA ListsStay ==
    ASSUME ListInv, UNCHANGED <<chain, bound, seen, run, mail, pool>>
    PROVE  ListInv'
<1>1. LiveLists(chain)' = LiveLists(chain) /\ \A n : LiveLists(seen[n])' = LiveLists(seen[n])
  BY DEF LiveLists
<1>2. Enables' = Enables /\ \A tx, e : Confirmed(tx, e)' = Confirmed(tx, e)
  BY DEF Enables, Confirmed, CodeOf
<1>3. ViewTypes' /\ OneListInv' /\ FundsInv'
  BY <1>1 DEF ListInv, ViewTypes, IsView, OneListInv, FundsInv
<1>4. NodesInv'
  BY <1>1 DEF ListInv, NodesInv, ShowsPast
<1>5. EnablesInv' /\ RunInv'
  BY <1>1, <1>2 DEF ListInv, EnablesInv, RunInv, EnableOK, Covers
<1>6. ChangesInv' /\ SendsInv' /\ MailInv'
  BY <1>1, <1>2 DEF ListInv, ChangesInv, SendsInv, MailInv, CodeOf
<1>7. QED
  BY <1>3, <1>4, <1>5, <1>6 DEF ListInv

(* A deposit keeps the invariant: it goes to the old address or to the live list. *)
LEMMA DepositStep == ASSUME ListInv, Deposit PROVE ListInv'
<1>1. chain.top \in Nat /\ IsView(chain) /\ chain.top + 1 \in Nat
  BY DEF ListInv, ViewTypes, IsView
<1>2. UNCHANGED <<bound, seen, run, mail, pool>>
  BY DEF Deposit, litVars
<1>3. CASE chain' = [chain EXCEPT !.plain = @ \union {chain.top + 1}, !.top = @ + 1]
  <2>1. /\ chain'.plain = chain.plain \union {chain.top + 1} /\ chain'.top = chain.top + 1
        /\ chain'.lists = chain.lists /\ chain'.funds = chain.funds
        /\ chain' = [plain |-> chain'.plain, lists |-> chain.lists, top |-> chain'.top, funds |-> chain'.funds]
    BY <1>1, <1>3 DEF IsView
  <2>2. PlainMoves
    BY <1>1, <2>1 DEF PlainMoves, IsView
  <2>3. FundsInv'
    BY <2>1 DEF ListInv, FundsInv, LiveLists
  <2>4. QED
    BY <1>2, <2>2, <2>3, ChainMovesOn DEF ListInv
<1>4. ASSUME NEW l \in LiveLists(chain), NEW kind,
             chain' = [chain EXCEPT !.funds = @ \union {Fund(chain.top + 1, l, kind)}, !.top = @ + 1]
      PROVE  ListInv'
  <2>1. /\ chain'.plain = chain.plain /\ chain'.top = chain.top + 1
        /\ chain'.lists = chain.lists /\ chain'.funds = chain.funds \union {Fund(chain.top + 1, l, kind)}
        /\ chain' = [plain |-> chain'.plain, lists |-> chain.lists, top |-> chain'.top, funds |-> chain'.funds]
    BY <1>1, <1>4 DEF IsView
  <2>2. PlainMoves
    BY <1>1, <2>1 DEF PlainMoves, IsView
  <2>3. FundsInv'
    BY <2>1 DEF ListInv, FundsInv, LiveLists, Fund
  <2>4. QED
    BY <1>2, <2>2, <2>3, ChainMovesOn DEF ListInv
<1>5. QED
  BY <1>3, <1>4 DEF Deposit

(* A rescue that commits only spends. *)
LEMMA RescueCommits == ASSUME ListInv, NEW s \in pool, s.tx.kind = "rescue", Commit(s) PROVE ListInv'
<1>1. chain' = [chain EXCEPT !.funds = Spent(s.tx.ins)] /\ IsView(chain)
  BY DEF Commit, Effect, ListInv, ViewTypes
<1>2. /\ chain'.plain = chain.plain /\ chain'.top = chain.top /\ chain'.lists = chain.lists
      /\ chain'.funds = Spent(s.tx.ins)
      /\ chain' = [plain |-> chain'.plain, lists |-> chain.lists, top |-> chain'.top, funds |-> chain'.funds]
  BY <1>1 DEF IsView
<1>3. UNCHANGED <<bound, seen, run, mail>> /\ pool' \subseteq pool
  BY DEF Commit, litVars
<1>4. PlainMoves
  BY <1>1, <1>2 DEF PlainMoves, IsView
<1>5. FundsInv'
  BY <1>2 DEF ListInv, FundsInv, LiveLists, Spent
<1>6. QED
  BY <1>3, <1>4, <1>5, ChainMovesOn DEF ListInv

(* A payment that commits pays the one live list, or somebody else. *)
LEMMA SendCommits == ASSUME ListInv, NEW s \in pool, s.tx.kind = "send", Commit(s) PROVE ListInv'
<1> DEFINE paid == IF s.tx.to = Nothing THEN {} ELSE {Fund(chain.top + 1, s.tx.to, "plain")}
<1>1. /\ chain' = [chain EXCEPT !.plain = @ \ s.tx.ins, !.top = chain.top + 1, !.funds = Spent(s.tx.ins) \union paid]
      /\ IsView(chain)
  BY DEF Commit, Effect, ListInv, ViewTypes
<1>2. /\ chain'.plain = chain.plain \ s.tx.ins /\ chain'.top = chain.top + 1 /\ chain'.lists = chain.lists
      /\ chain'.funds = Spent(s.tx.ins) \union paid
      /\ chain' = [plain |-> chain'.plain, lists |-> chain.lists, top |-> chain'.top, funds |-> chain'.funds]
  <2> HIDE DEF paid
  <2>1. QED
    BY <1>1 DEF IsView
<1>3. UNCHANGED <<bound, seen, run, mail>> /\ pool' \subseteq pool
  BY DEF Commit, litVars
<1>4. PlainMoves
  BY <1>1, <1>2 DEF PlainMoves, IsView
<1>5. FundsInv'
  <2>1. s.tx.to # Nothing => s.tx.to \in LiveLists(chain)
    BY DEF ListInv, SendsInv
  <2>2. \A f \in chain'.funds : f \in chain.funds \/ (s.tx.to # Nothing /\ f.list = s.tx.to)
    BY <1>2 DEF Spent, Fund
  <2>3. LiveLists(chain)' = LiveLists(chain)
    BY <1>2 DEF LiveLists
  <2>4. QED
    BY <2>1, <2>2, <2>3 DEF ListInv, FundsInv
<1>6. QED
  BY <1>3, <1>4, <1>5, ChainMovesOn DEF ListInv

(* A change that commits replaces the list it was signed for by a nonempty one with its own salt. *)
LEMMA ChangeCommits == ASSUME ListInv, NEW s \in pool, s.tx.kind = "change", Commit(s) PROVE ListInv'
<1> DEFINE l == s.tx.list
<1>1. /\ chain' = [chain EXCEPT !.lists = With(chain.lists, l, Changed(chain.lists[l], s.tx.after))]
      /\ chain.lists[l].version = s.tx.version
  BY DEF Commit, Effect, Live
<1>2. /\ l \in LiveLists(chain) /\ IsView(chain) /\ s.tx.after # {} /\ \A a \in s.tx.after : a.salt = l
  BY DEF ListInv, ChangesInv, ViewTypes
<1>3. UNCHANGED <<bound, seen, run, mail>> /\ pool' \subseteq pool
  BY DEF Commit, litVars
<1> DEFINE r == chain.lists[l]
           lists == With(chain.lists, l, Changed(r, s.tx.after))
<1>4. /\ chain'.plain = chain.plain /\ chain'.top = chain.top /\ chain'.funds = chain.funds /\ chain'.lists = lists
      /\ chain' = [plain |-> chain'.plain, lists |-> chain'.lists, top |-> chain'.top, funds |-> chain'.funds]
  <2>1. chain' = [chain EXCEPT !.lists = lists]
    BY <1>1
  <2> HIDE DEF lists
  <2>2. QED
    BY <1>2, <2>1 DEF IsView
<1>5. /\ DOMAIN chain'.lists = DOMAIN chain.lists
      /\ \A k \in DOMAIN chain.lists : k # l => chain'.lists[k] = chain.lists[k]
      /\ chain'.lists[l] = [lock |-> r.lock, maker |-> r.maker, version |-> r.version + 1, members |-> s.tx.after]
      /\ chain'.lists = [k \in DOMAIN chain'.lists |-> chain'.lists[k]]
  <2>1. l \in DOMAIN chain.lists
    BY <1>2 DEF LiveLists
  <2>2. QED
    BY <1>4, <2>1 DEF With, Changed
<1>6. chain.lists[l].version \in Nat
  BY <1>2 DEF IsView, LiveLists
<1> HIDE DEF l, lists
<1>7. LiveLists(chain)' = LiveLists(chain)
  BY <1>5 DEF LiveLists
<1>8. /\ \A k \in LiveLists(chain) : k # l => chain'.lists[k] = chain.lists[k]
      /\ chain'.lists[l].version = chain.lists[l].version + 1 /\ chain'.lists[l].members = s.tx.after
      /\ chain.lists[l].version < chain'.lists[l].version
  BY <1>5, <1>6 DEF LiveLists
<1>9. Enables' \subseteq Enables /\ \A tx, e : Confirmed(tx, e)' = Confirmed(tx, e)
  BY <1>3 DEF Enables, Confirmed, CodeOf
<1>10. \A n : LiveLists(seen[n])' = LiveLists(seen[n])
  BY <1>3 DEF LiveLists
<1>11. ViewTypes'
  <2>1. ASSUME NEW k \in DOMAIN chain'.lists
        PROVE  /\ chain'.lists[k] = [lock |-> chain'.lists[k].lock, maker |-> chain'.lists[k].maker,
                                     version |-> chain'.lists[k].version, members |-> chain'.lists[k].members]
               /\ chain'.lists[k].version \in Nat
    <3>1. CASE k = l
      BY <1>5, <1>6, <3>1
    <3>2. CASE k # l
      BY <1>2, <1>5, <3>2 DEF IsView
    <3>3. QED
      BY <3>1, <3>2
  <2>2. IsView(chain')
    BY <1>2, <1>4, <1>5, <2>1 DEF IsView
  <2>3. QED
    BY <1>3, <2>2 DEF ListInv, ViewTypes, IsView
<1>12. OneListInv'
  BY <1>2, <1>7, <1>8 DEF ListInv, OneListInv
<1>13. FundsInv'
  BY <1>4, <1>7 DEF ListInv, FundsInv
<1>14. NodesInv'
  <2> SUFFICES ASSUME NEW n \in Nodes PROVE ShowsPast(seen[n])'
    BY DEF NodesInv
  <2>1. ShowsPast(seen[n]) /\ seen'[n] = seen[n] /\ IsView(seen[n])
    BY <1>3 DEF ListInv, NodesInv, ViewTypes
  <2>2. ASSUME NEW k \in LiveLists(seen[n])
        PROVE  /\ seen[n].lists[k].version <= chain'.lists[k].version
               /\ seen[n].lists[k].version = chain'.lists[k].version
                    => seen[n].lists[k].members = chain'.lists[k].members
    <3>1. seen[n].lists[k].version \in Nat /\ k \in LiveLists(chain)
      BY <2>1 DEF IsView, LiveLists, ShowsPast
    <3>2. seen[n].lists[k].version <= chain.lists[k].version
      BY <2>1 DEF ShowsPast
    <3>3. CASE k = l
      BY <1>6, <1>8, <3>1, <3>2, <3>3
    <3>4. CASE k # l
      BY <1>8, <2>1, <3>1, <3>4 DEF ShowsPast
    <3>5. QED
      BY <3>3, <3>4
  <2>3. QED
    BY <1>4, <1>7, <1>10, <2>1, <2>2 DEF ShowsPast
<1>15. EnablesInv' /\ RunInv'
  BY <1>3, <1>4, <1>7, <1>9, <1>10 DEF ListInv, EnablesInv, RunInv, EnableOK, Covers
<1>16. ChangesInv'
  <2> SUFFICES ASSUME NEW t \in pool, t.tx.kind = "change"
               PROVE  /\ t.tx.version <= chain'.lists[t.tx.list].version
                      /\ t.tx.version = chain'.lists[t.tx.list].version
                           => t.tx.before = chain'.lists[t.tx.list].members
    BY <1>3, <1>7, <1>9 DEF ListInv, ChangesInv
  <2>1. /\ t.tx.list \in LiveLists(chain) /\ t.tx.version <= chain.lists[t.tx.list].version /\ t.tx.version \in Nat
        /\ t.tx.version = chain.lists[t.tx.list].version => t.tx.before = chain.lists[t.tx.list].members
    BY DEF ListInv, ChangesInv
  <2>2. CASE t.tx.list = l
    BY <1>6, <1>8, <2>1, <2>2
  <2>3. CASE t.tx.list # l
    BY <1>8, <2>1, <2>3
  <2>4. QED
    BY <2>2, <2>3
<1>17. SendsInv' /\ MailInv'
  BY <1>3, <1>7 DEF ListInv, SendsInv, MailInv, CodeOf
<1>18. QED
  BY <1>11, <1>12, <1>13, <1>14, <1>15, <1>16, <1>17 DEF ListInv

(* An enabling transaction can commit only while the key has no list. *)
LEMMA EnableNeedsNone ==
    ASSUME ListInv, NEW s \in pool, s.tx.kind = "enable", Commit(s)
    PROVE  LiveLists(chain) = {} /\ s.tx.ins \subseteq chain.plain /\ s \in Enables
  BY DEF ListInv, EnablesInv, Enables, Commit, Live

(* Two enabling transactions that are both live spend a cell in common. *)
LEMMA EnablesConflict ==
    ASSUME ListInv, NEW s \in Enables, s.tx.ins \subseteq chain.plain,
           NEW tx, EnableOK(tx), NEW cells, Covers(cells, tx)
    PROVE  ~(cells \union tx.ins \subseteq chain.plain \ s.tx.ins)
<1>1. PICK c \in tx.ins, d \in s.tx.ins : c \in Nat /\ d \in Nat
  BY DEF ListInv, EnablesInv, EnableOK
<1>2. CASE c <= d
  BY <1>1, <1>2 DEF ListInv, EnablesInv, Covers
<1>3. CASE d <= c
  BY <1>1, <1>3 DEF Covers
<1>4. QED
  BY <1>1, <1>2, <1>3

(* The enabling transaction that commits spends a cell of every other one, so no other can follow. *)
LEMMA EnableCommits == ASSUME ListInv, NEW s \in pool, s.tx.kind = "enable", Commit(s) PROVE ListInv'
<1> DEFINE l == s.tx.first
           list == [lock |-> "ours", maker |-> "ours", version |-> 0, members |-> s.tx.members]
           lists == With(chain.lists, l, list)
           fund == Fund(chain.top + 1, l, "plain")
<1>1. LiveLists(chain) = {} /\ s.tx.ins \subseteq chain.plain /\ s \in Enables
  BY EnableNeedsNone
<1>2. /\ chain' = [chain EXCEPT !.plain = @ \ s.tx.ins, !.top = chain.top + 1, !.lists = lists,
                         !.funds = @ \union {fund}]
      /\ IsView(chain)
  BY DEF Commit, Effect, ListInv, ViewTypes
<1>3. UNCHANGED <<seen, run, mail>> /\ pool' \subseteq pool
  BY DEF Commit, litVars
<1>4. /\ chain'.plain = chain.plain \ s.tx.ins /\ chain'.top = chain.top + 1 /\ chain'.lists = lists
      /\ chain'.funds = chain.funds \union {fund}
      /\ chain' = [plain |-> chain'.plain, lists |-> chain'.lists, top |-> chain'.top, funds |-> chain'.funds]
  <2> HIDE DEF lists, fund
  <2>1. QED
    BY <1>2 DEF IsView
<1>5. /\ DOMAIN chain'.lists = DOMAIN chain.lists \union {l}
      /\ \A k \in DOMAIN chain.lists : k # l => chain'.lists[k] = chain.lists[k]
      /\ chain'.lists[l] = list
      /\ chain'.lists = [k \in DOMAIN chain'.lists |-> chain'.lists[k]]
  BY <1>4 DEF With
<1>6. fund.list = l
  BY DEF Fund
<1>7. list.lock = "ours" /\ list.maker = "ours" /\ list.version = 0 /\ list.members = s.tx.members
  OBVIOUS
<1> HIDE DEF l, list, lists, fund
<1>8. LiveLists(chain') = {l}
  BY <1>1, <1>5, <1>7 DEF LiveLists
<1>9. EnableOK(s.tx) /\ s.tx.members # {} /\ \A a \in s.tx.members : a.salt = l
  BY <1>1 DEF ListInv, EnablesInv, l
<1>10. Enables' \subseteq Enables /\ \A tx, e : Confirmed(tx, e)' = Confirmed(tx, e)
  BY <1>3 DEF Enables, Confirmed, CodeOf
<1>11. \A n : LiveLists(seen[n])' = LiveLists(seen[n])
  BY <1>3 DEF LiveLists
<1>12. ViewTypes'
  <2>1. IsView(chain')
    <3>1. chain'.plain \subseteq Nat /\ chain'.top \in Nat /\ \A c \in chain'.plain : c <= chain'.top
      BY <1>2, <1>4 DEF IsView
    <3>2. ASSUME NEW k \in DOMAIN chain'.lists
          PROVE  /\ chain'.lists[k] = [lock |-> chain'.lists[k].lock, maker |-> chain'.lists[k].maker,
                                       version |-> chain'.lists[k].version, members |-> chain'.lists[k].members]
                 /\ chain'.lists[k].version \in Nat
      <4>1. CASE k = l
        BY <1>5, <4>1 DEF list
      <4>2. CASE k # l
        BY <1>2, <1>5, <4>2 DEF IsView
      <4>3. QED
        BY <4>1, <4>2
    <3>3. QED
      BY <1>4, <1>5, <3>1, <3>2 DEF IsView
  <2>2. QED
    BY <1>3, <2>1 DEF ListInv, ViewTypes, IsView
<1>13. OneListInv'
  BY <1>5, <1>7, <1>8, <1>9 DEF OneListInv
<1>14. FundsInv'
  BY <1>1, <1>4, <1>6, <1>8 DEF ListInv, FundsInv
<1>15. NodesInv'
  <2> SUFFICES ASSUME NEW n \in Nodes PROVE ShowsPast(seen[n])'
    BY DEF NodesInv
  <2>1. ShowsPast(seen[n]) /\ seen'[n] = seen[n] /\ IsView(seen[n])
    BY <1>3 DEF ListInv, NodesInv, ViewTypes
  <2>2. LiveLists(seen[n]) = {}
    BY <1>1, <2>1 DEF ShowsPast
  <2>3. PICK d \in s.tx.ins : d \in Nat /\ d \in chain.plain /\ d \notin chain'.plain
    BY <1>1, <1>4, <1>9 DEF EnableOK
  <2>4. ~(seen[n].plain \subseteq chain'.plain) \/ \A c \in chain'.plain : c > seen[n].top
    <3>1. CASE d <= seen[n].top
      BY <2>1, <2>3, <3>1 DEF ShowsPast
    <3>2. CASE d > seen[n].top
      <4>1. \A c \in chain'.plain : c \in Nat /\ ~(c <= d)
        BY <1>1, <1>2, <1>4, <2>3 DEF ListInv, EnablesInv, Covers, IsView
      <4>2. QED
        BY <2>1, <2>3, <3>2, <4>1 DEF IsView
    <3>3. QED
      BY <2>1, <2>3, <3>1, <3>2 DEF IsView
  <2>5. seen[n].top <= chain'.top /\ \A c \in chain'.plain : c <= seen[n].top => c \in seen[n].plain
    BY <1>2, <1>4, <2>1 DEF ShowsPast, IsView
  <2>6. QED
    BY <1>11, <2>1, <2>2, <2>4, <2>5 DEF ShowsPast
<1>16. EnablesInv'
  <2>1. ASSUME NEW t \in Enables PROVE ~(t.tx.ins \subseteq chain'.plain)
    BY <1>1, <1>4, EnablesConflict DEF ListInv, EnablesInv
  <2>2. \A t \in Enables : EnableOK(t.tx)' /\ Covers(t.tx.ins, t.tx)'
    BY <1>2, <1>3, <1>4 DEF ListInv, EnablesInv, EnableOK, Covers, IsView
  <2>3. QED
    BY <1>10, <2>1, <2>2 DEF ListInv, EnablesInv
<1>17. ChangesInv' /\ SendsInv' /\ MailInv'
  BY <1>1, <1>3 DEF ListInv, ChangesInv, SendsInv, MailInv, CodeOf
<1>18. RunInv'
  <2>1. run # Nothing => EnableOK(run.tx)' /\ \A c \in run.plain : c <= chain'.top
    BY <1>2, <1>3, <1>4 DEF ListInv, RunInv, EnableOK, IsView
  <2>2. run # Nothing /\ ~run.misses
          => Covers(run.plain, run.tx)' /\ ~(run.plain \union run.tx.ins \subseteq chain'.plain)
    BY <1>1, <1>3, <1>4, EnablesConflict DEF ListInv, RunInv, Covers
  <2>3. QED
    BY <1>3, <1>10, <2>1, <2>2 DEF ListInv, RunInv
<1>19. QED
  BY <1>12, <1>13, <1>14, <1>15, <1>16, <1>17, <1>18 DEF ListInv

(* What a node shows is the chain, as it was: nothing the key has is shown before it is there. *)
LEMMA NodesShowThePast ==
    ASSUME ListInv, NEW n \in Nodes
    PROVE  /\ ShowsPast(seen[n]) /\ IsView(seen[n]) /\ IsView(chain)
           /\ \A c \in seen[n].plain : c \in Nat /\ c <= chain.top
  BY DEF ListInv, NodesInv, ShowsPast, ViewTypes, IsView

(* A node that catches up shows the chain, and a run on it sees no list go. *)
LEMMA CatchUpStep == ASSUME ListInv, NEW n \in Nodes, CatchUp(n) PROVE ListInv'
<1>1. UNCHANGED <<chain, bound, run, mail, pool>> /\ seen' = [seen EXCEPT ![n] = chain]
  BY DEF CatchUp, litVars
<1>2. /\ seen' = [k \in Nodes |-> seen'[k]] /\ seen'[n] = chain
      /\ \A k \in Nodes : k # n => seen'[k] = seen[k]
  BY <1>1 DEF ListInv, ViewTypes
<1>3. LiveLists(chain)' = LiveLists(chain) /\ IsView(chain) /\ IsView(chain)'
  BY <1>1 DEF LiveLists, ListInv, ViewTypes, IsView
<1>4. \A k \in Nodes : k # n => LiveLists(seen[k])' = LiveLists(seen[k])
  BY <1>2 DEF LiveLists
<1>5. LiveLists(seen[n])' = LiveLists(chain)
  BY <1>2 DEF LiveLists
<1>6. Enables' = Enables /\ \A tx, e : Confirmed(tx, e)' = Confirmed(tx, e)
  BY <1>1 DEF Enables, Confirmed, CodeOf
<1>7. ViewTypes'
  <2>1. ASSUME NEW k \in Nodes PROVE IsView(seen[k])'
    <3>1. CASE k = n
      BY <1>2, <1>3, <3>1 DEF IsView
    <3>2. CASE k # n
      BY <1>2, <3>2 DEF ListInv, ViewTypes, IsView
    <3>3. QED
      BY <3>1, <3>2
  <2>2. QED
    BY <1>2, <1>3, <2>1 DEF ViewTypes
<1>8. OneListInv' /\ FundsInv' /\ ChangesInv' /\ SendsInv' /\ MailInv'
  BY <1>1, <1>3, <1>6 DEF ListInv, OneListInv, FundsInv, ChangesInv, SendsInv, MailInv, CodeOf
<1>9. NodesInv'
  <2> SUFFICES ASSUME NEW k \in Nodes PROVE ShowsPast(seen[k])'
    BY DEF NodesInv
  <2>1. CASE k = n
    <3>1. \A l \in LiveLists(chain) : chain.lists[l].version <= chain.lists[l].version
      BY <1>3 DEF LiveLists, IsView
    <3>2. chain.top <= chain.top
      BY <1>3 DEF IsView
    <3>3. QED
      BY <1>1, <1>2, <1>3, <1>5, <2>1, <3>1, <3>2 DEF ShowsPast
  <2>2. CASE k # n
    BY <1>1, <1>2, <1>3, <1>4, <2>2 DEF ListInv, NodesInv, ShowsPast
  <2>3. QED
    BY <2>1, <2>2
<1>10. \A tx, cells : EnableOK(tx)' = EnableOK(tx) /\ Covers(cells, tx)' = Covers(cells, tx)
  BY <1>1 DEF EnableOK, Covers
<1>11. EnablesInv'
  BY <1>1, <1>3, <1>6, <1>10 DEF ListInv, EnablesInv
<1>12. RunInv'
  <2>1. run # Nothing /\ LiveLists(chain) # {} /\ LiveLists(seen[run.node])' = {} => LiveLists(seen[run.node]) = {}
    BY <1>1, <1>4, <1>5 DEF ListInv, RunInv
  <2>2. QED
    BY <1>1, <1>3, <1>6, <1>10, <2>1 DEF ListInv, RunInv
<1>13. QED
  BY <1>7, <1>8, <1>9, <1>11, <1>12 DEF ListInv

(* What a read of a node's plain cells tells the run. *)
LEMMA PlainRead ==
    ASSUME ListInv, NEW n \in Nodes, NEW tx, EnableOK(tx)
    PROVE  /\ seen[n].plain \subseteq Nat /\ \A c \in seen[n].plain : c <= chain.top
           /\ ~Misses(n, tx) =>
                /\ Covers(seen[n].plain, tx)
                /\ LiveLists(chain) # {} /\ LiveLists(seen[n]) = {} =>
                      ~(seen[n].plain \union tx.ins \subseteq chain.plain)
<1>1. /\ ShowsPast(seen[n]) /\ \A c \in seen[n].plain : c \in Nat /\ c <= chain.top
      /\ seen[n].top \in Nat /\ chain.plain \subseteq Nat
  BY NodesShowThePast DEF IsView
<1>2. ASSUME ~Misses(n, tx) PROVE \A d \in tx.ins : d \in Nat /\ d <= seen[n].top
  BY <1>1, <1>2 DEF Misses, EnableOK
<1>3. ASSUME ~Misses(n, tx) PROVE Covers(seen[n].plain, tx)
  BY <1>1, <1>2, <1>3 DEF ShowsPast, Covers
<1>4. ASSUME ~Misses(n, tx), LiveLists(chain) # {}, LiveLists(seen[n]) = {}
      PROVE  ~(seen[n].plain \union tx.ins \subseteq chain.plain)
  <2>1. PICK d \in tx.ins : d \in Nat /\ ~(d > seen[n].top)
    BY <1>1, <1>2, <1>4 DEF EnableOK
  <2>2. QED
    BY <1>1, <1>4, <2>1 DEF ShowsPast
<1>5. QED
  BY <1>1, <1>3, <1>4

(* A run of the action begins, or reads again. *)
LEMMA RunReads ==
    ASSUME ListInv, NEW n \in Nodes, UNCHANGED <<chain, bound, seen, mail, pool>>,
           NEW mode \in {"send-code", "transaction"}, NEW tx, EnableOK(tx), NEW e,
           mode = "transaction" => Confirmed(tx, e),
           run' = [mode |-> mode, tx |-> tx, email |-> e, node |-> n, plain |-> seen[n].plain,
                   misses |-> Misses(n, tx)]
    PROVE  ListInv'
<1>1. LiveLists(chain)' = LiveLists(chain) /\ \A k : LiveLists(seen[k])' = LiveLists(seen[k])
  BY DEF LiveLists
<1>2. Enables' = Enables /\ \A t, a : Confirmed(t, a)' = Confirmed(t, a)
  BY DEF Enables, Confirmed, CodeOf
<1>3. ViewTypes' /\ OneListInv' /\ FundsInv'
  BY <1>1 DEF ListInv, ViewTypes, IsView, OneListInv, FundsInv
<1>4. NodesInv'
  BY <1>1 DEF ListInv, NodesInv, ShowsPast
<1>5. EnablesInv' /\ EnableOK(tx)' /\ \A cells : Covers(cells, tx)' = Covers(cells, tx)
  BY <1>1, <1>2 DEF ListInv, EnablesInv, EnableOK, Covers
<1>6. ChangesInv' /\ SendsInv' /\ MailInv'
  BY <1>1, <1>2 DEF ListInv, ChangesInv, SendsInv, MailInv, CodeOf
<1>7. RunInv'
  <2>1. /\ run'.mode = mode /\ run'.tx = tx /\ run'.email = e /\ run'.node = n /\ run'.plain = seen[n].plain
        /\ run'.misses = Misses(n, tx)
        /\ run' = [mode |-> run'.mode, tx |-> run'.tx, email |-> run'.email, node |-> run'.node,
                   plain |-> run'.plain, misses |-> run'.misses]
    OBVIOUS
  <2>2. QED
    BY <1>1, <1>2, <1>5, <2>1, PlainRead DEF RunInv
<1>8. QED
  BY <1>3, <1>4, <1>5, <1>6, <1>7 DEF ListInv

(* A run begins with a transaction whose cells some node shows, and with its code if it is to be signed. *)
LEMMA BeginEnableStep == ASSUME ListInv, NEW n \in Nodes, BeginEnable(n) PROVE ListInv'
<1>1. PICK m \in Nodes, e \in Emails : \E tx \in Enabling(seen[m]), mode \in {"send-code", "transaction"} :
         /\ mode = "transaction" => Confirmed(tx, e)
         /\ run' = [mode |-> mode, tx |-> tx, email |-> e, node |-> n, plain |-> seen[n].plain,
                    misses |-> Misses(n, tx)]
  BY DEF BeginEnable
<1>2. PICK tx \in Enabling(seen[m]), mode \in {"send-code", "transaction"} :
         /\ mode = "transaction" => Confirmed(tx, e)
         /\ run' = [mode |-> mode, tx |-> tx, email |-> e, node |-> n, plain |-> seen[n].plain,
                    misses |-> Misses(n, tx)]
  BY <1>1
<1>3. seen[m].plain \subseteq Nat /\ \A c \in seen[m].plain : c <= chain.top
  BY NodesShowThePast
<1>4. tx.kind = "enable" /\ tx.ins # {} /\ tx.ins \subseteq seen[m].plain
  BY <1>3, EnablingTx
<1>5. EnableOK(tx)
  BY <1>3, <1>4 DEF EnableOK
<1>6. UNCHANGED <<chain, bound, seen, mail, pool>>
  BY DEF BeginEnable
<1>7. QED
  BY <1>2, <1>5, <1>6, RunReads

(* A run that moves to another node reads the plain cells again there. *)
LEMMA NodeFailsStep == ASSUME ListInv, NEW n \in Nodes, NodeFails(n) PROVE ListInv'
<1>1. run # Nothing /\ run' = [run EXCEPT !.node = n, !.plain = seen[n].plain, !.misses = Misses(n, run.tx)]
  BY DEF NodeFails
<1>2. /\ run = [mode |-> run.mode, tx |-> run.tx, email |-> run.email, node |-> run.node, plain |-> run.plain,
                misses |-> run.misses]
      /\ run.mode \in {"send-code", "transaction"} /\ EnableOK(run.tx)
      /\ run.mode = "transaction" => Confirmed(run.tx, run.email)
  BY <1>1 DEF ListInv, RunInv
<1>3. run' = [mode |-> run.mode, tx |-> run.tx, email |-> run.email, node |-> n, plain |-> seen[n].plain,
                misses |-> Misses(n, run.tx)]
  BY <1>1, <1>2
<1>4. UNCHANGED <<chain, bound, seen, mail, pool>>
  BY DEF NodeFails
<1>5. QED
  BY <1>2, <1>3, <1>4, RunReads

(* Something is signed, or emailed: the chain and what is shown of it stay. *)
LEMMA PoolGrows ==
    ASSUME ListInv, UNCHANGED <<chain, bound, seen, mail>>, RunInv', NEW s, pool' = pool \union {s},
           s.tx.kind \in {"change", "send", "rescue"},
           s.tx.kind = "send" /\ s.tx.to # Nothing => s.tx.to \in LiveLists(chain),
           s.tx.kind = "change" =>
                /\ s.tx.list \in LiveLists(chain)
                /\ s.tx.version <= chain.lists[s.tx.list].version /\ s.tx.version \in Nat
                /\ s.tx.version = chain.lists[s.tx.list].version => s.tx.before = chain.lists[s.tx.list].members
                /\ s.tx.after # {} /\ \A a \in s.tx.after : a.salt = s.tx.list
                /\ bound[s.tx.list] # Nothing => Confirmed(s.tx, bound[s.tx.list])
    PROVE  ListInv'
<1>1. LiveLists(chain)' = LiveLists(chain) /\ \A k : LiveLists(seen[k])' = LiveLists(seen[k])
  BY DEF LiveLists
<1>2. Enables' = Enables /\ \A t, a : Confirmed(t, a)' = Confirmed(t, a)
  BY DEF Enables, Confirmed, CodeOf
<1>3. ViewTypes' /\ OneListInv' /\ FundsInv' /\ MailInv'
  BY <1>1 DEF ListInv, ViewTypes, IsView, OneListInv, FundsInv, MailInv, CodeOf
<1>4. NodesInv'
  BY <1>1 DEF ListInv, NodesInv, ShowsPast
<1>5. EnablesInv'
  BY <1>1, <1>2 DEF ListInv, EnablesInv, EnableOK, Covers
<1>6. ChangesInv'
  BY <1>1, <1>2 DEF ListInv, ChangesInv
<1>7. SendsInv'
  BY <1>1 DEF ListInv, SendsInv
<1>8. QED
  BY <1>3, <1>4, <1>5, <1>6, <1>7 DEF ListInv

(* A code is emailed. *)
LEMMA MailGrows ==
    ASSUME ListInv, UNCHANGED <<chain, bound, seen, pool>>, run' \in {run, Nothing}, NEW tx, NEW e,
           mail' = mail \union {Emailed(tx, e)}
    PROVE  ListInv'
<1>1. LiveLists(chain)' = LiveLists(chain) /\ \A k : LiveLists(seen[k])' = LiveLists(seen[k])
  BY DEF LiveLists
<1>2. Enables' = Enables /\ \A t, a : Confirmed(t, a) => Confirmed(t, a)'
  BY DEF Enables, Confirmed, CodeOf
<1>3. ViewTypes' /\ OneListInv' /\ FundsInv'
  BY <1>1 DEF ListInv, ViewTypes, IsView, OneListInv, FundsInv
<1>4. NodesInv'
  BY <1>1 DEF ListInv, NodesInv, ShowsPast
<1>5. EnablesInv' /\ RunInv'
  BY <1>1, <1>2 DEF ListInv, EnablesInv, RunInv, EnableOK, Covers
<1>6. ChangesInv' /\ SendsInv'
  BY <1>1, <1>2 DEF ListInv, ChangesInv, SendsInv
<1>7. MailInv'
  BY DEF ListInv, MailInv, CodeOf, Emailed
<1>8. QED
  BY <1>3, <1>4, <1>5, <1>6, <1>7 DEF ListInv

(* What is signed spends every plain cell the run read, and so every one that is live and not newer *)
(* than what it spends; a run that was shown no list once there is one spends what is gone. *)
LEMMA EndEnableStep == ASSUME ListInv, ~missed', EndEnable PROVE ListInv'
<1> DEFINE tx == run.tx
           ok == /\ LiveLists(seen[run.node]) = {} /\ SpendsAllPlain(tx, run.plain)
                 /\ RecordHolds(tx.members) /\ Resolves(tx.members, tx.first)
<1>1. run # Nothing /\ run' = Nothing /\ UNCHANGED <<chain, bound, seen>> /\ RunInv /\ RunInv'
  BY DEF EndEnable, ListInv, RunInv
<1>2. CASE UNCHANGED <<mail, pool>>
  <2>1. LiveLists(chain)' = LiveLists(chain) /\ \A k : LiveLists(seen[k])' = LiveLists(seen[k])
    BY <1>1 DEF LiveLists
  <2>2. Enables' = Enables /\ \A t, a : Confirmed(t, a)' = Confirmed(t, a)
    BY <1>2 DEF Enables, Confirmed, CodeOf
  <2>3. ViewTypes' /\ OneListInv' /\ FundsInv'
    BY <1>1, <2>1 DEF ListInv, ViewTypes, IsView, OneListInv, FundsInv
  <2>4. NodesInv'
    BY <1>1, <2>1 DEF ListInv, NodesInv, ShowsPast
  <2>5. EnablesInv'
    BY <1>1, <2>1, <2>2 DEF ListInv, EnablesInv, EnableOK, Covers
  <2>6. ChangesInv' /\ SendsInv' /\ MailInv'
    BY <1>1, <1>2, <2>1, <2>2 DEF ListInv, ChangesInv, SendsInv, MailInv, CodeOf
  <2>7. QED
    BY <1>1, <2>3, <2>4, <2>5, <2>6 DEF ListInv
<1>3. CASE mail' = mail \union {Emailed(run.tx, run.email)} /\ UNCHANGED pool
  BY <1>1, <1>3, MailGrows
<1>4. CASE /\ ok /\ run.mode # "send-code" /\ pool' = pool \union {[tx |-> run.tx, email |-> run.email]}
           /\ missed' = (missed \/ run.misses) /\ UNCHANGED mail
  <2> DEFINE s == [tx |-> run.tx, email |-> run.email]
  <2>1. /\ EnableOK(tx) /\ Confirmed(tx, run.email) /\ run.plain \subseteq tx.ins
        /\ tx.members # {} /\ \A a \in tx.members : a.salt = tx.first
    BY <1>1, <1>4 DEF RunInv, SpendsAllPlain, RecordHolds, Resolves
  <2>2. Covers(tx.ins, tx) /\ (LiveLists(chain) # {} => ~(tx.ins \subseteq chain.plain))
    <3>1. ~run.misses
      BY <1>4
    <3>2. /\ Covers(run.plain, tx)
          /\ LiveLists(chain) # {} => ~(run.plain \union tx.ins \subseteq chain.plain)
      BY <1>1, <1>4, <3>1 DEF RunInv
    <3>3. QED
      BY <2>1, <3>2 DEF Covers
  <2>3. s.tx = tx /\ s.email = run.email /\ s.tx.kind = "enable"
    BY <2>1 DEF EnableOK
  <2> HIDE DEF s, tx, ok
  <2>4. LiveLists(chain)' = LiveLists(chain) /\ \A k : LiveLists(seen[k])' = LiveLists(seen[k])
    BY <1>1 DEF LiveLists
  <2>5. Enables' = Enables \union {s} /\ pool' = pool \union {s} /\ \A t, a : Confirmed(t, a)' = Confirmed(t, a)
    BY <1>4, <2>3 DEF Enables, Confirmed, CodeOf, s
  <2>6. ViewTypes' /\ OneListInv' /\ FundsInv'
    BY <1>1, <2>4 DEF ListInv, ViewTypes, IsView, OneListInv, FundsInv
  <2>7. NodesInv'
    BY <1>1, <2>4 DEF ListInv, NodesInv, ShowsPast
  <2>8. \A t, cells : EnableOK(t)' = EnableOK(t) /\ Covers(cells, t)' = Covers(cells, t)
    BY <1>1 DEF EnableOK, Covers
  <2>9. EnablesInv'
    <3>1. ASSUME NEW t \in Enables'
          PROVE  /\ EnableOK(t.tx) /\ Covers(t.tx.ins, t.tx) /\ t.tx.members # {}
                 /\ \A a \in t.tx.members : a.salt = t.tx.first
                 /\ Confirmed(t.tx, t.email) /\ (LiveLists(chain) # {} => ~(t.tx.ins \subseteq chain.plain))
      BY <2>1, <2>2, <2>3, <2>5 DEF ListInv, EnablesInv
    <3>2. QED
      BY <1>1, <2>4, <2>5, <2>8, <3>1 DEF EnablesInv
  <2>10. ChangesInv' /\ SendsInv' /\ MailInv'
    BY <1>1, <1>4, <2>3, <2>4, <2>5 DEF ListInv, ChangesInv, SendsInv, MailInv, CodeOf
  <2>11. QED
    BY <1>1, <2>6, <2>7, <2>9, <2>10 DEF ListInv
<1>5. QED
  BY <1>2, <1>3, <1>4 DEF EndEnable

(* A change is signed only with its own code, when the list has an email. *)
LEMMA ChangeStep == ASSUME ListInv, NEW n \in Nodes, Change(n) PROVE ListInv'
<1>1. PICK tx \in Changing(seen[n]) :
         /\ ChangesOne(tx)
         /\ \/ /\ ~Codeless(tx)
               /\ mail' = mail \union {Emailed(tx, bound[tx.list])} /\ UNCHANGED pool
            \/ /\ Codeless(tx) \/ Confirmed(tx, bound[tx.list])
               /\ pool' = pool \union {[tx |-> tx, email |-> Nothing]}
               /\ UNCHANGED mail
  BY DEF Change
<1>2. UNCHANGED <<chain, bound, seen, run>>
  BY DEF Change
<1>3. CASE mail' = mail \union {Emailed(tx, bound[tx.list])} /\ UNCHANGED pool
  BY <1>2, <1>3, MailGrows
<1>4. CASE /\ Codeless(tx) \/ Confirmed(tx, bound[tx.list])
           /\ pool' = pool \union {[tx |-> tx, email |-> Nothing]} /\ UNCHANGED mail
  <2> DEFINE s == [tx |-> tx, email |-> Nothing]
  <2>1. /\ tx.kind = "change" /\ tx.list \in LiveLists(seen[n]) /\ tx.version = seen[n].lists[tx.list].version
        /\ tx.before = seen[n].lists[tx.list].members
    BY ChangingTx
  <2>2. ShowsPast(seen[n]) /\ IsView(seen[n])
    BY NodesShowThePast
  <2>3. tx.version \in Nat
    BY <2>1, <2>2 DEF LiveLists, IsView
  <2>4. /\ tx.list \in LiveLists(chain) /\ tx.version <= chain.lists[tx.list].version
        /\ tx.version = chain.lists[tx.list].version => tx.before = chain.lists[tx.list].members
    BY <2>1, <2>2 DEF ShowsPast
  <2>5. tx.after # {} /\ \A a \in tx.after : a.salt = tx.list
    BY <1>1 DEF ChangesOne, RecordHolds, Resolves
  <2>6. bound[tx.list] # Nothing => Confirmed(tx, bound[tx.list])
    BY <1>4 DEF Codeless
  <2>7. s.tx = tx /\ pool' = pool \union {s}
    BY <1>4
  <2>8. RunInv'
    <3>1. Enables' = Enables /\ \A t, a : Confirmed(t, a)' = Confirmed(t, a)
      BY <1>4, <2>1, <2>7 DEF Enables, Confirmed, CodeOf
    <3>2. LiveLists(chain)' = LiveLists(chain) /\ \A k : LiveLists(seen[k])' = LiveLists(seen[k])
      BY <1>2 DEF LiveLists
    <3>3. QED
      BY <1>2, <3>1, <3>2 DEF ListInv, RunInv, EnableOK, Covers
  <2> HIDE DEF s
  <2>9. QED
    BY <1>2, <1>4, <2>1, <2>3, <2>4, <2>5, <2>6, <2>7, <2>8, PoolGrows
<1>5. QED
  BY <1>1, <1>3, <1>4

(* A run goes on reading the chain as it was, whatever else is signed meanwhile but an enabling transaction. *)
LEMMA RunIsUndisturbed ==
    ASSUME ListInv, UNCHANGED <<chain, bound, seen, run, mail>>, NEW s, pool' = pool \union {s},
           s.tx.kind # "enable"
    PROVE  RunInv'
<1>1. Enables' = Enables /\ \A t, a : Confirmed(t, a)' = Confirmed(t, a)
  BY DEF Enables, Confirmed, CodeOf
<1>2. LiveLists(chain)' = LiveLists(chain) /\ \A k : LiveLists(seen[k])' = LiveLists(seen[k])
  BY DEF LiveLists
<1>3. QED
  BY <1>1, <1>2 DEF ListInv, RunInv, EnableOK, Covers

(* A payment to a list is signed only when it is the one list shown, which is then the live one. *)
LEMMA SendStep == ASSUME ListInv, NEW n \in Nodes, Send(n) PROVE ListInv'
<1>1. PICK m \in Nodes : \E tx \in Sending(seen[m]) :
         /\ tx.to = Nothing \/ OwnAddress(seen[n], tx.to)
         /\ pool' = pool \union {[tx |-> tx, email |-> Nothing]}
  BY DEF Send
<1>2. PICK tx \in Sending(seen[m]) :
         /\ tx.to = Nothing \/ OwnAddress(seen[n], tx.to)
         /\ pool' = pool \union {[tx |-> tx, email |-> Nothing]}
  BY <1>1
<1>3. UNCHANGED <<chain, bound, seen, run, mail>>
  BY DEF Send
<1>4. tx.kind = "send"
  BY SendingTx
<1>5. tx.to # Nothing => tx.to \in LiveLists(chain)
  BY <1>2, NodesShowThePast DEF OwnAddress, ShowsPast
<1> DEFINE s == [tx |-> tx, email |-> Nothing]
<1>6. s.tx = tx /\ pool' = pool \union {s}
  BY <1>2
<1> HIDE DEF s
<1>7. RunInv'
  BY <1>3, <1>4, <1>6, RunIsUndisturbed
<1>8. QED
  BY <1>3, <1>4, <1>5, <1>6, <1>7, PoolGrows

(* The page adds a rescue to what is signed, and nothing else. *)
LEMMA SendRescueStep == ASSUME ListInv, PageInv, SendRescue PROVE ListInv'
<1>1. UNCHANGED <<chain, bound, seen, run, mail>>
  BY DEF SendRescue, Rest, litVars
<1>2. CASE UNCHANGED pool
  BY <1>1, <1>2, ListsStay
<1>3. CASE pool' = pool \union {[tx |-> Approval(job.page.account, job.page.plan), email |-> Nothing]}
  <2> DEFINE tx == Approval(job.page.account, job.page.plan)
             s == [tx |-> tx, email |-> Nothing]
  <2>1. job # Nothing /\ job.step = "send"
    BY DEF SendRescue
  <2>2. "kind" \in DOMAIN job.page.plan /\ job.page.plan.kind = "rescue"
    BY <2>1 DEF PageInv, IsPlan
  <2>3. tx.kind = "rescue"
    BY <2>2, RescueTx
  <2>4. s.tx.kind = "rescue" /\ pool' = pool \union {s}
    BY <1>3, <2>3
  <2> HIDE DEF s, tx
  <2>5. RunInv'
    BY <1>1, <2>4, RunIsUndisturbed
  <2>6. QED
    BY <1>1, <2>4, <2>5, PoolGrows
<1>4. QED
  BY <1>2, <1>3 DEF SendRescue

(* What the chain, Lit and the nodes do leaves the page alone. *)
LEMMA PageStays == ASSUME PageInv, UNCHANGED pageVars PROVE PageInv'
  BY DEF PageInv, PageShape, IsPlan, pageVars

(* None of these steps is of the page. *)
LEMMA LiterActions ==
    ASSUME \/ \E n \in Nodes : BeginEnable(n) \/ NodeFails(n) \/ Change(n) \/ Send(n) \/ CatchUp(n)
           \/ EndEnable \/ Deposit \/ \E s \in pool : Commit(s)
    PROVE  UNCHANGED <<page, job>>
  BY DEF BeginEnable, NodeFails, Change, Send, CatchUp, EndEnable, Deposit, Commit, pageVars

PageActions ==
    \/ \E n \in Nodes : LookUp(n)
    \/ \E a \in DOMAIN chain.lists : TypeAddress(a)
    \/ \E d \in Places : TypePlace(d)
    \/ SwitchNetwork \/ LookedUp \/ Connect \/ (\E b \in BackupIds : Connected(b)) \/ Review \/ ReadAgain \/ Plan
    \/ Sign \/ Approve \/ Refuse

(* No step of the page but sending touches the chain, the nodes, the action or what is signed. *)
LEMMA PageLeavesTheLists == ASSUME PageActions PROVE UNCHANGED <<chain, bound, seen, run, mail, pool>>
  BY DEF PageActions, LookUp, TypeAddress, TypePlace, SwitchNetwork, LookedUp, Connect, Connected, Review,
     ReadAgain, Plan, Sign, Approve, Refuse, Rest, litVars

(* The page as it was read with a rescue that it shows, and that is all it keeps of a rescue. *)
Shows(p) == PageShape(p) /\ IsPlan(p.plan)

(* A page that is cleared shows no rescue and none sent. *)
LEMMA ClearedPage ==
    ASSUME NEW p, Shows(p), NEW from, NEW q, q = Cleared(p, from)
    PROVE  Shows(q) /\ q.plan = Nothing /\ q.sent = Nothing /\ q.address = p.address
  BY DEF Shows, PageShape, IsPlan, Cleared

(* Another address is typed. *)
LEMMA TypeAddressPage == ASSUME PageInv, NEW a, TypeAddress(a) PROVE PageInv'
<1>1. page' = [page EXCEPT !.address = a] /\ job' = job
  BY DEF TypeAddress, Page
<1>2. PageShape(page') /\ page'.plan = page.plan /\ page'.sent = page.sent
  BY <1>1 DEF PageInv, PageShape
<1>3. QED
  BY <1>1, <1>2 DEF PageInv, PageShape, IsPlan

(* Another place is typed: the rescue shown goes, and no other one comes. *)
LEMMA TypePlacePage == ASSUME PageInv, NEW d, TypePlace(d) PROVE PageInv'
<1>1. page' = [page EXCEPT !.dest = d, !.plan = Nothing] /\ job' = job
  BY DEF TypePlace, Page
<1>2. PageShape(page') /\ page'.plan = Nothing /\ page'.sent = page.sent
  BY <1>1 DEF PageInv, PageShape
<1>3. QED
  BY <1>1, <1>2 DEF PageInv, PageShape, IsPlan

(* The network is switched: neither the rescue nor what was sent is shown any more. *)
LEMMA SwitchNetworkPage == ASSUME PageInv, SwitchNetwork PROVE PageInv'
<1>1. page' = Cleared(page, "account") /\ job' = job /\ Shows(page)
  BY DEF SwitchNetwork, Page, PageInv, Shows
<1>2. Shows(page') /\ page'.plan = Nothing /\ page'.sent = Nothing
  BY <1>1, ClearedPage
<1>3. QED
  BY <1>1, <1>2 DEF PageInv, PageShape, IsPlan, Shows

(* A task begins: the page forgets what was sent, and the rescue shown unless it is signed. *)
LEMMA TaskBegins ==
    ASSUME PageInv, NEW step, step \notin {"sign", "send"}, NEW from, page' = Cleared(page, from), NEW p,
           job' = [step |-> step, page |-> p, fresh |-> Nothing]
    PROVE  PageInv'
<1>1. Shows(page') /\ page'.plan = Nothing /\ page'.sent = Nothing
  BY ClearedPage DEF PageInv, Shows
<1>2. job'.step = step /\ job' = [step |-> job'.step, page |-> job'.page, fresh |-> job'.fresh]
  OBVIOUS
<1>3. QED
  BY <1>1, <1>2 DEF PageInv, PageShape, IsPlan, Shows

(* An account is looked up. *)
LEMMA LookUpPage == ASSUME PageInv, NEW n, LookUp(n) PROVE PageInv'
  BY TaskBegins DEF LookUp, Page

(* A backup connects. *)
LEMMA ConnectPage == ASSUME PageInv, Connect PROVE PageInv'
  BY TaskBegins DEF Connect, Page, Start

(* A rescue is reviewed. *)
LEMMA ReviewPage == ASSUME PageInv, Review PROVE PageInv'
  BY TaskBegins DEF Review, Page, Start

(* A task ends that has not sent anything: what the page shows of a rescue stays, or is a new one. *)
LEMMA TaskEnds ==
    ASSUME PageInv, job # Nothing, job' = Nothing, PageShape(page'), page'.sent = page.sent, IsPlan(page'.plan)
    PROVE  PageInv'
  BY DEF PageInv, PageShape, IsPlan

(* The account was found, or was not. *)
LEMMA LookedUpPage == ASSUME PageInv, LookedUp PROVE PageInv'
<1>1. job # Nothing /\ job' = Nothing
  BY DEF LookedUp, Done
<1>2. PageShape(page') /\ page'.sent = page.sent /\ page'.plan = page.plan
  BY DEF LookedUp, Page, PageInv, PageShape
<1>3. QED
  BY <1>1, <1>2, TaskEnds DEF PageInv

(* The wallet connected. *)
LEMMA ConnectedPage == ASSUME PageInv, NEW b, Connected(b) PROVE PageInv'
<1>1. job # Nothing /\ job' = Nothing
  BY DEF Connected, Done
<1>2. PageShape(page') /\ page'.sent = page.sent /\ page'.plan = page.plan
  BY DEF Connected, Page, PageInv, PageShape
<1>3. QED
  BY <1>1, <1>2, TaskEnds DEF PageInv

(* The rescue is shown, unless it was refused. *)
LEMMA PlanPage == ASSUME PageInv, Plan PROVE PageInv'
<1> DEFINE plan == Planned(job.fresh, job.page.backup, job.page.dest)
<1>1. job # Nothing /\ job' = Nothing
  BY DEF Plan, Done
<1>2. plan # Nothing => "kind" \in DOMAIN plan /\ plan.kind = "rescue"
  BY DEF Planned
<1> HIDE DEF plan
<1>3. page' = IF plan = Nothing THEN page ELSE [page EXCEPT !.plan = plan]
  BY DEF Plan, Page, plan
<1>4. PageShape(page') /\ page'.sent = page.sent /\ page'.plan \in {page.plan, plan}
  BY <1>3 DEF PageInv, PageShape
<1>5. IsPlan(page'.plan)
  BY <1>2, <1>4 DEF PageInv, IsPlan
<1>6. QED
  BY <1>1, <1>4, <1>5, TaskEnds

(* The account is read again before the rescue is built. *)
LEMMA ReadAgainPage == ASSUME PageInv, ReadAgain PROVE PageInv'
<1> DEFINE found == Opened(job.page.client, job.page.address, job.page.excluded)
<1>1. job # Nothing
  BY DEF ReadAgain
<1>2. CASE job' = Nothing /\ page' = page
  BY <1>1, <1>2, TaskEnds DEF PageInv
<1>3. ASSUME \/ page' = [page EXCEPT !.account = found]
             \/ page' = [page EXCEPT !.account = found, !.excluded = job.page.excluded],
             job' = [job EXCEPT !.step = "plan", !.fresh = found]
      PROVE  PageInv'
  <2> HIDE DEF found
  <2>1. PageShape(page') /\ page'.sent = page.sent /\ page'.plan = page.plan
    BY <1>3 DEF PageInv, PageShape
  <2>2. job' = [step |-> job'.step, page |-> job'.page, fresh |-> job'.fresh] /\ job'.step = "plan"
    BY <1>1, <1>3 DEF PageInv
  <2>3. QED
    BY <1>1, <2>1, <2>2 DEF PageInv, PageShape, IsPlan
<1>4. QED
  BY <1>2, <1>3 DEF ReadAgain, Page, Continue, Done

(* The signature is asked for the rescue that is shown, with none sent. *)
LEMMA SignPage == ASSUME PageInv, Sign PROVE PageInv'
<1>1. page' = page /\ page.plan # Nothing /\ page.sent = Nothing
  BY DEF Sign
<1>2. CASE job' = job
  BY <1>1, <1>2, PageStays DEF PageInv, PageShape, IsPlan
<1>3. CASE job' = [step |-> "sign", page |-> page, fresh |-> Nothing]
  BY <1>1, <1>3 DEF PageInv, PageShape, IsPlan
<1>4. QED
  BY <1>2, <1>3 DEF Sign, Start

(* The user approves: the task goes on with the rescue it began with. *)
LEMMA ApprovePage == ASSUME PageInv, Approve PROVE PageInv'
<1>1. page' = page /\ job # Nothing /\ job.step = "sign"
  BY DEF Approve
<1>2. CASE job' = Nothing
  BY <1>1, <1>2, TaskEnds DEF PageInv
<1>3. CASE job' = [job EXCEPT !.step = "send", !.fresh = Nothing]
  <2>1. job' = [step |-> "send", page |-> job.page, fresh |-> Nothing]
    BY <1>1, <1>3 DEF PageInv
  <2>2. QED
    BY <1>1, <2>1 DEF PageInv, PageShape, IsPlan
<1>4. QED
  BY <1>2, <1>3 DEF Approve, Continue, Done

(* The user refuses. *)
LEMMA RefusePage == ASSUME PageInv, Refuse PROVE PageInv'
  BY TaskEnds DEF Refuse, Done, PageInv

(* The rescue is sent, left or built again; nothing else of a rescue was shown meanwhile. *)
LEMMA SendRescuePage == ASSUME PageInv, SendRescue PROVE PageInv'
<1>1. job # Nothing /\ job.step = "send"
  BY DEF SendRescue
<1>2. CASE job' = Nothing /\ page' = page
  BY <1>1, <1>2, TaskEnds DEF PageInv
<1>3. ASSUME NEW f, job' = [job EXCEPT !.step = "blocked", !.page.excluded = @ \union {f}], page' = page
      PROVE  PageInv'
  <2>1. job' = [step |-> job'.step, page |-> job'.page, fresh |-> job'.fresh] /\ job'.step = "blocked"
    BY <1>1, <1>3 DEF PageInv
  <2>2. QED
    BY <1>1, <1>3, <2>1 DEF PageInv, PageShape, IsPlan
<1>4. CASE job' = Nothing /\ page' = [page EXCEPT !.sent = job.page.plan]
  <2>1. PageShape(page') /\ page'.sent = job.page.plan /\ page'.plan = page.plan
    BY <1>4 DEF PageInv, PageShape
  <2>2. QED
    BY <1>1, <1>4, <2>1 DEF PageInv, PageShape, IsPlan
<1>5. QED
  BY <1>2, <1>3, <1>4 DEF SendRescue, Page, Done

(* Every step of the page but sending keeps what it shows. *)
LEMMA PageActionsPage == ASSUME PageInv, PageActions PROVE PageInv'
  BY LookUpPage, TypeAddressPage, TypePlacePage, SwitchNetworkPage, LookedUpPage, ConnectPage, ConnectedPage,
     ReviewPage, ReadAgainPage, PlanPage, SignPage, ApprovePage, RefusePage DEF PageActions

(* Every step keeps what the page shows. *)
LEMMA PageStep == ASSUME PageInv, [RescueNext]_rescueVars PROVE PageInv'
<1>1. CASE UNCHANGED rescueVars
  BY <1>1, PageStays DEF rescueVars
<1>2. CASE PageActions
  BY <1>2, PageActionsPage
<1>3. CASE SendRescue
  BY <1>3, SendRescuePage
<1>4. CASE \/ \E n \in Nodes : BeginEnable(n) \/ NodeFails(n) \/ Change(n) \/ Send(n) \/ CatchUp(n)
           \/ EndEnable \/ Deposit \/ \E s \in pool : Commit(s)
  <2>1. UNCHANGED <<page, job>>
    BY <1>4, LiterActions
  <2>2. QED
    BY <2>1 DEF PageInv, PageShape, IsPlan
<1>5. QED
  BY <1>1, <1>2, <1>3, <1>4 DEF RescueNext, PageActions

(* The page starts with nothing shown. *)
LEMMA PageStarts == ASSUME RescueInit PROVE PageInv
<1>1. PICK a \in DOMAIN chain.lists \ {Stray} :
         page = [address |-> a, client |-> Nothing, account |-> Nothing, backup |-> Nothing, dest |-> Nothing,
                 plan |-> Nothing, sent |-> Nothing, excluded |-> {}]
  BY DEF RescueInit
<1>2. job = Nothing
  BY DEF RescueInit
<1>3. QED
  BY <1>1, <1>2 DEF PageInv, PageShape, IsPlan

(* Whatever commits keeps the invariant. *)
LEMMA CommitStep == ASSUME ListInv, NEW s \in pool, Commit(s) PROVE ListInv'
<1>1. s.tx.kind \in {"enable", "change", "send", "rescue"}
  BY DEF ListInv, SendsInv
<1>2. QED
  BY <1>1, EnableCommits, ChangeCommits, SendCommits, RescueCommits

(* Every step keeps the invariant of the lists, as long as nothing is signed by a node behind it. *)
LEMMA ListStep == ASSUME ListInv, PageInv, ~missed', [RescueNext]_rescueVars PROVE ListInv'
<1>1. CASE UNCHANGED rescueVars
  BY <1>1, ListsStay DEF rescueVars, litVars
<1>2. CASE PageActions
  BY <1>2, PageLeavesTheLists, ListsStay
<1>3. CASE SendRescue
  BY <1>3, SendRescueStep
<1>4. CASE \/ \E n \in Nodes : BeginEnable(n) \/ NodeFails(n) \/ Change(n) \/ Send(n) \/ CatchUp(n)
           \/ EndEnable \/ Deposit \/ \E s \in pool : Commit(s)
  BY <1>4, BeginEnableStep, NodeFailsStep, ChangeStep, SendStep, CatchUpStep, EndEnableStep, DepositStep,
     CommitStep
<1>5. QED
  BY <1>1, <1>2, <1>3, <1>4 DEF RescueNext, PageActions

(* What was signed by a node behind it stays so. *)
LEMMA MissedStays == ASSUME [RescueNext]_rescueVars, missed PROVE missed'
<1>1. CASE EndEnable
  BY <1>1 DEF EndEnable
<1>2. CASE UNCHANGED missed
  BY <1>2
<1>3. CASE PageActions \/ SendRescue
  BY <1>3 DEF PageActions, LookUp, TypeAddress, TypePlace, SwitchNetwork, LookedUp, Connect, Connected, Review,
     ReadAgain, Plan, Sign, Approve, Refuse, SendRescue, Rest, litVars
<1>4. CASE \/ \E n \in Nodes : BeginEnable(n) \/ NodeFails(n) \/ Change(n) \/ Send(n) \/ CatchUp(n)
           \/ Deposit \/ \E s \in pool : Commit(s)
  BY <1>4 DEF BeginEnable, NodeFails, Change, Send, CatchUp, Deposit, Commit, litVars
<1>5. QED
  BY <1>1, <1>2, <1>3, <1>4 DEF RescueNext, PageActions, rescueVars, litVars

(* A chain with one good list or none, with nothing signed or emailed, satisfies the invariant. *)
LEMMA StartIsEmpty ==
    ASSUME NEW v, seen = [n \in Nodes |-> chain], chain = v, IsView(v), run = Nothing, mail = {}, pool = {},
           \A l, k \in LiveLists(v) : l = k,
           \A l \in LiveLists(v) : v.lists[l].members # {} /\ \A a \in v.lists[l].members : a.salt = l,
           \A f \in v.funds : f.list # Foreign => f.list \in LiveLists(v)
    PROVE  ListInv
<1>1. ViewTypes /\ OneListInv /\ FundsInv
  BY DEF ViewTypes, OneListInv, FundsInv
<1>2. \A l \in LiveLists(v) : v.lists[l].version \in Nat
  BY DEF IsView, LiveLists
<1>3. NodesInv
  <2>1. v.top <= v.top /\ \A l \in LiveLists(v) : v.lists[l].version <= v.lists[l].version
    BY <1>2 DEF IsView
  <2>2. QED
    BY <2>1 DEF NodesInv, ShowsPast
<1>4. EnablesInv /\ ChangesInv /\ SendsInv /\ RunInv /\ MailInv
  BY DEF EnablesInv, Enables, ChangesInv, SendsInv, RunInv, MailInv
<1>5. QED
  BY <1>1, <1>3, <1>4 DEF ListInv

(* The two lists that are there at the start are not of the key. *)
LEMMA OthersAreNotLive ==
    /\ DOMAIN OtherLists = Both /\ OtherLists = [l \in DOMAIN OtherLists |-> OtherLists[l]]
    /\ \A l \in Both :
          /\ OtherLists[l] = [lock |-> OtherLists[l].lock, maker |-> OtherLists[l].maker,
                              version |-> OtherLists[l].version, members |-> OtherLists[l].members]
          /\ OtherLists[l].version = 0 /\ OtherLists[l].maker = "theirs"
  BY DEF OtherLists

(* Both kinds of start satisfy the invariant. *)
LEMMA ListsStart == ASSUME RescueInit PROVE ListInv
<1>1. Max(Old) \in Nat /\ Old \subseteq 1 .. Max(Old)
  BY BackupRescueAssumption
<1>2. seen = [n \in Nodes |-> chain] /\ run = Nothing /\ mail = {} /\ pool = {}
  BY DEF RescueInit
<1> DEFINE top == Max(Old)
<1> HIDE DEF top
<1>3. top \in Nat /\ \A c \in Old : c \in Nat /\ c <= top
  BY <1>1 DEF top
<1>4. ASSUME NEW old \in {Old, {}},
             chain = [plain |-> old, lists |-> OtherLists, top |-> top, funds |-> {Fund(0, Foreign, "plain")}]
      PROVE  ListInv
  <2>1. IsView(chain)
    BY <1>3, <1>4, OthersAreNotLive DEF IsView
  <2>2. LiveLists(chain) = {}
    <3>1. chain.lists = OtherLists
      BY <1>4
    <3>2. QED
      BY <3>1, OthersAreNotLive DEF LiveLists
  <2>3. \A f \in chain.funds : f.list = Foreign
    BY <1>4 DEF Fund
  <2>4. QED
    BY <1>2, <2>1, <2>2, <2>3, StartIsEmpty
<1>5. ASSUME NEW l \in Old, NEW who \in (SUBSET BackupIds) \ {{}}, NEW list,
             list = [lock |-> "ours", maker |-> "ours", version |-> 0, members |-> {Auth(b, l) : b \in who}],
             chain = [plain |-> {}, lists |-> With(OtherLists, l, list), top |-> top + 1,
                      funds |-> {Fund(0, Foreign, "plain"), Fund(top + 1, l, "plain")}]
      PROVE  ListInv
  <2> DEFINE lists == With(OtherLists, l, list)
  <2>1. /\ DOMAIN lists = Both \union {l} /\ lists[l] = list /\ lists = [k \in DOMAIN lists |-> lists[k]]
        /\ \A k \in Both : k # l => lists[k] = OtherLists[k]
    BY OthersAreNotLive DEF With
  <2>2. /\ list.lock = "ours" /\ list.maker = "ours" /\ list.version = 0 /\ list.members # {}
        /\ \A a \in list.members : a.salt = l
    <3> DEFINE members == {Auth(b, l) : b \in who}
    <3>1. \E b : b \in who
      OBVIOUS
    <3>2. \A a \in members : a.salt = l
      BY DEF Auth
    <3>3. members # {}
      BY <3>1
    <3> HIDE DEF members
    <3>4. list = [lock |-> "ours", maker |-> "ours", version |-> 0, members |-> members]
      BY <1>5 DEF members
    <3>5. QED
      BY <3>2, <3>3, <3>4
  <2>3. /\ chain.plain = {} /\ chain.lists = lists /\ chain.top = top + 1
        /\ \A f \in chain.funds : f.list \in {Foreign, l}
        /\ chain = [plain |-> chain.plain, lists |-> chain.lists, top |-> chain.top, funds |-> chain.funds]
    BY <1>5 DEF Fund
  <2> HIDE DEF lists
  <2>4. ASSUME NEW k \in DOMAIN lists
        PROVE  /\ lists[k] = [lock |-> lists[k].lock, maker |-> lists[k].maker, version |-> lists[k].version,
                              members |-> lists[k].members]
               /\ lists[k].version \in Nat
    <3>1. CASE k = l
      BY <1>5, <2>1, <3>1
    <3>2. CASE k # l
      BY <2>1, <3>2, OthersAreNotLive
    <3>3. QED
      BY <3>1, <3>2
  <2>5. IsView(chain)
    <3>1. top + 1 \in Nat
      BY <1>3
    <3>2. QED
      BY <2>1, <2>3, <2>4, <3>1 DEF IsView
  <2>6. LiveLists(chain) = {l}
    BY <2>1, <2>2, <2>3, OthersAreNotLive DEF LiveLists
  <2>7. QED
    BY <1>2, <2>1, <2>2, <2>3, <2>5, <2>6, StartIsEmpty
<1>6. QED
  BY <1>4, <1>5 DEF RescueInit, top

RescueInv == (~missed => ListInv) /\ PageInv

(* Whatever is typed, switched and connected while a rescue is built, signed and sent: what the page *)
(* says was sent is the rescue it shows (run and reset in app/rescue/rescue-view.tsx).              *)
THEOREM SentRescueIsShown == RescueSpec => []SentIsShown
<1>1. RescueInit => PageInv
  BY PageStarts
<1>2. PageInv /\ [RescueNext]_rescueVars => PageInv'
  BY PageStep
<1>3. PageInv => SentIsShown
  BY DEF PageInv, SentIsShown
<1>4. QED
  BY <1>1, <1>2, <1>3, PTL DEF RescueSpec

(* The invariant holds in every state. *)
LEMMA RescueInvariant == RescueSpec => []RescueInv
<1>1. RescueInit => RescueInv
  BY PageStarts, ListsStart DEF RescueInv
<1>2. ASSUME RescueInv, [RescueNext]_rescueVars PROVE RescueInv'
  <2>1. PageInv'
    BY <1>2, PageStep DEF RescueInv
  <2>2. ASSUME ~missed' PROVE ListInv'
    <3>1. ~missed
      BY <1>2, <2>2, MissedStays
    <3>2. QED
      BY <1>2, <2>2, <3>1, ListStep DEF RescueInv
  <2>3. QED
    BY <2>1, <2>2 DEF RescueInv
<1>3. QED
  BY <1>1, <1>2, PTL DEF RescueSpec

(* A backup can move what is at the address, for any number of nodes, emails, backups and cells:     *)
(* enableView reads every plain cell before the lists, so two enabling transactions that are both     *)
(* signed spend a cell in common, and a run that is shown no list once there is one reads or spends a *)
(* cell that is gone.  That needs a node that has seen the cells the transaction spends: ~missed, the  *)
(* history variable of the specification.                                                             *)
THEOREM BackupsRescue == RescueSpec => []BackupsCanRescue
<1>1. RescueInv => BackupsCanRescue
  BY DEF RescueInv, ListInv, OneListInv, FundsInv, BackupsCanRescue
<1>2. QED
  BY <1>1, RescueInvariant, PTL

ConfirmedChange ==
    \A l \in LiveLists(chain') :
         IF l \in LiveLists(chain)
         THEN chain'.lists[l].members # chain.lists[l].members /\ bound[l] # Nothing =>
                \E m \in mail : /\ m.to = bound[l] /\ m.about.kind = "change" /\ m.about.list = l
                                /\ m.about.before = chain.lists[l].members /\ m.about.after = chain'.lists[l].members
         ELSE \E m \in mail : /\ m.to = bound'[l] /\ m.about.kind = "enable" /\ m.about.first = l
                              /\ m.about.members = chain'.lists[l].members

(* A step that touches no list changes no backups. *)
LEMMA ListsKept == ASSUME chain'.lists = chain.lists PROVE ConfirmedChange
<1>1. LiveLists(chain') = LiveLists(chain)
  BY DEF LiveLists
<1>2. QED
  BY <1>1 DEF ConfirmedChange

(* A code that confirms a transaction is of a mail about it, to the address it is confirmed for. *)
LEMMA CodeIsTheMail ==
    ASSUME MailInv, NEW tx, NEW e, Confirmed(tx, e)
    PROVE  \E m \in mail : m.to = e /\ m.about = tx
  BY DEF MailInv, Confirmed, CodeOf

(* A change that commits was confirmed for the very list it replaces. *)
LEMMA ChangeIsConfirmed == ASSUME ListInv, NEW s \in pool, s.tx.kind = "change", Commit(s) PROVE ConfirmedChange
<1> DEFINE l == s.tx.list
           lists == With(chain.lists, l, Changed(chain.lists[l], s.tx.after))
<1>1. chain' = [chain EXCEPT !.lists = lists] /\ chain.lists[l].version = s.tx.version
  BY DEF Commit, Effect, Live
<1>2. /\ l \in LiveLists(chain) /\ IsView(chain)
      /\ s.tx.version = chain.lists[l].version => s.tx.before = chain.lists[l].members
      /\ bound[l] # Nothing => Confirmed(s.tx, bound[l])
  BY DEF ListInv, ChangesInv, ViewTypes
<1>3. chain'.lists = lists
  <2> HIDE DEF lists
  <2>1. QED
    BY <1>1, <1>2 DEF IsView
<1>4. /\ DOMAIN chain'.lists = DOMAIN chain.lists
      /\ \A k \in DOMAIN chain.lists : k # l => chain'.lists[k] = chain.lists[k]
      /\ chain'.lists[l].lock = chain.lists[l].lock /\ chain'.lists[l].maker = chain.lists[l].maker
      /\ chain'.lists[l].members = s.tx.after
  <2>1. l \in DOMAIN chain.lists
    BY <1>2 DEF LiveLists
  <2>2. QED
    BY <1>3, <2>1 DEF With, Changed
<1> HIDE DEF l, lists
<1>5. LiveLists(chain') = LiveLists(chain)
  BY <1>4 DEF LiveLists
<1>6. \A k \in LiveLists(chain) : k # l => chain'.lists[k] = chain.lists[k]
  BY <1>4 DEF LiveLists
<1>7. ASSUME bound[l] # Nothing
      PROVE  \E m \in mail : /\ m.to = bound[l] /\ m.about.kind = "change" /\ m.about.list = l
                             /\ m.about.before = chain.lists[l].members /\ m.about.after = chain'.lists[l].members
  <2>1. PICK m \in mail : m.to = bound[l] /\ m.about = s.tx
    BY <1>2, <1>7, CodeIsTheMail DEF ListInv
  <2>2. QED
    BY <1>1, <1>2, <1>4, <2>1 DEF l
<1>8. QED
  BY <1>5, <1>6, <1>7 DEF ConfirmedChange

(* The list an enabling transaction makes was confirmed with its backups. *)
LEMMA EnableIsConfirmed == ASSUME ListInv, NEW s \in pool, s.tx.kind = "enable", Commit(s) PROVE ConfirmedChange
<1> DEFINE l == s.tx.first
           list == [lock |-> "ours", maker |-> "ours", version |-> 0, members |-> s.tx.members]
           lists == With(chain.lists, l, list)
           fund == Fund(chain.top + 1, l, "plain")
<1>1. LiveLists(chain) = {} /\ s \in Enables
  BY EnableNeedsNone
<1>2. /\ chain' = [chain EXCEPT !.plain = @ \ s.tx.ins, !.top = chain.top + 1, !.lists = lists,
                         !.funds = @ \union {fund}]
      /\ IsView(chain) /\ bound' = With(bound, l, s.email)
  BY DEF Commit, Effect, ListInv, ViewTypes
<1>3. bound'[l] = s.email
  <2>1. bound' = With(bound, l, s.email)
    BY <1>2
  <2> HIDE DEF l
  <2>2. QED
    BY <2>1 DEF With
<1>4. chain'.lists = lists
  <2> HIDE DEF lists, fund
  <2>1. QED
    BY <1>2 DEF IsView
<1>5. /\ DOMAIN chain'.lists = DOMAIN chain.lists \union {l} /\ chain'.lists[l].members = s.tx.members
      /\ \A k \in DOMAIN chain.lists : k # l => chain'.lists[k] = chain.lists[k]
  BY <1>4 DEF With
<1> HIDE DEF l, list, lists, fund
<1>6. LiveLists(chain') \subseteq {l}
  BY <1>1, <1>5 DEF LiveLists
<1>7. PICK m \in mail : m.to = s.email /\ m.about = s.tx
  BY <1>1, CodeIsTheMail DEF ListInv, EnablesInv
<1>8. s.tx.kind = "enable" /\ s.tx.first = l
  BY DEF l
<1>9. QED
  BY <1>1, <1>3, <1>5, <1>6, <1>7, <1>8 DEF ConfirmedChange

(* Nothing else touches a list. *)
LEMMA OthersKeepTheLists ==
    ASSUME ListInv, [RescueNext]_rescueVars, ~ \E s \in pool : Commit(s)
    PROVE  chain'.lists = chain.lists
<1>1. CASE Deposit
  <2>1. IsView(chain)
    BY DEF ListInv, ViewTypes
  <2>2. QED
    BY <1>1, <2>1 DEF Deposit, IsView
<1>2. CASE PageActions
  BY <1>2, PageLeavesTheLists
<1>3. CASE UNCHANGED chain
  BY <1>3
<1>4. CASE SendRescue
  BY <1>4 DEF SendRescue, Rest
<1>5. CASE (\E n \in Nodes : BeginEnable(n) \/ NodeFails(n) \/ Change(n) \/ Send(n) \/ CatchUp(n)) \/ EndEnable
  BY <1>5 DEF BeginEnable, NodeFails, Change, Send, CatchUp, EndEnable
<1>6. QED
  BY <1>1, <1>2, <1>3, <1>4, <1>5 DEF RescueNext, rescueVars, PageActions

(* Every step changes confirmed backups only. *)
LEMMA StepIsConfirmed == ASSUME ListInv, [RescueNext]_rescueVars PROVE ConfirmedChange
<1>1. ASSUME NEW s \in pool, Commit(s) PROVE ConfirmedChange
  <2>1. s.tx.kind \in {"enable", "change", "send", "rescue"} /\ IsView(chain)
    BY DEF ListInv, SendsInv, ViewTypes
  <2>2. CASE s.tx.kind \in {"send", "rescue"}
    <3>1. chain'.lists = chain.lists
      BY <1>1, <2>1, <2>2 DEF Commit, Effect, IsView
    <3>2. QED
      BY <3>1, ListsKept
  <2>3. QED
    BY <1>1, <2>1, <2>2, ChangeIsConfirmed, EnableIsConfirmed
<1>2. QED
  BY <1>1, OthersKeepTheLists, ListsKept

(* Every backup that comes or goes was confirmed with a code emailed for exactly that change of that  *)
(* list (codeFor makes the code of the transaction and the address).                                  *)
THEOREM ChangesAreConfirmed == RescueSpec => ChangesConfirmed
<1>1. RescueInv /\ [RescueNext]_rescueVars => [~missed => ConfirmedChange]_rescueVars
  BY StepIsConfirmed DEF RescueInv
<1>2. ChangesConfirmed <=> [][~missed => ConfirmedChange]_rescueVars
  BY PTL DEF ChangesConfirmed, ConfirmedChange
<1>3. QED
  BY <1>1, <1>2, RescueInvariant, PTL DEF RescueSpec
=============================================================================
