-------------------------- MODULE WatchtowerProofs --------------------------
(***************************************************************************)
(* Theorems about Watchtower, for any number of channels, instances,       *)
(* revocations, penalties and faults.  The checks of a pass are summed up  *)
(* first: a check moves on with what it has read (Onward), or ends and     *)
(* leaves its row as it was, dropped or saved (Ended).                     *)
(*                                                                         *)
(* The second part is about JoyId.                                         *)
(***************************************************************************)
EXTENDS Watchtower, JoyId, SequenceTheorems, TLAPS

(* The tower starts with no row, no pass and an empty chain. *)
LEMMA InitIInv == Init => IInv
<1> SUFFICES ASSUME Init PROVE IInv
  OBVIOUS
<1> USE TowerAssumption DEF Init, NoWork
<1>1. TypeOK
  BY DEF TypeOK, ChainTypes, RowTypes, PassTypes, Places
<1>2. ReadInv /\ OneTower /\ OnePenalty
  BY DEF ReadInv, OneTower, OnePenalty
<1>3. NeverOverlooked /\ MissedToThePeer
  BY DEF NeverOverlooked, OverlookedOnly, MissedToThePeer
<1>4. QED
  BY <1>1, <1>2, <1>3 DEF IInv

-----------------------------------------------------------------------------
(* What the parts of a check do.                                           *)

RowElsewhere(c) == \A d \in Channels : d # c => row'[d] = row[d]
WorkElsewhere(i, c) == \A j \in Instances, d \in Channels : j # i \/ d # c => work'[j][d] = work[j][d]
WorkTypes == work \in [Instances -> [Channels -> Checks \cup {None}]]

(* A check that is done is gone, and no other check changes. *)
LEMMA DoneEffect ==
  ASSUME WorkTypes, NEW i \in Instances, NEW c \in Channels, Done(i, c)
  PROVE  WorkTypes' /\ WorkElsewhere(i, c) /\ work'[i][c] = None
BY DEF WorkTypes, WorkElsewhere, Done

(* A check that goes on keeps what it read. *)
LEMMA GoEffect ==
  ASSUME WorkTypes, NEW i \in Instances, NEW c \in Channels, work[i][c] # None, NEW stage \in Stages, Go(i, c, stage)
  PROVE  /\ WorkTypes' /\ WorkElsewhere(i, c) /\ work'[i][c] # None
         /\ work'[i][c].was = work[i][c].was /\ work'[i][c].stage = stage
<1> DEFINE new == [work[i][c] EXCEPT !.stage = stage]
<1>1. work[i][c] \in Checks
  BY DEF WorkTypes
<1>2. new \in Checks /\ new.was = work[i][c].was /\ new.stage = stage
  BY <1>1 DEF Checks
<1>3. work' = [work EXCEPT ![i] = [work[i] EXCEPT ![c] = new]]
  BY DEF Go
<1> HIDE DEF new
<1>4. WorkTypes' /\ WorkElsewhere(i, c) /\ work'[i][c] = new
  BY <1>2, <1>3 DEF WorkTypes, WorkElsewhere
<1>5. QED
  BY <1>2, <1>4, TowerAssumption

(* One row is replaced by another. *)
LEMMA RowSet ==
  ASSUME RowTypes, NEW c \in Channels, NEW r \in Rows, row' = [row EXCEPT ![c] = r]
  PROVE  RowTypes' /\ RowElsewhere(c) /\ row'[c] = r /\ row'[c] # None
BY TowerAssumption DEF RowTypes, RowElsewhere

(* One row is dropped, or was not there. *)
LEMMA RowDropped ==
  ASSUME RowTypes, NEW c \in Channels, row' = [row EXCEPT ![c] = None]
  PROVE  RowTypes' /\ RowElsewhere(c) /\ row'[c] = None
BY TowerAssumption DEF RowTypes, RowElsewhere

(* What save writes: the number stays the stored one, the rest is given or what the pass had read. *)
LEMMA SaveEffect ==
  ASSUME RowTypes, NEW i \in Instances, NEW c \in Channels, Was(i, c) \in Rows,
         NEW state \in States, NEW tx \in Closings \cup {None}, NEW penalty \in 0 .. MaxPenalties,
         Save(i, c, state, tx, penalty)
  PROVE  /\ RowTypes' /\ RowElsewhere(c)
         /\ row[c] = None => row'[c] = None
         /\ row[c] # None =>
              /\ row'[c] # None /\ row'[c].state = state /\ row'[c].number = row[c].number
              /\ row'[c].closing = IF tx = None THEN Was(i, c).closing ELSE tx
              /\ row'[c].penalty = IF penalty = 0 THEN Was(i, c).penalty ELSE penalty
<1> DEFINE txs == IF tx = None THEN Was(i, c).closing ELSE tx
           pen == IF penalty = 0 THEN Was(i, c).penalty ELSE penalty
           new == [row[c] EXCEPT !.state = state, !.closing = txs, !.penalty = pen, !.old = row[c].old /\ state = row[c].state]
<1>1. CASE row[c] = None
  <2>1. row' = [row EXCEPT ![c] = None]
    BY <1>1 DEF Save, RowTypes
  <2>2. QED
    BY <1>1, <2>1, RowDropped
<1>2. CASE row[c] # None
  <2>1. row[c] \in Rows
    BY <1>2 DEF RowTypes
  <2>2. txs \in Closings \cup {None} /\ pen \in 0 .. MaxPenalties
    BY DEF Rows
  <2>3. row' = [row EXCEPT ![c] = new]
    <3>1. row' = [row EXCEPT ![c] = IF row[c] = None THEN None ELSE new]
      BY DEF Save
    <3> HIDE DEF new
    <3>2. QED
      BY <1>2, <3>1
  <2> HIDE DEF txs, pen
  <2>4. new \in Rows /\ new.state = state /\ new.number = row[c].number /\ new.closing = txs /\ new.penalty = pen
    BY <2>1, <2>2 DEF Rows
  <2> HIDE DEF new
  <2>5. RowTypes' /\ RowElsewhere(c) /\ row'[c] = new /\ row'[c] # None
    BY <2>3, <2>4, RowSet
  <2>6. QED
    BY <1>2, <2>4, <2>5 DEF txs, pen
<1>3. QED
  BY <1>1, <1>2

-----------------------------------------------------------------------------
(* What a check does.                                                      *)

SameRow(c) ==
    /\ row'[c] = None <=> row[c] = None
    /\ row[c] # None =>
         /\ row'[c].number = row[c].number /\ row'[c].state = row[c].state
         /\ row'[c].closing = row[c].closing /\ row'[c].penalty = row[c].penalty

\* The check goes on: to a penalty only for a close it saw on the chain.
Onward(i, c) ==
    LET old == work[i][c]
        new == work'[i][c]
    IN
    /\ new # None /\ SameRow(c)
    /\ new.was.number = old.was.number /\ new.was.state = old.was.state /\ new.was.penalty = old.was.penalty
    /\ new.stage # "record"
    /\ new.stage \in {"sent", "live", "punish"} =>
         /\ new.was.spend = old.was.spend /\ new.was.spend # None
         /\ old.stage \in {"sent", "live"} \/ OnChain(c, new.was.spend)
    /\ new.stage = "live" =>
         \/ old.stage = "closing" /\ old.was.penalty = 0
         \/ old.stage = "sent" /\ PenaltyAt(c, old.was.penalty) = "unknown"
    /\ new.stage = "punish" => old.stage = "live"

\* The check ends, and its row is as it was, dropped, or saved with what the check found.
Ended(i, c) ==
    LET old == work[i][c] IN
    /\ work'[i][c] = None
    /\ \/ SameRow(c) /\ (row[c] = None \/ old.stage # "record")
       \/ row'[c] = None
       \/ /\ row[c] # None /\ row'[c] # None
          /\ row'[c].number = row[c].number
          /\ row'[c].penalty = IF old.stage = "record" /\ old.penalty # 0 THEN old.penalty ELSE old.was.penalty
          /\ row'[c].state = "closed" =>
               old.was.spend # None /\ row'[c].closing = old.was.spend /\ ~Revoked(old.was)
          /\ row'[c].state = "missed" =>
               old.stage = "live" /\ ~Live(c, old.was.spend)

CheckFrame(i, c) ==
    /\ WorkTypes' /\ RowTypes' /\ RowElsewhere(c) /\ WorkElsewhere(i, c)
    /\ work[i][c] # None /\ phase[i] = "checking"
    /\ Onward(i, c) \/ Ended(i, c)

\* Saving the state that was read, or another one, as a check ends.
LEMMA SavedAndDone ==
  ASSUME RowTypes, WorkTypes, NEW i \in Instances, NEW c \in Channels, work[i][c] # None, phase[i] = "checking",
         NEW state \in States, NEW tx \in Closings \cup {None}, NEW penalty \in 0 .. MaxPenalties,
         Save(i, c, state, tx, penalty), Done(i, c),
         penalty = IF work[i][c].stage = "record" THEN work[i][c].penalty ELSE 0,
         state = "closed" => Was(i, c).spend # None /\ tx = Was(i, c).spend /\ ~Revoked(Was(i, c)),
         state = "missed" => work[i][c].stage = "live" /\ ~Live(c, Was(i, c).spend)
  PROVE  CheckFrame(i, c)
<1>1. Was(i, c) \in Rows
  BY DEF Was, WorkTypes, Checks
<1>2. /\ RowTypes' /\ RowElsewhere(c)
      /\ row[c] = None => row'[c] = None
      /\ row[c] # None =>
           /\ row'[c] # None /\ row'[c].state = state /\ row'[c].number = row[c].number
           /\ row'[c].closing = IF tx = None THEN Was(i, c).closing ELSE tx
           /\ row'[c].penalty = IF penalty = 0 THEN Was(i, c).penalty ELSE penalty
  BY <1>1, SaveEffect
<1>3. WorkTypes' /\ WorkElsewhere(i, c) /\ work'[i][c] = None
  BY DoneEffect
<1>4. Ended(i, c)
  BY <1>2, <1>3 DEF Ended, Was
<1>5. QED
  BY <1>2, <1>3, <1>4 DEF CheckFrame

\* What was read is watched over, so that saving its state again neither closes nor misses anything.
LEMMA ReadStates ==
  ASSUME ReadInv, WorkTypes, NEW i \in Instances, NEW c \in Channels, work[i][c] # None
  PROVE  /\ work[i][c] \in Checks /\ Was(i, c) \in Rows /\ Was(i, c).state \in States
         /\ Was(i, c).state \notin {"closed", "missed"} /\ Was(i, c).spend \in Closings \cup {None}
BY DEF ReadInv, WorkTypes, Was, Watched, Checks, Rows

\* Going on to a stage without a penalty, or to the next one on the way to it.
LEMMA GoneOn ==
  ASSUME RowTypes, WorkTypes, NEW i \in Instances, NEW c \in Channels, work[i][c] # None, phase[i] = "checking",
         NEW stage \in Stages \ {"record"}, Go(i, c, stage), UNCHANGED row,
         stage \in {"sent", "live", "punish"} =>
            Was(i, c).spend # None /\ (work[i][c].stage \in {"sent", "live"} \/ OnChain(c, Was(i, c).spend)),
         stage = "live" => \/ work[i][c].stage = "closing" /\ Was(i, c).penalty = 0
                           \/ work[i][c].stage = "sent" /\ PenaltyAt(c, Was(i, c).penalty) = "unknown",
         stage = "punish" => work[i][c].stage = "live"
  PROVE  CheckFrame(i, c)
<1>1. /\ WorkTypes' /\ WorkElsewhere(i, c) /\ work'[i][c] # None
      /\ work'[i][c].was = work[i][c].was /\ work'[i][c].stage = stage
  BY GoEffect
<1>2. SameRow(c) /\ RowTypes' /\ RowElsewhere(c)
  BY DEF SameRow, RowTypes, RowElsewhere
<1>3. Onward(i, c)
  BY <1>1, <1>2 DEF Onward, Was
<1>4. QED
  BY <1>1, <1>2, <1>3 DEF CheckFrame

\* A scan writes what it sees to the row and to what it has read.
LEMMA ScanFrame ==
  ASSUME TypeOK, ReadInv, NEW i \in Instances, NEW c \in Channels, Scan(i, c)
  PROVE  CheckFrame(i, c)
<1> DEFINE seen == Was(i, c).seen \/ Funded(c)
           found == IF closing[c] # None /\ place[c] # "pool" THEN closing[c] ELSE None
           spend == IF Was(i, c).spend # None THEN Was(i, c).spend ELSE found
           stage == IF spend = None THEN "open" ELSE "closing"
           read == [Was(i, c) EXCEPT !.seen = seen, !.spend = spend]
           new == [work[i][c] EXCEPT !.was = read, !.stage = stage]
<1>1. WorkTypes /\ RowTypes /\ work[i][c] # None /\ phase[i] = "checking"
  BY DEF TypeOK, PassTypes, WorkTypes, Scan, At
<1>2. work[i][c] \in Checks /\ Was(i, c) \in Rows
  BY <1>1, ReadStates
<1>3. seen \in BOOLEAN /\ spend \in Closings \cup {None} /\ stage \in {"open", "closing"}
  BY <1>2 DEF TypeOK, ChainTypes, Rows
<1>4. work' = [work EXCEPT ![i][c] = new]
      /\ row' = [row EXCEPT ![c] = IF row[c] = None THEN None ELSE [row[c] EXCEPT !.seen = seen, !.spend = spend]]
  BY DEF Scan
<1> HIDE DEF seen, found, spend, stage
<1>6. read \in Rows /\ read.number = Was(i, c).number /\ read.state = Was(i, c).state /\ read.penalty = Was(i, c).penalty
  BY <1>2, <1>3 DEF Rows
<1> HIDE DEF read
<1>7. new \in Checks /\ new.was = read /\ new.stage = stage
  BY <1>2, <1>3, <1>6 DEF Checks, Stages
<1> HIDE DEF new
<1>8. WorkTypes' /\ WorkElsewhere(i, c) /\ work'[i][c] = new /\ new # None
  <2>1. WorkTypes' /\ WorkElsewhere(i, c) /\ work'[i][c] = new
    BY <1>1, <1>4, <1>7 DEF WorkTypes, WorkElsewhere
  <2>2. new # None
    BY <1>7, TowerAssumption
  <2>3. QED
    BY <2>1, <2>2
<1>9. SameRow(c) /\ RowTypes' /\ RowElsewhere(c)
  <2>1. CASE row[c] = None
    <3>1. row' = [row EXCEPT ![c] = None]
      BY <1>4, <2>1
    <3>2. QED
      BY <1>1, <2>1, <3>1, RowDropped DEF SameRow
  <2>2. CASE row[c] # None
    <3> DEFINE r == [row[c] EXCEPT !.seen = seen, !.spend = spend]
    <3>1. row[c] \in Rows
      BY <1>1, <2>2 DEF RowTypes
    <3>2. r \in Rows /\ r.number = row[c].number /\ r.state = row[c].state
          /\ r.closing = row[c].closing /\ r.penalty = row[c].penalty
      BY <1>3, <3>1 DEF Rows
    <3>3. row' = [row EXCEPT ![c] = r]
      BY <1>4, <2>2
    <3> HIDE DEF r
    <3>4. QED
      BY <1>1, <2>2, <3>2, <3>3, RowSet DEF SameRow
  <2>3. QED
    BY <2>1, <2>2
<1>10. Onward(i, c)
  BY <1>3, <1>6, <1>7, <1>8, <1>9 DEF Onward, Was
<1>11. QED
  BY <1>1, <1>8, <1>9, <1>10 DEF CheckFrame

\* The closing transaction that was read is no longer there: the row and the check forget it.
Forgets(i, c) ==
    /\ row' = [row EXCEPT ![c] = IF row[c] = None THEN None ELSE [row[c] EXCEPT !.spend = None]]
    /\ work' = [work EXCEPT ![i][c].was.spend = None, ![i][c].stage = "watching"]

(* A close that is forgotten puts the check back to watching. *)
LEMMA ForgottenFrame ==
  ASSUME TypeOK, ReadInv, NEW i \in Instances, NEW c \in Channels, At(i, c, "closing"), Forgets(i, c)
  PROVE  CheckFrame(i, c)
<1> DEFINE read == [Was(i, c) EXCEPT !.spend = None]
           new == [work[i][c] EXCEPT !.was = read, !.stage = "watching"]
<1>1. WorkTypes /\ RowTypes /\ work[i][c] # None /\ phase[i] = "checking"
  BY DEF TypeOK, PassTypes, WorkTypes, At
<1>2. work[i][c] \in Checks /\ Was(i, c) \in Rows
  BY <1>1, ReadStates
<1>5. work' = [work EXCEPT ![i][c] = new]
  <2>1. work' = [work EXCEPT ![i] = [work[i] EXCEPT ![c] = new]]
    BY <1>1, <1>2 DEF Forgets, WorkTypes, Was, Checks, Rows
  <2>2. QED
    BY <1>1, <2>1 DEF WorkTypes
<1>6. read \in Rows /\ read.number = Was(i, c).number /\ read.state = Was(i, c).state /\ read.penalty = Was(i, c).penalty
  BY <1>2 DEF Rows
<1> HIDE DEF read
<1>7. new \in Checks /\ new.was = read /\ new.stage = "watching"
  BY <1>2, <1>6 DEF Checks, Stages
<1> HIDE DEF new
<1>8. WorkTypes' /\ WorkElsewhere(i, c) /\ work'[i][c] = new /\ new # None
  <2>1. WorkTypes' /\ WorkElsewhere(i, c) /\ work'[i][c] = new
    BY <1>1, <1>5, <1>7 DEF WorkTypes, WorkElsewhere
  <2>2. new # None
    BY <1>7, TowerAssumption
  <2>3. QED
    BY <2>1, <2>2
<1>9. SameRow(c) /\ RowTypes' /\ RowElsewhere(c)
  <2>1. CASE row[c] = None
    <3>1. row' = [row EXCEPT ![c] = None]
      BY <2>1 DEF Forgets
    <3>2. QED
      BY <1>1, <2>1, <3>1, RowDropped DEF SameRow
  <2>2. CASE row[c] # None
    <3> DEFINE r == [row[c] EXCEPT !.spend = None]
    <3>1. row[c] \in Rows
      BY <1>1, <2>2 DEF RowTypes
    <3>2. r \in Rows /\ r.number = row[c].number /\ r.state = row[c].state
          /\ r.closing = row[c].closing /\ r.penalty = row[c].penalty
      BY <3>1 DEF Rows
    <3>3. row' = [row EXCEPT ![c] = r]
      BY <2>2 DEF Forgets
    <3> HIDE DEF r
    <3>4. QED
      BY <1>1, <2>2, <3>2, <3>3, RowSet DEF SameRow
  <2>3. QED
    BY <2>1, <2>2
<1>10. Onward(i, c)
  BY <1>6, <1>7, <1>8, <1>9 DEF Onward, Was
<1>11. QED
  BY <1>1, <1>8, <1>9, <1>10 DEF CheckFrame

\* Every check of a pass but the one that sends a penalty.
Looks(i, c) ==
    \/ Scan(i, c) \/ ScanFails(i, c) \/ StillOpen(i, c) \/ Assess(i, c) \/ KeepWatching(i, c) \/ LookForPenalty(i, c)
    \/ LookAtCell(i, c) \/ RecordPenalty(i, c)

(* Every look goes on or ends. *)
LEMMA LooksFrame ==
  ASSUME TypeOK, ReadInv, NEW i \in Instances, NEW c \in Channels, Looks(i, c)
  PROVE  CheckFrame(i, c)
<1> USE TowerAssumption
<1>1. WorkTypes /\ RowTypes /\ work[i][c] # None /\ phase[i] = "checking"
  BY DEF TypeOK, PassTypes, WorkTypes, Looks, Scan, ScanFails, StillOpen, Assess, KeepWatching, LookForPenalty,
     LookAtCell, RecordPenalty, At
<1>2. /\ work[i][c] \in Checks /\ Was(i, c) \in Rows /\ Was(i, c).state \in States
      /\ Was(i, c).state \notin {"closed", "missed"} /\ Was(i, c).spend \in Closings \cup {None}
  BY <1>1, ReadStates
<1>3. 0 \in 0 .. MaxPenalties
  OBVIOUS
<1>4. CASE ScanFails(i, c)
  <2>1. Done(i, c) /\ UNCHANGED row /\ work[i][c].stage = "scan"
    BY <1>4 DEF ScanFails, At
  <2>2. WorkTypes' /\ WorkElsewhere(i, c) /\ work'[i][c] = None
    BY <1>1, <2>1, DoneEffect
  <2>3. SameRow(c) /\ RowTypes' /\ RowElsewhere(c)
    BY <1>1, <2>1 DEF SameRow, RowTypes, RowElsewhere
  <2>4. QED
    BY <1>1, <2>1, <2>2, <2>3 DEF CheckFrame, Ended
<1>5. CASE StillOpen(i, c)
  <2>1. Done(i, c) /\ work[i][c].stage = "open"
    BY <1>5 DEF StillOpen, At
  <2>2. CASE row' = [row EXCEPT ![c] = None]
    <3>1. WorkTypes' /\ WorkElsewhere(i, c) /\ work'[i][c] = None
      BY <1>1, <2>1, DoneEffect
    <3>2. RowTypes' /\ RowElsewhere(c) /\ row'[c] = None
      BY <1>1, <2>2, RowDropped
    <3>3. QED
      BY <1>1, <3>1, <3>2 DEF CheckFrame, Ended
  <2>3. CASE Save(i, c, Was(i, c).state, None, 0)
    BY <1>1, <1>2, <1>3, <2>1, <2>3, SavedAndDone
  <2>4. QED
    BY <1>5, <2>2, <2>3 DEF StillOpen
<1>6. CASE Assess(i, c)
  <2> DEFINE spend == Was(i, c).spend
  <2>1. At(i, c, "closing") /\ work[i][c].stage = "closing"
    BY <1>6 DEF Assess, At
  <2>2. CASE Forgets(i, c)
    BY <2>1, <2>2, ForgottenFrame
  <2>3. CASE Go(i, c, "watching") /\ UNCHANGED row
    <3>1. "watching" \in Stages \ {"record"}
      BY DEF Stages
    <3>2. QED
      BY <1>1, <2>1, <2>3, <3>1, GoneOn
  <2>4. CASE OnChain(c, spend) /\ ~Revoked(Was(i, c)) /\ Save(i, c, "closed", spend, 0) /\ Done(i, c)
    <3>1. spend # None /\ "closed" \in States
      BY <2>4 DEF OnChain, States
    <3>2. QED
      BY <1>1, <1>2, <1>3, <2>1, <2>4, <3>1, SavedAndDone
  <2>5. CASE OnChain(c, spend) /\ Go(i, c, IF Was(i, c).penalty = 0 THEN "live" ELSE "sent") /\ UNCHANGED row
    <3>1. spend # None /\ {"live", "sent"} \subseteq Stages \ {"record"}
      BY <2>5 DEF OnChain, Stages
    <3>2. CASE Was(i, c).penalty = 0
      <4>1. Go(i, c, "live")
        BY <2>5, <3>2
      <4>2. QED
        BY <1>1, <2>1, <2>5, <3>1, <3>2, <4>1, GoneOn
    <3>3. CASE Was(i, c).penalty # 0
      <4>1. Go(i, c, "sent")
        BY <2>5, <3>3
      <4>2. QED
        BY <1>1, <2>1, <2>5, <3>1, <4>1, GoneOn
    <3>4. QED
      BY <3>2, <3>3
  <2>6. QED
    BY <1>6, <2>2, <2>3, <2>4, <2>5 DEF Assess, Forgets
<1>7. CASE KeepWatching(i, c)
  <2>1. Done(i, c) /\ work[i][c].stage = "watching" /\ Save(i, c, Was(i, c).state, None, 0)
    BY <1>7 DEF KeepWatching, At
  <2>2. QED
    BY <1>1, <1>2, <1>3, <2>1, SavedAndDone
<1>8. CASE LookForPenalty(i, c)
  <2>1. work[i][c].stage = "sent" /\ Was(i, c).spend # None
    BY <1>1, <1>8 DEF LookForPenalty, At, Was, ReadInv
  <2>2. CASE Save(i, c, "penalized", Was(i, c).spend, 0) /\ Done(i, c)
    <3>1. "penalized" \in States
      BY DEF States
    <3>2. QED
      BY <1>1, <1>2, <1>3, <2>1, <2>2, <3>1, SavedAndDone
  <2>3. CASE Save(i, c, Was(i, c).state, None, 0) /\ Done(i, c)
    BY <1>1, <1>2, <1>3, <2>1, <2>3, SavedAndDone
  <2>4. CASE PenaltyAt(c, Was(i, c).penalty) = "unknown" /\ Go(i, c, "live") /\ UNCHANGED row
    <3>1. "live" \in Stages \ {"record"}
      BY DEF Stages
    <3>2. QED
      BY <1>1, <2>1, <2>4, <3>1, GoneOn
  <2>5. QED
    BY <1>8, <2>2, <2>3, <2>4 DEF LookForPenalty
<1>9. CASE LookAtCell(i, c)
  <2>1. work[i][c].stage = "live" /\ Was(i, c).spend # None
    BY <1>1, <1>9 DEF LookAtCell, At, Was, ReadInv
  <2>2. {"missed", "invalid"} \subseteq States /\ "punish" \in Stages \ {"record"}
    BY DEF States, Stages
  <2>3. CASE ~Live(c, Was(i, c).spend) /\ Save(i, c, "missed", Was(i, c).spend, 0) /\ Done(i, c)
    BY <1>1, <1>2, <1>3, <2>1, <2>2, <2>3, SavedAndDone
  <2>4. CASE Save(i, c, "invalid", Was(i, c).spend, 0) /\ Done(i, c)
    BY <1>1, <1>2, <1>3, <2>1, <2>2, <2>4, SavedAndDone
  <2>5. CASE Go(i, c, "punish") /\ UNCHANGED row
    BY <1>1, <2>1, <2>2, <2>5, GoneOn
  <2>6. QED
    BY <1>9, <2>3, <2>4, <2>5 DEF LookAtCell
<1>10. CASE RecordPenalty(i, c)
  <2>1. work[i][c].stage = "record" /\ Save(i, c, "penalty-sent", Was(i, c).spend, work[i][c].penalty) /\ Done(i, c)
    BY <1>10 DEF RecordPenalty, At
  <2>2. "penalty-sent" \in States /\ work[i][c].penalty \in 0 .. MaxPenalties
    BY <1>2 DEF States, Checks
  <2>3. QED
    BY <1>1, <1>2, <2>1, <2>2, SavedAndDone
<1>11. QED
  BY <1>4, <1>5, <1>6, <1>7, <1>8, <1>9, <1>10, ScanFrame DEF Looks

\* Sending a penalty: it is in the pool and about to be recorded, or something failed, or the check just ends.
PunishFrame(i, c) ==
    /\ WorkTypes' /\ WorkElsewhere(i, c)
    /\ work[i][c] # None /\ work[i][c].stage = "punish" /\ phase[i] = "checking"
    /\ \A d \in Channels : d # c => claim'[d] = claim[d]
    /\ \/ /\ work'[i][c] # None /\ work'[i][c].was = work[i][c].was /\ work'[i][c].stage = "record"
          /\ work'[i][c].penalty = penalties[c] + 1
          /\ claim[c] = None /\ OnChain(c, Was(i, c).spend) /\ UNCHANGED faults
          /\ claim'[c] # None /\ claim'[c].by = "penalty" /\ claim'[c].id = penalties[c] + 1
       \/ work'[i][c] = None /\ faults' = faults + 1
       \/ work'[i][c] = None /\ UNCHANGED <<claim, faults>>

Recorded(i, c, new) == work' = [work EXCEPT ![i][c] = new]

\* A check is replaced by another one.
LEMMA RecordedEffect ==
  ASSUME WorkTypes, NEW i \in Instances, NEW c \in Channels, NEW new \in Checks, Recorded(i, c, new)
  PROVE  WorkTypes' /\ WorkElsewhere(i, c) /\ work'[i][c] = new /\ new # None
<1>1. WorkTypes' /\ WorkElsewhere(i, c) /\ work'[i][c] = new
  BY DEF WorkTypes, WorkElsewhere, Recorded
<1>2. QED
  BY <1>1, TowerAssumption

(* Punish does just that. *)
LEMMA PunishEffect ==
  ASSUME TypeOK, NEW i \in Instances, NEW c \in Channels, Punish(i, c)
  PROVE  PunishFrame(i, c)
<1>1. WorkTypes /\ work[i][c] # None /\ work[i][c].stage = "punish" /\ phase[i] = "checking"
  BY DEF TypeOK, PassTypes, WorkTypes, Punish, At
<1>2. claim \in [Channels -> Claims \cup {None}]
  BY DEF TypeOK, ChainTypes
<1>3. ASSUME Done(i, c), faults' = faults + 1 \/ UNCHANGED <<claim, faults>>,
             \A d \in Channels : d # c => claim'[d] = claim[d]
      PROVE  PunishFrame(i, c)
  <2>1. WorkTypes' /\ WorkElsewhere(i, c) /\ work'[i][c] = None
    BY <1>1, <1>3, DoneEffect
  <2>2. QED
    BY <1>1, <1>3, <2>1 DEF PunishFrame
<1>4. CASE /\ Live(c, Was(i, c).spend) /\ claim[c] = None /\ penalties[c] < MaxPenalties
           /\ claim' = [claim EXCEPT ![c] = [by |-> "penalty", id |-> penalties[c] + 1, place |-> "pool"]]
           /\ work' = [work EXCEPT ![i][c].penalty = penalties[c] + 1, ![i][c].stage = "record"]
           /\ UNCHANGED faults
  <2> DEFINE sent == [by |-> "penalty", id |-> penalties[c] + 1, place |-> "pool"]
             new == [work[i][c] EXCEPT !.penalty = penalties[c] + 1, !.stage = "record"]
  <2>1. penalties[c] + 1 \in 0 .. MaxPenalties
    BY <1>4, TowerAssumption DEF TypeOK, ChainTypes
  <2>2. sent \in Claims
    BY <2>1 DEF Claims, Places
  <2>3. claim'[c] = sent /\ sent # None /\ \A d \in Channels : d # c => claim'[d] = claim[d]
    BY <1>2, <1>4, <2>2, TowerAssumption
  <2>4. work[i][c] \in Checks
    BY <1>1 DEF WorkTypes
  <2>5. work' = [work EXCEPT ![i][c] = new]
    <3>1. work' = [work EXCEPT ![i] = [work[i] EXCEPT ![c] = new]]
      BY <1>1, <1>4, <2>4 DEF WorkTypes, Checks
    <3>2. QED
      BY <1>1, <3>1 DEF WorkTypes
  <2>6. new \in Checks /\ new.was = work[i][c].was /\ new.stage = "record" /\ new.penalty = penalties[c] + 1
    BY <2>1, <2>4 DEF Checks, Stages
  <2> HIDE DEF new
  <2>7. Recorded(i, c, new) 
    BY <2>5 DEF Recorded
  <2>8. WorkTypes' /\ WorkElsewhere(i, c) /\ work'[i][c] = new /\ new # None
    BY <1>1, <2>6, <2>7, RecordedEffect
  <2>9. claim'[c].by = "penalty" /\ claim'[c].id = penalties[c] + 1
    BY <2>3
  <2>10. QED
    BY <1>1, <1>4, <2>3, <2>6, <2>8, <2>9 DEF PunishFrame, Live
<1>5. CASE Done(i, c) /\ Fault
  <2>1. \A d \in Channels : d # c => claim'[d] = claim[d]
    BY <1>2 DEF Punish
  <2>2. QED
    BY <1>3, <1>5, <2>1 DEF Fault
<1>6. CASE Done(i, c) /\ UNCHANGED <<claim, faults>>
  BY <1>3, <1>6
<1>7. QED
  BY <1>4, <1>5, <1>6 DEF Punish

\* Confirming a resolution keeps what the row says of revocations and penalties, and only ever reopens the channel.
ConfirmFrame(c) ==
    /\ RowTypes' /\ RowElsewhere(c)
    /\ row[c] = None => row'[c] = None
    /\ row[c] # None =>
         /\ row'[c] # None /\ row'[c].number = row[c].number /\ row'[c].penalty = row[c].penalty
         /\ \/ row'[c].state = row[c].state /\ row'[c].closing = row[c].closing
            \/ row'[c].state \in {"watching", "penalty-sent"}

(* Confirm does just that. *)
LEMMA ConfirmEffect ==
  ASSUME TypeOK, NEW i \in Instances, NEW c \in Channels, Confirm(i, c)
  PROVE  ConfirmFrame(c)
<1>1. RowTypes
  BY DEF TypeOK
<1>2. CASE row[c] = None
  <2>1. row' = [row EXCEPT ![c] = None]
    BY <1>1, <1>2 DEF Confirm, RowTypes
  <2>2. QED
    BY <1>1, <1>2, <2>1, RowDropped DEF ConfirmFrame
<1>3. CASE row[c] # None
  <2>1. row[c] \in Rows
    BY <1>1, <1>3 DEF RowTypes
  <2>2. ASSUME NEW r \in Rows, row' = [row EXCEPT ![c] = r], r.number = row[c].number, r.penalty = row[c].penalty,
               (r.state = row[c].state /\ r.closing = row[c].closing) \/ r.state \in {"watching", "penalty-sent"}
        PROVE  ConfirmFrame(c)
    <3>1. RowTypes' /\ RowElsewhere(c) /\ row'[c] = r /\ row'[c] # None
      BY <1>1, <2>2, RowSet
    <3>2. QED
      BY <1>3, <2>2, <3>1 DEF ConfirmFrame
  <2> DEFINE conf == [row[c] EXCEPT !.confirmed = row[c].confirmed \/ row[c].old]
             sent == [row[c] EXCEPT !.state = "penalty-sent", !.old = FALSE]
             open == [row[c] EXCEPT !.state = "watching", !.spend = None, !.closing = None, !.old = FALSE]
  <2>3. \/ row' = [row EXCEPT ![c] = row[c]]
        \/ row' = [row EXCEPT ![c] = conf]
        \/ row' = [row EXCEPT ![c] = sent]
        \/ row' = [row EXCEPT ![c] = open]
    BY <1>3 DEF Confirm
  <2>4. conf \in Rows /\ conf.number = row[c].number /\ conf.penalty = row[c].penalty
        /\ conf.state = row[c].state /\ conf.closing = row[c].closing
    BY <2>1 DEF Rows
  <2>5. sent \in Rows /\ sent.number = row[c].number /\ sent.penalty = row[c].penalty /\ sent.state = "penalty-sent"
    BY <2>1 DEF Rows, States
  <2>6. open \in Rows /\ open.number = row[c].number /\ open.penalty = row[c].penalty /\ open.state = "watching"
    BY <2>1 DEF Rows, States
  <2> HIDE DEF conf, sent, open
  <2>7. QED
    BY <2>1, <2>2, <2>3, <2>4, <2>5, <2>6
<1>4. QED
  BY <1>2, <1>3

\* A pass begins: some rows that are done with are gone, and what is watched is read.
BeginFrame(i) ==
    /\ phase[i] = "idle" /\ lock \in {None, i} /\ lock' = i
    /\ RowTypes' /\ WorkTypes'
    /\ \A c \in Channels : row'[c] = row[c] \/ (row'[c] = None /\ Deletable(row[c]))
    /\ \A j \in Instances : j # i => work'[j] = work[j] /\ phase'[j] = phase[j]
    /\ phase'[i] = "checking"
    /\ \A c \in Channels : work'[i][c] # None =>
         /\ row'[c] # None /\ Watched(row'[c])
         /\ work'[i][c].was = row'[c] /\ work'[i][c].stage = "scan"

(* BeginPass does just that. *)
LEMMA BeginEffect ==
  ASSUME TypeOK, NEW i \in Instances, BeginPass(i)
  PROVE  BeginFrame(i) /\ PassTypes'
<1> USE TowerAssumption
<1>1. RowTypes /\ PassTypes /\ WorkTypes
  BY DEF TypeOK, PassTypes, WorkTypes
<1>2. RowTypes' /\ \A c \in Channels : row'[c] = row[c] \/ (row'[c] = None /\ Deletable(row[c]))
  BY <1>1 DEF BeginPass, RowTypes
<1> DEFINE read == [c \in Channels |-> IF Watched(row'[c]) THEN [was |-> row'[c], stage |-> "scan", penalty |-> 0] ELSE None]
           old == [c \in Channels |-> IF row'[c] # None /\ row'[c].state \in {"closed", "penalized"} /\ ~row'[c].confirmed
                                      THEN row'[c] ELSE None]
<1>3. work' = [work EXCEPT ![i] = read] /\ recent' = [recent EXCEPT ![i] = old]
  BY DEF BeginPass
<1>4. ASSUME NEW c \in Channels, Watched(row'[c])
      PROVE  [was |-> row'[c], stage |-> "scan", penalty |-> 0] \in Checks /\ row'[c] # None
  BY <1>2, <1>4 DEF RowTypes, Watched, Checks, Stages
<1>5. read \in [Channels -> Checks \cup {None}] /\ old \in [Channels -> Rows \cup {None}]
  BY <1>2, <1>4 DEF RowTypes
<1>6. \A c \in Channels : read[c] # None =>
        row'[c] # None /\ Watched(row'[c]) /\ read[c].was = row'[c] /\ read[c].stage = "scan"
  BY <1>4
<1> HIDE DEF read, old
<1>7. WorkTypes' /\ work'[i] = read /\ \A j \in Instances : j # i => work'[j] = work[j]
  BY <1>1, <1>3, <1>5 DEF WorkTypes
<1>8. recent' \in [Instances -> [Channels -> Rows \cup {None}]]
  BY <1>1, <1>3, <1>5 DEF PassTypes
<1>9. phase[i] = "idle" /\ lock \in {None, i} /\ lock' = i /\ phase' = [phase EXCEPT ![i] = "checking"]
  BY DEF BeginPass
<1>10. QED
  BY <1>1, <1>2, <1>6, <1>7, <1>8, <1>9 DEF BeginFrame, PassTypes, WorkTypes

\* What the page and time do to a row: it appears, its number grows, or only its marks change.
Appears(c) == row[c] = None /\ row'[c] # None /\ row'[c].number = 0 /\ row'[c].state = "watching" /\ row'[c].penalty = 0
Grows(c) ==
    /\ row[c] # None /\ row'[c] # None
    /\ row'[c].state = row[c].state /\ row'[c].closing = row[c].closing /\ row'[c].penalty = row[c].penalty

(* Each request of the page, and age, does one of these. *)
LEMMA PageEffect ==
  ASSUME TypeOK, NEW c \in Channels
  PROVE  /\ Watch(c) => RowTypes' /\ RowElsewhere(c) /\ Appears(c)
         /\ StoreRevocation(c) => RowTypes' /\ RowElsewhere(c) /\ Grows(c)
         /\ Unwatch(c) \/ Age(c) => RowTypes' /\ RowElsewhere(c) /\ SameRow(c)
<1> USE TowerAssumption
<1>1. RowTypes
  BY DEF TypeOK
<1>2. ASSUME Watch(c) PROVE RowTypes' /\ RowElsewhere(c) /\ Appears(c)
  <2>1. NewRow \in Rows /\ NewRow.number = 0 /\ NewRow.state = "watching" /\ NewRow.penalty = 0
    BY DEF NewRow, Rows, States
  <2>2. row[c] = None /\ row' = [row EXCEPT ![c] = NewRow]
    BY <1>2 DEF Watch
  <2>3. QED
    BY <1>1, <2>1, <2>2, RowSet DEF Appears
<1>3. ASSUME StoreRevocation(c) PROVE RowTypes' /\ RowElsewhere(c) /\ Grows(c)
  <2> DEFINE r == [row[c] EXCEPT !.number = revoked[c]]
  <2>1. row[c] \in Rows /\ row[c] # None /\ revoked[c] \in 0 .. MaxNumber
    BY <1>1, <1>3 DEF StoreRevocation, RowTypes, TypeOK, ChainTypes
  <2>2. r \in Rows /\ r.state = row[c].state /\ r.closing = row[c].closing /\ r.penalty = row[c].penalty
    BY <2>1 DEF Rows
  <2>3. row' = [row EXCEPT ![c] = r]
    BY <1>1, <1>3 DEF StoreRevocation, RowTypes
  <2> HIDE DEF r
  <2>4. QED
    BY <1>1, <2>1, <2>2, <2>3, RowSet DEF Grows
<1>4. ASSUME NEW r \in Rows, row[c] # None, row' = [row EXCEPT ![c] = r], r.number = row[c].number,
             r.state = row[c].state, r.closing = row[c].closing, r.penalty = row[c].penalty
      PROVE  RowTypes' /\ RowElsewhere(c) /\ SameRow(c)
  BY <1>1, <1>4, RowSet DEF SameRow
<1>5. ASSUME Unwatch(c) PROVE RowTypes' /\ RowElsewhere(c) /\ SameRow(c)
  <2> DEFINE r == [row[c] EXCEPT !.unwatch = TRUE]
  <2>1. row[c] \in Rows /\ row[c] # None
    BY <1>1, <1>5 DEF Unwatch, RowTypes
  <2>2. r \in Rows /\ r.number = row[c].number /\ r.state = row[c].state /\ r.closing = row[c].closing
        /\ r.penalty = row[c].penalty
    BY <2>1 DEF Rows
  <2>3. row' = [row EXCEPT ![c] = r]
    BY <1>1, <1>5 DEF Unwatch, RowTypes
  <2> HIDE DEF r
  <2>4. QED
    BY <1>4, <2>1, <2>2, <2>3
<1>6. ASSUME Age(c) PROVE RowTypes' /\ RowElsewhere(c) /\ SameRow(c)
  <2> DEFINE r == [row[c] EXCEPT !.old = TRUE]
  <2>1. row[c] \in Rows /\ row[c] # None
    BY <1>1, <1>6 DEF Age, RowTypes
  <2>2. r \in Rows /\ r.number = row[c].number /\ r.state = row[c].state /\ r.closing = row[c].closing
        /\ r.penalty = row[c].penalty
    BY <2>1 DEF Rows
  <2>3. row' = [row EXCEPT ![c] = r]
    BY <1>1, <1>6 DEF Age, RowTypes
  <2> HIDE DEF r
  <2>4. QED
    BY <1>4, <2>1, <2>2, <2>3
<1>7. QED
  BY <1>2, <1>3, <1>5, <1>6

(* A look of a check touches only rows and checks. *)
LEMMA LooksUnchanged ==
  ASSUME NEW i \in Instances, NEW c \in Channels, Looks(i, c)
  PROVE  UNCHANGED <<chainVars, penalties, lock, phase, recent, faults, overtaken, unread>>
BY DEF Looks, Scan, ScanFails, StillOpen, Assess, KeepWatching, LookForPenalty, LookAtCell, RecordPenalty

-----------------------------------------------------------------------------
(* Types.                                                                  *)

(* What the chain does leaves the rows and the passes alone. *)
LEMMA ChainLeaves ==
  ASSUME NEW c \in Channels, Chain(c)
  PROVE  UNCHANGED <<row, passVars, overtaken, unread, penalties>> /\ (UNCHANGED faults \/ faults' = faults + 1)
BY DEF Chain, Fund, Revoke, Publish, Bury, Unbury, PeerClaims, BuryClaim, UnburyClaim, Fault

(* Every step keeps the types of the chain's variables. *)
LEMMA StepChainTypes == TypeOK /\ [Next]_vars => ChainTypes'
<1> SUFFICES ASSUME TypeOK, [Next]_vars PROVE ChainTypes'
  OBVIOUS
<1> USE TowerAssumption DEF chainVars, passVars, TypeOK, ChainTypes, Places, Claims, Closings
<1>a. ASSUME UNCHANGED <<chainVars, penalties, faults>> PROVE ChainTypes'
  BY <1>a
<1>1. ASSUME NEW c \in Channels, Fund(c) PROVE ChainTypes'
  BY <1>1 DEF Fund
<1>2. ASSUME NEW c \in Channels, Revoke(c) PROVE ChainTypes'
  BY <1>2 DEF Revoke
<1>3. ASSUME NEW c \in Channels, NEW tx \in Closings, Publish(c, tx) PROVE ChainTypes'
  BY <1>3 DEF Publish
<1>4. ASSUME NEW c \in Channels, Bury(c) PROVE ChainTypes'
  BY <1>4 DEF Bury
<1>5. ASSUME NEW c \in Channels, Unbury(c) PROVE ChainTypes'
  BY <1>5 DEF Unbury, Fault
<1>6. ASSUME NEW c \in Channels, PeerClaims(c) PROVE ChainTypes'
  BY <1>6 DEF PeerClaims
<1>7. ASSUME NEW c \in Channels, BuryClaim(c) PROVE ChainTypes'
  BY <1>7 DEF BuryClaim
<1>8. ASSUME NEW c \in Channels, UnburyClaim(c) PROVE ChainTypes'
  BY <1>8 DEF UnburyClaim, Fault
<1>9. ASSUME NEW c \in Channels, Watch(c) \/ StoreRevocation(c) PROVE ChainTypes'
  BY <1>a, <1>9 DEF Watch, StoreRevocation
<1>10. ASSUME NEW c \in Channels, Unwatch(c) \/ Age(c) PROVE ChainTypes'
  BY <1>10 DEF Unwatch, Age, GiveUp
<1>11. ASSUME NEW i \in Instances, BeginPass(i) \/ EndChecks(i) \/ EndPass(i) PROVE ChainTypes'
  BY <1>a, <1>11 DEF BeginPass, EndChecks, EndPass
<1>12. ASSUME NEW i \in Instances, Crash(i) \/ LoseConnection(i) PROVE ChainTypes'
  BY <1>12 DEF Crash, LoseConnection, Fault
<1>13. ASSUME NEW i \in Instances, NEW c \in Channels, Looks(i, c) PROVE ChainTypes'
  BY <1>a, <1>13, LooksUnchanged
<1>14. ASSUME NEW i \in Instances, NEW c \in Channels, Punish(i, c) PROVE ChainTypes'
  BY <1>14 DEF Punish, Fault
<1>15. ASSUME NEW i \in Instances, NEW c \in Channels, Confirm(i, c) PROVE ChainTypes'
  BY <1>a, <1>15 DEF Confirm
<1>16. CASE UNCHANGED vars
  BY <1>a, <1>16 DEF vars
<1>17. QED
  BY <1>1, <1>2, <1>3, <1>4, <1>5, <1>6, <1>7, <1>8, <1>9, <1>10, <1>11, <1>12, <1>13, <1>14, <1>15, <1>16 DEF
     Next, Chain, Page, Pass, Check, Looks

(* Every step keeps the types of the rows. *)
LEMMA StepRowTypes == TypeOK /\ ReadInv /\ [Next]_vars => RowTypes'
<1> SUFFICES ASSUME TypeOK, ReadInv, [Next]_vars PROVE RowTypes'
  OBVIOUS
<1>a. ASSUME UNCHANGED row PROVE RowTypes'
  BY <1>a DEF TypeOK, RowTypes
<1>1. ASSUME NEW c \in Channels, Chain(c) PROVE RowTypes'
  BY <1>a, <1>1, ChainLeaves
<1>2. ASSUME NEW c \in Channels, Page(c) \/ Age(c) PROVE RowTypes'
  BY <1>2, PageEffect DEF Page
<1>3. ASSUME NEW i \in Instances, BeginPass(i) PROVE RowTypes'
  BY <1>3, BeginEffect DEF BeginFrame
<1>4. ASSUME NEW i \in Instances, EndChecks(i) \/ EndPass(i) \/ Crash(i) \/ LoseConnection(i) PROVE RowTypes'
  BY <1>a, <1>4 DEF EndChecks, EndPass, Crash, LoseConnection
<1>5. ASSUME NEW i \in Instances, NEW c \in Channels, Looks(i, c) PROVE RowTypes'
  BY <1>5, LooksFrame DEF CheckFrame
<1>6. ASSUME NEW i \in Instances, NEW c \in Channels, Punish(i, c) PROVE RowTypes'
  BY <1>a, <1>6 DEF Punish
<1>7. ASSUME NEW i \in Instances, NEW c \in Channels, Confirm(i, c) PROVE RowTypes'
  BY <1>7, ConfirmEffect DEF ConfirmFrame
<1>8. CASE UNCHANGED vars
  BY <1>a, <1>8 DEF vars
<1>9. QED
  BY <1>1, <1>2, <1>3, <1>4, <1>5, <1>6, <1>7, <1>8 DEF Next, Pass, Check, Looks

(* Every step keeps the types of the passes. *)
LEMMA StepPassTypes == TypeOK /\ ReadInv /\ [Next]_vars => PassTypes'
<1> SUFFICES ASSUME TypeOK, ReadInv, [Next]_vars PROVE PassTypes'
  OBVIOUS
<1>a. ASSUME UNCHANGED passVars PROVE PassTypes'
  BY <1>a DEF TypeOK, PassTypes, passVars
<1>b. PassTypes
  BY DEF TypeOK
<1>1. ASSUME NEW c \in Channels, Chain(c) PROVE PassTypes'
  BY <1>a, <1>1, ChainLeaves
<1>2. ASSUME NEW c \in Channels, Page(c) \/ Age(c) PROVE PassTypes'
  BY <1>a, <1>2 DEF Page, Watch, StoreRevocation, Unwatch, Age
<1>3. ASSUME NEW i \in Instances, BeginPass(i) PROVE PassTypes'
  BY <1>3, BeginEffect
<1>4. ASSUME NEW i \in Instances, EndChecks(i) \/ EndPass(i) PROVE PassTypes'
  BY <1>b, <1>4 DEF EndChecks, EndPass, PassTypes
<1>5. ASSUME NEW i \in Instances, Crash(i) \/ LoseConnection(i) PROVE PassTypes'
  <2>1. CASE Crash(i)
    <3>1. /\ lock' \in {lock, None} /\ phase' = [phase EXCEPT ![i] = "idle"]
          /\ work' = [work EXCEPT ![i] = NoWork] /\ recent' = [recent EXCEPT ![i] = NoWork]
      BY <2>1 DEF Crash
    <3>2. NoWork \in [Channels -> Checks \cup {None}] /\ NoWork \in [Channels -> Rows \cup {None}]
      BY DEF NoWork
    <3> HIDE DEF NoWork
    <3>3. QED
      BY <1>b, <3>1, <3>2 DEF PassTypes
  <2>2. CASE LoseConnection(i)
    BY <1>b, <2>2 DEF LoseConnection, PassTypes
  <2>3. QED
    BY <1>5, <2>1, <2>2
<1>6. ASSUME NEW i \in Instances, NEW c \in Channels, Looks(i, c) PROVE PassTypes'
  <2>1. WorkTypes' /\ UNCHANGED <<lock, phase, recent>>
    BY <1>6, LooksFrame, LooksUnchanged DEF CheckFrame
  <2>2. QED
    BY <1>b, <2>1 DEF PassTypes, WorkTypes
<1>7. ASSUME NEW i \in Instances, NEW c \in Channels, Punish(i, c) PROVE PassTypes'
  <2>1. WorkTypes' /\ UNCHANGED <<lock, phase, recent>>
    BY <1>7, PunishEffect DEF PunishFrame, Punish
  <2>2. QED
    BY <1>b, <2>1 DEF PassTypes, WorkTypes
<1>8. ASSUME NEW i \in Instances, NEW c \in Channels, Confirm(i, c) PROVE PassTypes'
  <2>1. UNCHANGED <<lock, phase, work>> /\ recent' = [recent EXCEPT ![i][c] = None]
    BY <1>8 DEF Confirm
  <2>2. QED
    BY <1>b, <2>1 DEF PassTypes
<1>9. CASE UNCHANGED vars
  BY <1>a, <1>9 DEF vars
<1>10. QED
  BY <1>1, <1>2, <1>3, <1>4, <1>5, <1>6, <1>7, <1>8, <1>9 DEF Next, Pass, Check, Looks

(* Every step keeps the types. *)
LEMMA StepTypeOK == TypeOK /\ ReadInv /\ [Next]_vars => TypeOK'
<1> SUFFICES ASSUME TypeOK, ReadInv, [Next]_vars PROVE TypeOK'
  OBVIOUS
<1>1. ChainTypes' /\ RowTypes' /\ PassTypes'
  BY StepChainTypes, StepRowTypes, StepPassTypes
<1>2. overtaken' \subseteq Channels /\ unread' \subseteq Channels
  <2>a. overtaken \subseteq Channels /\ unread \subseteq Channels
    BY DEF TypeOK
  <2>1. ASSUME NEW c \in Channels, Chain(c) PROVE UNCHANGED <<overtaken, unread>>
    BY <2>1, ChainLeaves
  <2>2. ASSUME NEW c \in Channels, Page(c) \/ Age(c) PROVE overtaken' \subseteq Channels /\ unread' \subseteq Channels
    BY <2>a, <2>2 DEF Page, Watch, StoreRevocation, Unwatch, Age
  <2>3. ASSUME NEW i \in Instances, BeginPass(i) \/ EndChecks(i) \/ EndPass(i) \/ Crash(i) \/ LoseConnection(i)
        PROVE UNCHANGED <<overtaken, unread>>
    BY <2>3 DEF BeginPass, EndChecks, EndPass, Crash, LoseConnection
  <2>4. ASSUME NEW i \in Instances, NEW c \in Channels, Looks(i, c) PROVE UNCHANGED <<overtaken, unread>>
    BY <2>4, LooksUnchanged
  <2>5. ASSUME NEW i \in Instances, NEW c \in Channels, Punish(i, c) \/ Confirm(i, c)
        PROVE  UNCHANGED <<overtaken, unread>>
    BY <2>5 DEF Punish, Confirm
  <2>6. QED
    BY <2>a, <2>1, <2>2, <2>3, <2>4, <2>5 DEF vars, Next, Pass, Check, Looks
<1>3. QED
  BY <1>1, <1>2 DEF TypeOK

-----------------------------------------------------------------------------
(* What was read.                                                          *)

(* Every step keeps ReadInv: a revocation that comes while a check runs is one the history tells of. *)
LEMMA StepReadInv == TypeOK /\ ReadInv /\ [Next]_vars => ReadInv'
<1> SUFFICES ASSUME TypeOK, ReadInv, [Next]_vars PROVE ReadInv'
  OBVIOUS
<1> DEFINE Good(i, c, check) ==
      /\ Watched(check.was)
      /\ check.stage \in {"sent", "live", "punish", "record"} => check.was.spend # None
<1>a. ASSUME UNCHANGED <<work, row, unread>> PROVE ReadInv'
  BY <1>a DEF ReadInv
<1>b. RowTypes /\ WorkTypes
  BY DEF TypeOK, PassTypes, WorkTypes
<1>1. ASSUME NEW c \in Channels, Chain(c) PROVE ReadInv'
  BY <1>a, <1>1, ChainLeaves DEF passVars
<1>2. ASSUME NEW c \in Channels, Watch(c) PROVE ReadInv'
  <2>1. UNCHANGED <<work, unread>> /\ RowElsewhere(c) /\ Appears(c)
    BY <1>2, PageEffect DEF Watch, passVars
  <2>2. \A i \in Instances : work[i][c] # None => work[i][c].was.number \in Nat
    BY <1>b, TowerAssumption DEF WorkTypes, Checks, Rows
  <2>3. QED
    BY <2>1, <2>2 DEF ReadInv, RowElsewhere, Appears
<1>3. ASSUME NEW c \in Channels, StoreRevocation(c) PROVE ReadInv'
  <2>1. UNCHANGED work /\ RowElsewhere(c)
    BY <1>3, PageEffect DEF StoreRevocation, passVars
  <2>2. unread \subseteq unread' /\ ((\E i \in Instances : work[i][c] # None) => c \in unread')
    BY <1>3 DEF StoreRevocation
  <2>3. QED
    BY <2>1, <2>2 DEF ReadInv, RowElsewhere
<1>4. ASSUME NEW c \in Channels, Unwatch(c) \/ Age(c) PROVE ReadInv'
  <2>1. UNCHANGED <<work, unread>> /\ RowElsewhere(c) /\ SameRow(c)
    BY <1>4, PageEffect DEF Unwatch, Age, passVars
  <2>2. QED
    BY <2>1 DEF ReadInv, RowElsewhere, SameRow
<1>5. ASSUME NEW i \in Instances, BeginPass(i) PROVE ReadInv'
  <2>1. BeginFrame(i) /\ UNCHANGED unread
    BY <1>5, BeginEffect DEF BeginPass
  <2>2. ASSUME NEW c \in Channels, work'[i][c] # None
        PROVE  row'[c].number <= work'[i][c].was.number /\ Good(i, c, work'[i][c])
    <3>1. row'[c] \in Rows /\ work'[i][c].was = row'[c] /\ work'[i][c].stage = "scan" /\ Watched(row'[c])
      BY <2>1, <2>2 DEF BeginFrame, RowTypes
    <3>2. row'[c].number \in Nat
      BY <3>1, TowerAssumption DEF Rows
    <3>3. QED
      BY <3>1, <3>2
  <2>3. ASSUME NEW j \in Instances, j # i, NEW c \in Channels, work'[j][c] # None
        PROVE  Good(j, c, work'[j][c]) /\ (row'[c] # None /\ c \notin unread => row'[c].number <= work'[j][c].was.number)
    BY <2>1, <2>3 DEF BeginFrame, ReadInv
  <2>4. QED
    BY <2>1, <2>2, <2>3 DEF ReadInv
<1>6. ASSUME NEW i \in Instances, EndChecks(i) \/ EndPass(i) \/ LoseConnection(i) PROVE ReadInv'
  BY <1>a, <1>6 DEF EndChecks, EndPass, LoseConnection
<1>7. ASSUME NEW i \in Instances, Crash(i) PROVE ReadInv'
  <2>1. UNCHANGED <<row, unread>> /\ work' = [work EXCEPT ![i] = NoWork]
    BY <1>7 DEF Crash
  <2>2. QED
    BY <1>b, <2>1 DEF ReadInv, WorkTypes, NoWork
<1>8. ASSUME NEW i \in Instances, NEW c \in Channels, Looks(i, c) PROVE ReadInv'
  <2>1. CheckFrame(i, c) /\ UNCHANGED unread
    BY <1>8, LooksFrame, LooksUnchanged
  <2>2. row'[c] # None => row[c] # None /\ row'[c].number = row[c].number
    BY <2>1 DEF CheckFrame, Onward, Ended, SameRow
  <2>3. ASSUME work'[i][c] # None
        PROVE  Good(i, c, work'[i][c]) /\ (row'[c] # None /\ c \notin unread => row'[c].number <= work'[i][c].was.number)
    <3>1. Onward(i, c) /\ work[i][c] # None
      BY <2>1, <2>3 DEF CheckFrame, Ended
    <3>2. work'[i][c].was # None
      BY <2>1, <2>3, TowerAssumption DEF CheckFrame, WorkTypes, Checks
    <3>3. work'[i][c].was.number = work[i][c].was.number /\ Good(i, c, work'[i][c])
      BY <3>1, <3>2 DEF Onward, ReadInv, Watched
    <3>4. QED
      BY <2>2, <3>1, <3>3 DEF ReadInv
  <2>4. ASSUME NEW j \in Instances, NEW d \in Channels, j # i \/ d # c, work'[j][d] # None
        PROVE  Good(j, d, work'[j][d]) /\ (row'[d] # None /\ d \notin unread => row'[d].number <= work'[j][d].was.number)
    <3>1. work'[j][d] = work[j][d] /\ (d # c => row'[d] = row[d])
      BY <2>1, <2>4 DEF CheckFrame, WorkElsewhere, RowElsewhere
    <3>2. QED
      BY <2>2, <2>4, <3>1 DEF ReadInv
  <2>5. QED
    BY <2>1, <2>3, <2>4 DEF ReadInv
<1>9. ASSUME NEW i \in Instances, NEW c \in Channels, Punish(i, c) PROVE ReadInv'
  <2>1. PunishFrame(i, c) /\ UNCHANGED <<row, unread>>
    BY <1>9, PunishEffect DEF Punish
  <2>2. work'[i][c] # None => work'[i][c].was = work[i][c].was /\ work[i][c] # None /\ work[i][c].stage = "punish"
    BY <2>1 DEF PunishFrame
  <2>3. \A j \in Instances, d \in Channels : j # i \/ d # c => work'[j][d] = work[j][d]
    BY <2>1 DEF PunishFrame, WorkElsewhere
  <2>4. QED
    BY <2>1, <2>2, <2>3 DEF ReadInv
<1>10. ASSUME NEW i \in Instances, NEW c \in Channels, Confirm(i, c) PROVE ReadInv'
  <2>1. ConfirmFrame(c) /\ UNCHANGED <<work, unread>>
    BY <1>10, ConfirmEffect DEF Confirm
  <2>2. QED
    BY <2>1 DEF ReadInv, ConfirmFrame, RowElsewhere
<1>11. CASE UNCHANGED vars
  BY <1>a, <1>11 DEF vars, passVars
<1>12. QED
  BY <1>1, <1>2, <1>3, <1>4, <1>5, <1>6, <1>7, <1>8, <1>9, <1>10, <1>11 DEF Next, Page, Pass, Check, Looks

(* Every step keeps what a closed row says: the check that closed it had read the row's number, or the history tells. *)
LEMMA StepNeverOverlooked == TypeOK /\ ReadInv /\ NeverOverlooked /\ [Next]_vars => NeverOverlooked'
<1> SUFFICES ASSUME TypeOK, ReadInv, NeverOverlooked, [Next]_vars PROVE NeverOverlooked'
  OBVIOUS
<1> DEFINE Excused == overtaken \cup unread
           Right(r) == r # None /\ r.state = "closed" /\ r.closing.by = "peer" => r.number < r.closing.number
<1>a. \A c \in Channels \ Excused : Right(row[c])
  BY DEF NeverOverlooked, OverlookedOnly
<1>b. ASSUME Excused \subseteq Excused', \A c \in Channels : c \notin Excused' => Right(row'[c]) \/ row'[c] = row[c]
      PROVE  NeverOverlooked'
  BY <1>a, <1>b DEF NeverOverlooked, OverlookedOnly
<1>c. ASSUME UNCHANGED <<overtaken, unread>>, NEW c \in Channels, RowElsewhere(c),
             c \notin Excused /\ row'[c] # None => Right(row'[c])
      PROVE  NeverOverlooked'
  BY <1>b, <1>c DEF RowElsewhere
<1> HIDE DEF Right
<1>d. ASSUME UNCHANGED <<row, overtaken, unread>> PROVE NeverOverlooked'
  BY <1>b, <1>d
<1>1. ASSUME NEW c \in Channels, Chain(c) PROVE NeverOverlooked'
  BY <1>d, <1>1, ChainLeaves
<1>2. ASSUME NEW c \in Channels, Watch(c) PROVE NeverOverlooked'
  <2>1. UNCHANGED <<overtaken, unread>> /\ RowElsewhere(c) /\ Appears(c)
    BY <1>2, PageEffect DEF Watch
  <2>2. QED
    BY <1>c, <2>1 DEF Appears, Right
<1>3. ASSUME NEW c \in Channels, StoreRevocation(c) PROVE NeverOverlooked'
  <2>1. RowElsewhere(c) /\ Grows(c)
    BY <1>3, PageEffect
  <2>2. Excused \subseteq Excused' /\ (row[c].state = "closed" => c \in Excused')
    BY <1>3 DEF StoreRevocation
  <2>3. QED
    BY <1>b, <2>1, <2>2 DEF RowElsewhere, Grows, Right
<1>4. ASSUME NEW c \in Channels, Unwatch(c) \/ Age(c) PROVE NeverOverlooked'
  <2>1. UNCHANGED <<overtaken, unread>> /\ RowElsewhere(c) /\ SameRow(c)
    BY <1>4, PageEffect DEF Unwatch, Age
  <2>2. QED
    BY <1>a, <1>c, <2>1 DEF SameRow, Right
<1>5. ASSUME NEW i \in Instances, BeginPass(i) PROVE NeverOverlooked'
  <2>1. UNCHANGED <<overtaken, unread>> /\ \A c \in Channels : row'[c] = row[c] \/ row'[c] = None
    BY <1>5, BeginEffect DEF BeginPass, BeginFrame
  <2>2. QED
    BY <1>b, <2>1 DEF Right
<1>6. ASSUME NEW i \in Instances, EndChecks(i) \/ EndPass(i) \/ Crash(i) \/ LoseConnection(i) PROVE NeverOverlooked'
  BY <1>d, <1>6 DEF EndChecks, EndPass, Crash, LoseConnection
<1>7. ASSUME NEW i \in Instances, NEW c \in Channels, Looks(i, c) PROVE NeverOverlooked'
  <2>1. CheckFrame(i, c) /\ UNCHANGED <<overtaken, unread>>
    BY <1>7, LooksFrame, LooksUnchanged
  <2>2. CASE row'[c] = None \/ SameRow(c)
    BY <1>a, <1>c, <2>1, <2>2 DEF CheckFrame, SameRow, Right
  <2>3. CASE /\ row[c] # None /\ row'[c] # None /\ row'[c].number = row[c].number
             /\ row'[c].state = "closed" =>
                  /\ work[i][c].was.spend # None /\ row'[c].closing = work[i][c].was.spend
                  /\ ~Revoked(work[i][c].was)
    <3> DEFINE was == work[i][c].was
    <3>1. ASSUME c \notin Excused, row'[c].state = "closed", row'[c].closing.by = "peer"
          PROVE  row'[c].number < row'[c].closing.number
      <4>1. was \in Rows /\ row[c] \in Rows /\ was.spend \in Closings
        BY <2>1, <2>3, <3>1 DEF CheckFrame, TypeOK, RowTypes, PassTypes, Checks, Rows
      <4>2. was.number \in Nat /\ row[c].number \in Nat /\ was.spend.number \in Nat
        BY <4>1, TowerAssumption DEF Rows, Closings
      <4>3. row[c].number <= was.number /\ ~(was.number >= was.spend.number)
        BY <2>1, <2>3, <3>1 DEF CheckFrame, ReadInv, Revoked
      <4>4. QED
        BY <2>3, <3>1, <4>2, <4>3
    <3>2. QED
      BY <1>c, <2>1, <3>1 DEF CheckFrame, Right
  <2>4. QED
    BY <2>1, <2>2, <2>3 DEF CheckFrame, Onward, Ended
<1>8. ASSUME NEW i \in Instances, NEW c \in Channels, Punish(i, c) PROVE NeverOverlooked'
  BY <1>d, <1>8 DEF Punish
<1>9. ASSUME NEW i \in Instances, NEW c \in Channels, Confirm(i, c) PROVE NeverOverlooked'
  <2>1. ConfirmFrame(c) /\ UNCHANGED <<overtaken, unread>>
    BY <1>9, ConfirmEffect DEF Confirm
  <2>2. QED
    BY <1>a, <1>c, <2>1 DEF ConfirmFrame, Right
<1>10. CASE UNCHANGED vars
  BY <1>d, <1>10 DEF vars
<1>11. QED
  BY <1>1, <1>2, <1>3, <1>4, <1>5, <1>6, <1>7, <1>8, <1>9, <1>10 DEF Next, Page, Pass, Check, Looks

-----------------------------------------------------------------------------
(* One tower, as long as nothing failed.                                   *)

(* Nothing failed before a step after which nothing failed. *)
LEMMA NoFaultYet ==
  ASSUME TypeOK, faults' = 0, UNCHANGED faults \/ faults' = faults + 1
  PROVE  faults = 0 /\ UNCHANGED faults
BY TowerAssumption DEF TypeOK, ChainTypes

(* Only the instance at work has checks, and it has the lock. *)
LEMMA TheTower ==
  ASSUME OneTower, faults = 0, NEW i \in Instances, phase[i] # "idle"
  PROVE  /\ lock = i
         /\ \A j \in Instances, c \in Channels : j # i => phase[j] = "idle" /\ work[j][c] = None
         /\ \A c \in Channels : work[i][c] # None =>
              phase[i] = "checking" /\ row[c] # None /\ row[c].penalty = work[i][c].was.penalty
BY DEF OneTower

(* Every step keeps OneTower. *)
LEMMA StepOneTower == TypeOK /\ ReadInv /\ OneTower /\ [Next]_vars => OneTower'
<1> SUFFICES ASSUME TypeOK, ReadInv, OneTower, [Next]_vars, faults' = 0 PROVE OneTower'
  BY DEF OneTower
<1>a. ASSUME UNCHANGED faults \/ faults' = faults + 1, UNCHANGED <<lock, phase, work, row>> PROVE OneTower'
  BY <1>a, NoFaultYet DEF OneTower
<1>b. ASSUME UNCHANGED <<faults, lock, phase, work>>, NEW c \in Channels, RowElsewhere(c),
             row[c] # None => row'[c] # None /\ row'[c].penalty = row[c].penalty
      PROVE  OneTower'
  BY <1>b DEF OneTower, RowElsewhere
<1>1. ASSUME NEW c \in Channels, Chain(c) PROVE OneTower'
  BY <1>a, <1>1, ChainLeaves DEF passVars
<1>2. ASSUME NEW c \in Channels, Page(c) \/ Age(c) PROVE OneTower'
  <2>1. UNCHANGED <<faults, lock, phase, work>>
    BY <1>2 DEF Page, Watch, StoreRevocation, Unwatch, Age, passVars
  <2>2. RowElsewhere(c) /\ (Appears(c) \/ Grows(c) \/ SameRow(c))
    BY <1>2, PageEffect DEF Page
  <2>3. QED
    BY <1>b, <2>1, <2>2 DEF Appears, Grows, SameRow
<1>3. ASSUME NEW i \in Instances, BeginPass(i) PROVE OneTower'
  <2>1. BeginFrame(i) /\ faults = 0
    BY <1>3, BeginEffect DEF BeginPass
  <2>2. ASSUME NEW j \in Instances, j # i
        PROVE  phase[j] = "idle" /\ \A c \in Channels : work[j][c] = None
    BY <2>1, <2>2, TowerAssumption DEF BeginFrame, OneTower
  <2>3. ASSUME NEW j \in Instances, j # i
        PROVE  phase'[j] = "idle" /\ \A c \in Channels : work'[j][c] = None
    BY <2>1, <2>2, <2>3 DEF BeginFrame
  <2>4. lock' = i /\ phase'[i] = "checking"
        /\ \A c \in Channels : work'[i][c] # None => row'[c] # None /\ row'[c].penalty = work'[i][c].was.penalty
    BY <2>1 DEF BeginFrame
  <2>5. QED
    BY <2>3, <2>4 DEF OneTower
<1>4. ASSUME NEW i \in Instances, EndChecks(i) \/ EndPass(i) PROVE OneTower'
  <2>1. /\ phase[i] # "idle" /\ UNCHANGED <<row, lock, work, faults>>
        /\ phase' \in {[phase EXCEPT ![i] = "confirming"], [phase EXCEPT ![i] = "idle"]}
        /\ phase[i] = "checking" => work[i] = NoWork
    BY <1>4 DEF EndChecks, EndPass
  <2>2. faults = 0 /\ phase \in [Instances -> {"idle", "checking", "confirming"}]
    BY <2>1 DEF TypeOK, PassTypes
  <2>3. lock = i /\ \A j \in Instances, c \in Channels : work[j][c] = None
    BY <2>1, <2>2, TheTower DEF NoWork
  <2>4. \A j \in Instances : j # i => phase'[j] = phase[j]
    BY <2>1, <2>2
  <2>5. QED
    BY <2>1, <2>2, <2>3, <2>4 DEF OneTower
<1>5. ASSUME NEW i \in Instances, Crash(i) \/ LoseConnection(i) PROVE OneTower'
  <2>1. faults' = faults + 1
    BY <1>5 DEF Crash, LoseConnection, Fault
  <2>2. QED
    BY <2>1, NoFaultYet, TowerAssumption DEF TypeOK, ChainTypes
<1>6. ASSUME NEW i \in Instances, NEW c \in Channels, Looks(i, c) PROVE OneTower'
  <2>1. CheckFrame(i, c) /\ UNCHANGED <<lock, phase, faults>> /\ faults = 0
    BY <1>6, LooksFrame, LooksUnchanged
  <2>2. phase[i] = "checking" /\ \A j \in Instances, d \in Channels : work[j][d] # None => j = i
    BY <2>1, TheTower DEF CheckFrame
  <2>3. \A j \in Instances, d \in Channels : j # i \/ d # c => work'[j][d] = work[j][d]
    BY <2>1 DEF CheckFrame, WorkElsewhere
  <2>4. work'[i][c] # None => row'[c] # None /\ row'[c].penalty = work'[i][c].was.penalty
    <3>1. row[c] # None /\ row[c].penalty = work[i][c].was.penalty
      BY <2>1 DEF CheckFrame, OneTower
    <3>2. QED
      BY <2>1, <3>1 DEF CheckFrame, Onward, Ended, SameRow
  <2>5. \A d \in Channels : d # c => row'[d] = row[d]
    BY <2>1 DEF CheckFrame, RowElsewhere
  <2>6. QED
    BY <2>1, <2>2, <2>3, <2>4, <2>5 DEF OneTower
<1>7. ASSUME NEW i \in Instances, NEW c \in Channels, Punish(i, c) PROVE OneTower'
  <2>1. PunishFrame(i, c) /\ UNCHANGED <<row, lock, phase>>
    BY <1>7, PunishEffect DEF Punish
  <2>2. faults = 0 /\ UNCHANGED faults
    BY <2>1, NoFaultYet DEF PunishFrame
  <2>3. \A j \in Instances, d \in Channels : j # i \/ d # c => work'[j][d] = work[j][d]
    BY <2>1 DEF PunishFrame, WorkElsewhere
  <2>4. work[i][c] # None /\ (work'[i][c] # None => work'[i][c].was = work[i][c].was)
    BY <2>1 DEF PunishFrame
  <2>5. QED
    BY <2>1, <2>2, <2>3, <2>4 DEF OneTower
<1>8. ASSUME NEW i \in Instances, NEW c \in Channels, Confirm(i, c) PROVE OneTower'
  <2>1. ConfirmFrame(c) /\ UNCHANGED <<lock, phase, work, faults>>
    BY <1>8, ConfirmEffect DEF Confirm
  <2>2. QED
    BY <1>b, <2>1 DEF ConfirmFrame
<1>9. CASE UNCHANGED vars
  BY <1>a, <1>9 DEF vars, passVars
<1>10. QED
  BY <1>1, <1>2, <1>3, <1>4, <1>5, <1>6, <1>7, <1>8, <1>9 DEF Next, Pass, Check, Looks

-----------------------------------------------------------------------------
(* One penalty, as long as nothing failed.                                 *)

\* The parts of OnePenalty for one channel.
ClaimOnChain(c) == claim[c] # None => closing[c] # None /\ place[c] # "pool"
PenaltyKnown(c) ==
    claim[c] # None /\ claim[c].by = "penalty" =>
        /\ claim[c].id # 0
        /\ row[c] # None => \/ row[c].penalty = claim[c].id
                            \/ \E i \in Instances : work[i][c] # None /\ work[i][c].stage = "record"
CheckOnTheWay(i, c) ==
    work[i][c] # None =>
        /\ work[i][c].stage \in {"sent", "live", "punish", "record"} => OnChain(c, work[i][c].was.spend)
        /\ work[i][c].stage \in {"live", "punish"} => claim[c] = None \/ claim[c].by = "peer"
        /\ work[i][c].stage = "record" => claim[c] # None /\ claim[c].by = "penalty" /\ claim[c].id = work[i][c].penalty
Penalized(c) == ClaimOnChain(c) /\ PenaltyKnown(c) /\ \A i \in Instances : CheckOnTheWay(i, c)

(* OnePenalty is the parts of every channel. *)
LEMMA PenaltyParts == OnePenalty <=> (faults = 0 => \A c \in Channels : Penalized(c))
BY DEF OnePenalty, Penalized, ClaimOnChain, PenaltyKnown, CheckOnTheWay

(* What happens on the chain without a fault keeps the parts. *)
LEMMA ChainPenalized ==
  ASSUME TypeOK, NEW c \in Channels, Penalized(c), Chain(c), UNCHANGED <<row, work>>, UNCHANGED faults
  PROVE  Penalized(c)'
<1> USE TowerAssumption DEF TypeOK, ChainTypes
<1>1. CASE Fund(c) \/ Revoke(c)
  BY <1>1 DEF Fund, Revoke, Penalized, ClaimOnChain, PenaltyKnown, CheckOnTheWay, OnChain
<1>2. ASSUME NEW tx \in Closings, Publish(c, tx) PROVE Penalized(c)'
  BY <1>2 DEF Publish, Penalized, ClaimOnChain, PenaltyKnown, CheckOnTheWay, OnChain
<1>3. CASE Bury(c)
  BY <1>3 DEF Bury, Penalized, ClaimOnChain, PenaltyKnown, CheckOnTheWay, OnChain
<1>4. CASE Unbury(c) \/ UnburyClaim(c)
  BY <1>4 DEF Unbury, UnburyClaim, Fault
<1>5. CASE PeerClaims(c)
  BY <1>5 DEF PeerClaims, Penalized, ClaimOnChain, PenaltyKnown, CheckOnTheWay, OnChain
<1>6. CASE BuryClaim(c)
  <2>1. claim[c] # None /\ claim[c] \in Claims /\ place[c] # "pool"
    BY <1>6 DEF BuryClaim
  <2>2. PICK p \in Places : claim' = [claim EXCEPT ![c].place = p]
    BY <1>6 DEF BuryClaim, Places
  <2> DEFINE new == [claim[c] EXCEPT !.place = p]
  <2>3. new \in Claims /\ new.by = claim[c].by /\ new.id = claim[c].id
    BY <2>1 DEF Claims
  <2>4. claim'[c] = new
    BY <2>2
  <2> HIDE DEF new
  <2>5. claim'[c] # None /\ claim'[c].by = claim[c].by /\ claim'[c].id = claim[c].id
    BY <2>3, <2>4
  <2>6. UNCHANGED <<closing, place>>
    BY <1>6 DEF BuryClaim
  <2>7. QED
    BY <2>1, <2>5, <2>6 DEF Penalized, ClaimOnChain, PenaltyKnown, CheckOnTheWay, OnChain
<1>7. QED
  BY <1>1, <1>2, <1>3, <1>4, <1>5, <1>6 DEF Chain

(* What happens on the chain of one channel leaves another's. *)
LEMMA ChainElsewhere ==
  ASSUME TypeOK, NEW c \in Channels, Chain(c), NEW d \in Channels, d # c
  PROVE  closing'[d] = closing[d] /\ place'[d] = place[d] /\ claim'[d] = claim[d]
BY DEF TypeOK, ChainTypes, Chain, Fund, Revoke, Publish, Bury, Unbury, PeerClaims, BuryClaim, UnburyClaim

(* A check that goes on keeps to the claim it has seen; one that ends leaves the row with the penalty of the claim. *)
LEMMA LooksPenalized ==
  ASSUME TypeOK, OneTower, faults = 0, NEW i \in Instances, NEW c \in Channels, Penalized(c),
         CheckFrame(i, c), work[i][c].stage = "record" => work'[i][c] = None, UNCHANGED <<closing, place, claim, phase>>
  PROVE  Penalized(c)'
<1>1. /\ phase[i] = "checking" /\ work[i][c] # None
      /\ row[c] # None /\ row[c].penalty = work[i][c].was.penalty
      /\ \A j \in Instances : j # i => work[j][c] = None /\ work'[j][c] = None
  BY TheTower DEF CheckFrame, WorkElsewhere
<1>2. ClaimOnChain(c)'
  BY DEF Penalized, ClaimOnChain
<1>3. ASSUME claim[c] # None, claim[c].by = "penalty", row'[c] # None PROVE row'[c].penalty = claim[c].id
  <2>1. CASE work[i][c].stage = "record"
    <3>1. claim[c].id = work[i][c].penalty /\ claim[c].id # 0
      BY <1>1, <1>3, <2>1 DEF Penalized, CheckOnTheWay, PenaltyKnown
    <3>2. Ended(i, c)
      BY <2>1 DEF CheckFrame, Onward
    <3>3. QED
      BY <1>1, <1>3, <2>1, <3>1, <3>2 DEF Ended
  <2>2. CASE work[i][c].stage # "record"
    <3>1. row[c].penalty = claim[c].id
      BY <1>1, <1>3, <2>2 DEF Penalized, PenaltyKnown
    <3>2. QED
      BY <1>1, <1>3, <2>2, <3>1 DEF CheckFrame, Onward, Ended, SameRow
  <2>3. QED
    BY <2>1, <2>2
<1>4. PenaltyKnown(c)'
  BY <1>3 DEF Penalized, PenaltyKnown
<1>5. CheckOnTheWay(i, c)'
  <2>1. SUFFICES ASSUME work'[i][c] # None PROVE CheckOnTheWay(i, c)'
    BY DEF CheckOnTheWay
  <2>2. Onward(i, c) /\ work[i][c].stage # "record"
    BY <2>1 DEF CheckFrame, Ended
  <2>3. CheckOnTheWay(i, c)
    BY DEF Penalized
  <2>4. work'[i][c].stage \in {"sent", "live", "punish"} => OnChain(c, work'[i][c].was.spend)
    BY <1>1, <2>2, <2>3 DEF Onward, CheckOnTheWay
  <2>5. ASSUME work'[i][c].stage \in {"live", "punish"}, claim[c] # None PROVE claim[c].by = "peer"
    <3>1. claim[c] \in Claims
      BY <2>5 DEF TypeOK, ChainTypes
    <3>2. claim[c].by \in {"peer", "penalty"} /\ claim[c].place # "unknown"
      BY <3>1 DEF Claims, Places
    <3>3. CASE work[i][c].stage = "live"
      BY <1>1, <2>3, <2>5, <3>3 DEF CheckOnTheWay
    <3>4. CASE work[i][c].stage # "live" /\ claim[c].by = "penalty"
      <4>1. claim[c].id # 0 /\ row[c].penalty = claim[c].id
        BY <1>1, <2>2, <2>5, <3>4 DEF Penalized, PenaltyKnown
      <4>2. PenaltyAt(c, work[i][c].was.penalty) # "unknown" /\ work[i][c].was.penalty # 0
        BY <1>1, <2>5, <3>2, <3>4, <4>1 DEF PenaltyAt
      <4>3. QED
        BY <2>2, <2>5, <3>4, <4>2 DEF Onward
    <3>5. QED
      BY <3>2, <3>3, <3>4
  <2>6. work'[i][c].stage # "record"
    BY <2>2 DEF Onward
  <2>7. QED
    BY <2>4, <2>5, <2>6 DEF CheckOnTheWay, OnChain
<1>6. \A j \in Instances : j # i => CheckOnTheWay(j, c)'
  BY <1>1 DEF CheckOnTheWay
<1>7. QED
  BY <1>2, <1>4, <1>5, <1>6 DEF Penalized

(* Nothing about another channel changes where neither its row, its checks nor its chain do. *)
LEMMA PenalizedElsewhere ==
  ASSUME NEW d \in Channels, Penalized(d), row'[d] = row[d], closing'[d] = closing[d], place'[d] = place[d],
         claim'[d] = claim[d], \A j \in Instances : work'[j][d] = work[j][d]
  PROVE  Penalized(d)'
BY DEF Penalized, ClaimOnChain, PenaltyKnown, CheckOnTheWay, OnChain

(* Every step keeps OnePenalty. *)
LEMMA StepOnePenalty == TypeOK /\ ReadInv /\ OneTower /\ OnePenalty /\ [Next]_vars => OnePenalty'
<1> SUFFICES ASSUME TypeOK, ReadInv, OneTower, OnePenalty, [Next]_vars, faults' = 0, NEW d \in Channels
             PROVE  Penalized(d)'
  BY PenaltyParts DEF OnePenalty, Penalized, ClaimOnChain, PenaltyKnown, CheckOnTheWay
<1>a. ASSUME UNCHANGED faults \/ faults' = faults + 1
      PROVE  faults = 0 /\ UNCHANGED faults /\ Penalized(d)
  BY <1>a, NoFaultYet, PenaltyParts
<1>b. ASSUME UNCHANGED faults, UNCHANGED <<closing, place, claim, row, work>> PROVE Penalized(d)'
  BY <1>a, <1>b, PenalizedElsewhere
<1>1. ASSUME NEW c \in Channels, Chain(c) PROVE Penalized(d)'
  <2>1. UNCHANGED <<row, work>> /\ (UNCHANGED faults \/ faults' = faults + 1)
    BY <1>1, ChainLeaves DEF passVars
  <2>2. Penalized(d) /\ UNCHANGED faults
    BY <1>a, <2>1
  <2>3. CASE c = d
    BY <1>1, <2>1, <2>2, <2>3, ChainPenalized
  <2>4. CASE c # d
    BY <1>1, <2>1, <2>2, <2>4, ChainElsewhere, PenalizedElsewhere
  <2>5. QED
    BY <2>3, <2>4
<1>2. ASSUME NEW c \in Channels, Page(c) \/ Age(c) PROVE Penalized(d)'
  <2>1. UNCHANGED <<faults, closing, place, claim, work>>
    BY <1>2 DEF Page, Watch, StoreRevocation, Unwatch, Age, passVars, chainVars
  <2>2. RowElsewhere(c) /\ ((Appears(c) /\ closing[c] = None) \/ Grows(c) \/ SameRow(c))
    BY <1>2, PageEffect DEF Page, Watch
  <2>3. Penalized(d)
    BY <1>a, <2>1
  <2>4. ClaimOnChain(d)' /\ \A i \in Instances : CheckOnTheWay(i, d)'
    BY <2>1, <2>3 DEF Penalized, ClaimOnChain, CheckOnTheWay, OnChain
  <2>5. PenaltyKnown(d)'
    <3>1. CASE claim[d] = None
      BY <2>1, <3>1 DEF PenaltyKnown
    <3>2. CASE claim[d] # None
      <4>1. closing[d] # None
        BY <2>3, <3>2 DEF Penalized, ClaimOnChain
      <4>2. row'[d] # None => row[d] # None /\ row'[d].penalty = row[d].penalty
        BY <2>2, <4>1 DEF RowElsewhere, Grows, SameRow
      <4>3. QED
        BY <2>1, <2>3, <4>2 DEF Penalized, PenaltyKnown
    <3>3. QED
      BY <3>1, <3>2
  <2>6. QED
    BY <2>4, <2>5 DEF Penalized
<1>3. ASSUME NEW i \in Instances, BeginPass(i) PROVE Penalized(d)'
  <2>1. BeginFrame(i) /\ UNCHANGED <<faults, closing, place, claim>>
    BY <1>3, BeginEffect DEF BeginPass, chainVars
  <2>2. Penalized(d) /\ faults = 0
    BY <1>a, <2>1
  <2>3. \A j \in Instances : work[j][d] = None
    BY <2>1, <2>2, TowerAssumption DEF BeginFrame, OneTower
  <2>4. \A j \in Instances : work'[j][d] # None => work'[j][d].stage = "scan"
    BY <2>1, <2>3 DEF BeginFrame
  <2>5. row'[d] \in {row[d], None}
    BY <2>1 DEF BeginFrame
  <2>6. QED
    BY <2>1, <2>2, <2>3, <2>4, <2>5 DEF Penalized, ClaimOnChain, PenaltyKnown, CheckOnTheWay
<1>4. ASSUME NEW i \in Instances, EndChecks(i) \/ EndPass(i) PROVE Penalized(d)'
  BY <1>b, <1>4 DEF EndChecks, EndPass, chainVars
<1>5. ASSUME NEW i \in Instances, Crash(i) \/ LoseConnection(i) PROVE Penalized(d)'
  <2>1. faults' = faults + 1
    BY <1>5 DEF Crash, LoseConnection, Fault
  <2>2. QED
    BY <2>1, NoFaultYet, TowerAssumption DEF TypeOK, ChainTypes
<1>6. ASSUME NEW i \in Instances, NEW c \in Channels, Looks(i, c) PROVE Penalized(d)'
  <2>1. CheckFrame(i, c) /\ UNCHANGED <<closing, place, claim, phase, faults>>
    BY <1>6, LooksFrame, LooksUnchanged DEF chainVars
  <2>2. Penalized(d) /\ faults = 0
    BY <1>a, <2>1
  <2>3. work[i][c].stage = "record" => work'[i][c] = None
    <3>1. SUFFICES ASSUME work[i][c].stage = "record" PROVE work'[i][c] = None
      OBVIOUS
    <3>2. RecordPenalty(i, c)
      BY <1>6, <3>1 DEF Looks, Scan, ScanFails, StillOpen, Assess, KeepWatching, LookForPenalty, LookAtCell, At
    <3>3. WorkTypes /\ Done(i, c)
      BY <3>2 DEF TypeOK, PassTypes, WorkTypes, RecordPenalty
    <3>4. QED
      BY <3>3, DoneEffect
  <2>4. CASE c = d
    BY <2>1, <2>2, <2>3, <2>4, LooksPenalized
  <2>5. CASE c # d
    BY <2>1, <2>2, <2>5, PenalizedElsewhere DEF CheckFrame, RowElsewhere, WorkElsewhere
  <2>6. QED
    BY <2>4, <2>5
<1>7. ASSUME NEW i \in Instances, NEW c \in Channels, Punish(i, c) PROVE Penalized(d)'
  <2>1. PunishFrame(i, c) /\ UNCHANGED <<row, closing, place>>
    BY <1>7, PunishEffect DEF Punish
  <2>2. Penalized(d) /\ faults = 0 /\ UNCHANGED faults
    BY <1>a, <2>1 DEF PunishFrame
  <2>3. CASE c # d
    BY <2>1, <2>2, <2>3, PenalizedElsewhere DEF PunishFrame, WorkElsewhere
  <2>4. CASE c = d
    <3>1. \A j \in Instances : j # i => work[j][d] = None /\ work'[j][d] = None
      BY <2>1, <2>2, <2>4, TheTower DEF PunishFrame, WorkElsewhere
    <3>2. CASE work'[i][c] = None /\ UNCHANGED claim
      BY <2>1, <2>2, <2>4, <3>1, <3>2 DEF PunishFrame, Penalized, ClaimOnChain, PenaltyKnown, CheckOnTheWay
    <3>3. CASE /\ work'[i][c] # None /\ work'[i][c].was = work[i][c].was /\ work'[i][c].stage = "record"
               /\ work'[i][c].penalty = penalties[c] + 1 /\ OnChain(c, Was(i, c).spend)
               /\ claim'[c] # None /\ claim'[c].by = "penalty" /\ claim'[c].id = penalties[c] + 1
      <4>1. penalties[c] + 1 # 0
        BY TowerAssumption DEF TypeOK, ChainTypes
      <4>2. ClaimOnChain(c)' /\ PenaltyKnown(c)'
        BY <2>1, <3>3, <4>1 DEF ClaimOnChain, PenaltyKnown, OnChain
      <4>3. CheckOnTheWay(i, c)'
        BY <2>1, <3>3 DEF CheckOnTheWay, OnChain, Was
      <4>4. \A j \in Instances : j # i => CheckOnTheWay(j, c)'
        BY <2>4, <3>1 DEF CheckOnTheWay
      <4>5. QED
        BY <2>4, <4>2, <4>3, <4>4 DEF Penalized
    <3>4. QED
      BY <2>1, <2>2, <3>2, <3>3, TowerAssumption DEF PunishFrame, TypeOK, ChainTypes
  <2>5. QED
    BY <2>3, <2>4
<1>8. ASSUME NEW i \in Instances, NEW c \in Channels, Confirm(i, c) PROVE Penalized(d)'
  <2>1. ConfirmFrame(c) /\ UNCHANGED <<closing, place, claim, work, faults>>
    BY <1>8, ConfirmEffect DEF Confirm, chainVars
  <2>2. Penalized(d)
    BY <1>a, <2>1
  <2>3. row'[d] # None => row[d] # None /\ row'[d].penalty = row[d].penalty
    BY <2>1 DEF ConfirmFrame, RowElsewhere
  <2>4. QED
    BY <2>1, <2>2, <2>3 DEF Penalized, ClaimOnChain, PenaltyKnown, CheckOnTheWay, OnChain
<1>9. CASE UNCHANGED vars
  BY <1>b, <1>9 DEF vars, passVars, chainVars
<1>10. QED
  BY <1>1, <1>2, <1>3, <1>4, <1>5, <1>6, <1>7, <1>8, <1>9 DEF Next, Pass, Check, Looks

-----------------------------------------------------------------------------
(* What is missed.                                                         *)

(* Every step keeps MissedToThePeer: a check on the way to a penalty, which finds the cell gone, finds the peer's claim. *)
LEMMA StepMissedToThePeer ==
  TypeOK /\ ReadInv /\ OneTower /\ OnePenalty /\ MissedToThePeer /\ [Next]_vars => MissedToThePeer'
<1> SUFFICES ASSUME TypeOK, ReadInv, OneTower, OnePenalty, MissedToThePeer, [Next]_vars, faults' = 0
             PROVE  MissedToThePeer'
  BY DEF MissedToThePeer
<1> DEFINE Lost(c) == claim[c] # None /\ claim[c].by = "peer" /\ place[c] # "pool" /\ claim[c].place # "pool"
<1>a. ASSUME UNCHANGED faults \/ faults' = faults + 1
      PROVE  /\ faults = 0 /\ UNCHANGED faults
             /\ \A c \in Channels : Penalized(c)
             /\ \A c \in Channels : row[c] # None /\ row[c].state = "missed" =>
                  claim[c] # None /\ claim[c].by = "peer" /\ claim[c].place # "pool"
  BY <1>a, NoFaultYet, PenaltyParts DEF MissedToThePeer
<1>b. ASSUME UNCHANGED <<faults, claim>>,
             \A c \in Channels : row'[c] # None /\ row'[c].state = "missed" => row[c] # None /\ row[c].state = "missed"
      PROVE  MissedToThePeer'
  BY <1>a, <1>b DEF MissedToThePeer
<1>1. ASSUME NEW c \in Channels, Chain(c) PROVE MissedToThePeer'
  <2>1. UNCHANGED row /\ (UNCHANGED faults \/ faults' = faults + 1)
    BY <1>1, ChainLeaves
  <2>2. \A d \in Channels : d # c => claim'[d] = claim[d]
    BY <1>1, ChainElsewhere
  <2>3. ASSUME claim[c] # None, claim[c].by = "peer", claim[c].place # "pool", UNCHANGED faults
        PROVE  claim'[c] # None /\ claim'[c].by = "peer" /\ claim'[c].place # "pool"
    <3>1. claim[c] \in Claims /\ claim \in [Channels -> Claims \cup {None}] /\ faults \in Nat
      BY <2>3 DEF TypeOK, ChainTypes
    <3>2. UNCHANGED claim \/ (claim[c].place = "chain" /\ claim' = [claim EXCEPT ![c].place = "final"])
      BY <1>1, <2>3, <3>1 DEF Chain, Fund, Revoke, Publish, Bury, Unbury, PeerClaims, BuryClaim, UnburyClaim,
         Fault
    <3> DEFINE new == [claim[c] EXCEPT !.place = "final"]
    <3>3. new \in Claims /\ new.by = claim[c].by /\ new.place = "final"
      BY <3>1 DEF Claims, Places
    <3>4. CASE claim' = [claim EXCEPT ![c].place = "final"]
      <4>1. claim'[c] = new
        BY <3>1, <3>4
      <4> HIDE DEF new
      <4>2. QED
        BY <2>3, <3>3, <4>1, TowerAssumption
    <3>5. QED
      BY <2>3, <3>2, <3>4
  <2>4. QED
    BY <1>a, <2>1, <2>2, <2>3 DEF MissedToThePeer
<1>2. ASSUME NEW c \in Channels, Page(c) \/ Age(c) PROVE MissedToThePeer'
  <2>1. UNCHANGED <<faults, claim>>
    BY <1>2 DEF Page, Watch, StoreRevocation, Unwatch, Age, chainVars
  <2>2. RowElsewhere(c) /\ (Appears(c) \/ Grows(c) \/ SameRow(c))
    BY <1>2, PageEffect DEF Page
  <2>3. QED
    BY <1>b, <2>1, <2>2 DEF RowElsewhere, Appears, Grows, SameRow
<1>3. ASSUME NEW i \in Instances, BeginPass(i) PROVE MissedToThePeer'
  <2>1. BeginFrame(i) /\ UNCHANGED <<faults, claim>>
    BY <1>3, BeginEffect DEF BeginPass, chainVars
  <2>2. QED
    BY <1>b, <2>1 DEF BeginFrame
<1>4. ASSUME NEW i \in Instances, EndChecks(i) \/ EndPass(i) PROVE MissedToThePeer'
  BY <1>b, <1>4 DEF EndChecks, EndPass, chainVars
<1>5. ASSUME NEW i \in Instances, Crash(i) \/ LoseConnection(i) PROVE MissedToThePeer'
  <2>1. faults' = faults + 1
    BY <1>5 DEF Crash, LoseConnection, Fault
  <2>2. QED
    BY <2>1, NoFaultYet, TowerAssumption DEF TypeOK, ChainTypes
<1>6. ASSUME NEW i \in Instances, NEW c \in Channels, Looks(i, c) PROVE MissedToThePeer'
  <2>1. CheckFrame(i, c) /\ UNCHANGED <<claim, faults>>
    BY <1>6, LooksFrame, LooksUnchanged DEF chainVars
  <2>2. ASSUME row'[c] # None, row'[c].state = "missed"
        PROVE  \/ row[c] # None /\ row[c].state = "missed"
               \/ claim[c] # None /\ claim[c].by = "peer" /\ claim[c].place # "pool"
    <3>1. CASE SameRow(c)
      BY <2>2, <3>1 DEF SameRow
    <3>2. CASE work[i][c].stage = "live" /\ ~Live(c, work[i][c].was.spend)
      <4>1. OnChain(c, work[i][c].was.spend) /\ (claim[c] = None \/ claim[c].by = "peer")
        BY <1>a, <2>1, <3>2 DEF CheckFrame, Penalized, CheckOnTheWay
      <4>2. QED
        BY <3>2, <4>1 DEF Live
    <3>3. QED
      BY <2>1, <2>2, <3>1, <3>2 DEF CheckFrame, Onward, Ended
  <2>3. \A d \in Channels : d # c => row'[d] = row[d]
    BY <2>1 DEF CheckFrame, RowElsewhere
  <2>4. QED
    BY <1>a, <2>1, <2>2, <2>3 DEF MissedToThePeer
<1>7. ASSUME NEW i \in Instances, NEW c \in Channels, Punish(i, c) PROVE MissedToThePeer'
  <2>1. PunishFrame(i, c) /\ UNCHANGED row
    BY <1>7, PunishEffect DEF Punish
  <2>2. faults = 0 /\ UNCHANGED faults
    BY <1>a, <2>1 DEF PunishFrame
  <2>3. \A d \in Channels : claim[d] # None => claim'[d] = claim[d]
    BY <2>1, <2>2, TowerAssumption DEF PunishFrame, TypeOK, ChainTypes
  <2>4. QED
    BY <1>a, <2>1, <2>2, <2>3 DEF MissedToThePeer
<1>8. ASSUME NEW i \in Instances, NEW c \in Channels, Confirm(i, c) PROVE MissedToThePeer'
  <2>1. ConfirmFrame(c) /\ UNCHANGED <<claim, faults>>
    BY <1>8, ConfirmEffect DEF Confirm, chainVars
  <2>2. QED
    BY <1>b, <2>1 DEF ConfirmFrame, RowElsewhere
<1>9. CASE UNCHANGED vars
  BY <1>b, <1>9 DEF vars, passVars, chainVars
<1>10. QED
  BY <1>1, <1>2, <1>3, <1>4, <1>5, <1>6, <1>7, <1>8, <1>9 DEF Next, Pass, Check, Looks

-----------------------------------------------------------------------------
(* Theorems.                                                               *)

(* The inductive invariant. *)
LEMMA TowerInvariant == Spec => []IInv
<1>1. IInv /\ [Next]_vars => IInv'
  BY StepTypeOK, StepReadInv, StepOneTower, StepOnePenalty, StepNeverOverlooked, StepMissedToThePeer DEF IInv
<1>2. QED
  BY <1>1, InitIInv, PTL DEF Spec

(* Rows, checks and the chain stay what they are meant to be, whatever fails and however the requests of the page come
   in between. *)
THEOREM TowerTypes == Spec => []TypeOK
<1>1. IInv => TypeOK
  BY DEF IInv
<1>2. QED
  BY <1>1, TowerInvariant, PTL

(* A channel that the watchtower takes for closed by the peer's current commitment is one whose stored revocation does
   not cover that commitment, unless the revocation came after the close or while a pass was checking the channel. *)
THEOREM NothingOverlooked == Spec => []NeverOverlooked
<1>1. IInv => NeverOverlooked
  BY DEF IInv
<1>2. QED
  BY <1>1, TowerInvariant, PTL

(* A revoked commitment that the watchtower takes for missed was claimed by the peer, never by a penalty of its own, as
   long as nothing was reorganized or failed. *)
THEOREM OnlyThePeerWins == Spec => []MissedToThePeer
<1>1. IInv => MissedToThePeer
  BY DEF IInv
<1>2. QED
  BY <1>1, TowerInvariant, PTL

-----------------------------------------------------------------------------
(***************************************************************************)
(* JoyId, for any users, requests and moves.  With the window transport    *)
(* the invariant says what makes silence harmless: a window that was away  *)
(* and whose request is not recorded has been left, and the tab was told.  *)
(* With the redirect transport it says which requests the pages of the     *)
(* session history hold, shown or kept: no two pages hold one, and none    *)
(* that is still recorded or was applied.                                  *)
(***************************************************************************)

(* One transport is used: the other one's state is as it was at the start. *)
NoWindow == tab.pc = "idle" /\ air = <<>> /\ go = 0 /\ window.at = "none"
NoRedirect ==
    /\ page.check = "none" /\ page.job = 0 /\ history[pos].site = "app"
    /\ over = {} /\ applied = <<>>

(* The requests, of whoever's session it was. *)
RequestTypes == requests \in Seq([step : Steps, user : Users \cup {0}]) /\ session \in Users \cup {0}

(* What is running in the window transport. *)
Message == [kind : {"ready", "gone", "response"}, request : Nat, answer : Kinds \cup {"none"}]
WindowTypes ==
    /\ tab = [pc |-> tab.pc, request |-> tab.request]
    /\ tab.pc \in {"idle", "ready", "response", "signing", "settled"}
    /\ window = [at |-> window.at, request |-> window.request, kind |-> window.kind, toJoyId |-> window.toJoyId]
    /\ window.at \in {"none", "loading", "page", "joyid", "closed"} /\ window.toJoyId \in BOOLEAN
    /\ air \in Seq(Message) /\ responses \in Seq(Message) /\ go \in Nat
    /\ window.request \in Nat /\ window.kind \in Kinds /\ tab.request \in Nat
Started ==
    /\ tab.pc = "idle" => window.at = "none" /\ window.request = 0 /\ go = 0
    /\ tab.pc # "idle" => window.at # "none" /\ tab.request # 0

(* The tab was told, or will be, that the window is gone or was reloaded. *)
GoneSaid == "gone" \in told \/ \E i \in DOMAIN air : air[i].kind = "gone"
(* A window that is away has left a record its answer is for. *)
Away == window.at \in {"joyid", "loading"} \/ (window.at = "page" /\ window.toJoyId)
AwayInv ==
    tab.pc \in {"ready", "response", "signing"} /\ window.request # 0 /\ Away => window.request \in stored \/ GoneSaid
WindowInv == transport = "window" => NoRedirect /\ WindowTypes /\ Started /\ AwayInv /\ WaitsForJoyId

(* What the session history holds. *)
Pages == [user : Users \cup {0}, wallet : {"none", "ready", "failed"}, left : Nat,
          check : {"none", "taken", "accepted", "refused", "continuing"}, answer : Nat, kind : Kinds,
          job : Nat, working : Nat, status : {"none", "checking", "continuing", "applying", "failed", "done"}]
Entries == [site : {"app", "joyid"}, request : Nat, kept : Seq(Pages)]
HistoryTypes ==
    /\ history \in Seq(Entries) /\ pos \in DOMAIN history /\ page \in Pages
    /\ \A i \in DOMAIN history : history[i].kept # <<>> => history[i].site = "app"
    /\ applied \in Seq(Nat)

(* The pages of the app there are, shown or kept, and the requests whose answers they hold. *)
HasPage(i) == i \in DOMAIN history /\ history[i].site = "app" /\ (i = pos \/ history[i].kept # <<>>)
PageAt(i) == IF i = pos THEN page ELSE Head(history[i].kept)
Held(p) == ((IF p.check \in {"taken", "accepted", "refused"} THEN {p.answer} ELSE {}) \cup {p.job}) \ {0}

PagesInv ==
    /\ \A i \in DOMAIN history : HasPage(i) =>
          /\ Held(PageAt(i)) \subseteq Requests \ (stored \cup Range(applied))
          /\ PageAt(i).left \in Requests \cup {0}
          /\ PageAt(i).check # "none" => PageAt(i).job = 0
          /\ PageAt(i).check = "accepted" => PageAt(i).answer # 0
    /\ \A i, j \in DOMAIN history : HasPage(i) /\ HasPage(j) /\ i # j => Held(PageAt(i)) \cap Held(PageAt(j)) = {}
RecordsInv == stored \subseteq Requests /\ over \subseteq Requests /\ Range(applied) \subseteq Requests
RedirectInv == transport = "redirect" => NoWindow /\ HistoryTypes /\ PagesInv /\ RecordsInv /\ AnsweredOnce

JoyIdInv == transport \in {"window", "redirect"} /\ RequestTypes /\ WindowInv /\ RedirectInv

(* A request is new, and recorded with its step and its user. *)
LEMMA NextIdIsNew ==
    ASSUME RequestTypes
    PROVE  /\ NextId \in Nat \ {0} /\ Requests \subseteq Nat \ {0} /\ NextId \notin Requests
           /\ \A step \in Steps, u \in Users \cup {0} :
                requests' = Append(requests, Request(step, u)) =>
                    /\ requests' \in Seq([step : Steps, user : Users \cup {0}])
                    /\ Requests' = Requests \cup {NextId}
<1> DEFINE R == [step : Steps, user : Users \cup {0}]
<1>1. requests \in Seq(R)
  BY DEF RequestTypes
<1>2. Len(requests) \in Nat /\ DOMAIN requests = 1 .. Len(requests)
  BY <1>1, LenProperties
<1>3. ASSUME NEW step \in Steps, NEW u \in Users \cup {0}, requests' = Append(requests, Request(step, u))
      PROVE  requests' \in Seq(R) /\ DOMAIN requests' = DOMAIN requests \cup {NextId}
  <2>1. Request(step, u) \in R
    BY DEF Request
  <2> HIDE DEF R
  <2>2. requests' \in Seq(R) /\ Len(requests') = Len(requests) + 1
    BY <1>1, <1>3, <2>1, AppendProperties
  <2>3. DOMAIN requests' = 1 .. Len(requests) + 1
    BY <2>2, LenProperties
  <2>4. QED
    BY <1>2, <2>2, <2>3 DEF NextId
<1>4. NextId \in Nat \ {0} /\ Requests \subseteq Nat \ {0} /\ NextId \notin Requests
  BY <1>2 DEF NextId, Requests
<1> HIDE DEF R
<1>5. QED
  BY <1>3, <1>4 DEF Requests, R

(* What the window posts to a run that is not over arrives, and hides nothing that was posted before. *)
LEMMA Posted ==
    ASSUME NEW m \in Message, air \in Seq(Message), tab.pc # "settled", Post(m), told' = told
    PROVE  air' \in Seq(Message) /\ air' # <<>> /\ (GoneSaid \/ m.kind = "gone" => GoneSaid')
<1>1. air' = Append(air, m)
  BY DEF Post
<1>2. /\ air' \in Seq(Message) /\ Len(air') = Len(air) + 1 /\ Len(air) \in Nat
      /\ \A i \in 1 .. Len(air) : air'[i] = air[i]
      /\ air'[Len(air) + 1] = m
  BY <1>1, AppendProperties, LenProperties
<1>3. DOMAIN air = 1 .. Len(air) /\ DOMAIN air' = 1 .. Len(air) + 1
  BY <1>2, LenProperties
<1>4. QED
  BY <1>2, <1>3 DEF GoneSaid

(* Posting or not, what is under way stays a sequence of messages. *)
LEMMA NothingPosted ==
    ASSUME NEW m \in Message, air \in Seq(Message), Post(m) \/ UNCHANGED air
    PROVE  air' \in Seq(Message)
  BY AppendProperties DEF Post

(* The two messages of the window that answer nothing. *)
LEMMA Messages ==
    /\ [kind |-> "ready", request |-> 0, answer |-> "none"] \in Message
    /\ [kind |-> "gone", request |-> 0, answer |-> "none"] \in Message
  BY DEF Message, Kinds

(* What a step of the window transport keeps, when the redirect's state stays. *)
Running == WindowTypes /\ Started /\ AwayInv /\ WaitsForJoyId

(* A run that is over waits for nothing. *)
LEMMA Settles == ASSUME Running, tab.pc # "idle", Settle PROVE Running'
<1>1. /\ tab' = [pc |-> "settled", request |-> tab.request]
      /\ air' = <<>> /\ responses' = <<>> /\ go' = 0
  BY DEF Settle, Running, WindowTypes
<1>2. /\ window' = [at |-> window'.at, request |-> window.request, kind |-> window.kind, toJoyId |-> window.toJoyId]
      /\ window'.at \in {"closed", window.at}
  BY DEF Settle, Running, WindowTypes
<1>3. WindowTypes'
  BY <1>1, <1>2 DEF Running, WindowTypes
<1>4. Started'
  BY <1>1, <1>2 DEF Running, Started
<1>5. AwayInv' /\ WaitsForJoyId'
  BY <1>1 DEF AwayInv, WaitsForJoyId
<1>6. QED
  BY <1>3, <1>4, <1>5 DEF Running

(* The window opens: the run waits for it to load. *)
LEMMA OpenHelperStep ==
    ASSUME Running, RequestTypes, NEW step \in Steps, OpenHelper(step)
    PROVE  Running'
<1>1. NextId \in Nat \ {0}
  BY NextIdIsNew
<1>2. /\ tab.pc = "idle" /\ tab' = [pc |-> "ready", request |-> NextId]
      /\ window' = [at |-> "loading", request |-> window.request, kind |-> window.kind, toJoyId |-> window.toJoyId]
      /\ window.request = 0
      /\ UNCHANGED <<air, responses, go, told>>
  BY DEF OpenHelper, Running, WindowTypes, Started
<1>3. WindowTypes'
  BY <1>1, <1>2 DEF Running, WindowTypes
<1>4. Started'
  BY <1>1, <1>2 DEF Started
<1>5. AwayInv' /\ WaitsForJoyId'
  BY <1>2 DEF AwayInv, WaitsForJoyId
<1>6. QED
  BY <1>3, <1>4, <1>5 DEF Running

(* A message that is received is remembered, whichever it is. *)
LEMMA ReceiveStep == ASSUME Running, Receive PROVE Running'
<1>1. air # <<>> /\ air \in Seq(Message) /\ air' = Tail(air) /\ UNCHANGED <<tab, window, go, stored>>
  BY DEF Receive, Running, WindowTypes
<1>2. /\ Head(air) \in Message /\ Head(air) = air[1] /\ Tail(air) \in Seq(Message) /\ Len(Tail(air)) = Len(air) - 1
      /\ \A i \in 1 .. Len(Tail(air)) : Tail(air)[i] = air[i + 1]
  BY <1>1, HeadTailProperties
<1>3. DOMAIN air = 1 .. Len(air) /\ Len(air) \in Nat /\ DOMAIN air' = 1 .. Len(air) - 1
  BY <1>1, <1>2, LenProperties
<1>4. /\ responses' \in Seq(Message) /\ (told' # {} \/ responses' # <<>>)
      /\ told \subseteq told' /\ (air[1].kind = "gone" => "gone" \in told')
  <2>1. CASE Head(air).kind = "response"
    <3>1. responses \in Seq(Message) /\ responses' = Append(responses, Head(air)) /\ told' = told
      BY <2>1 DEF Receive, Running, WindowTypes
    <3>2. responses' \in Seq(Message) /\ Len(responses') = Len(responses) + 1 /\ Len(responses) \in Nat
      BY <1>2, <3>1, AppendProperties, LenProperties
    <3>3. QED
      BY <1>2, <2>1, <3>1, <3>2
  <2>2. CASE Head(air).kind # "response"
    BY <1>2, <2>2 DEF Receive, Running, WindowTypes
  <2>3. QED
    BY <2>1, <2>2
<1>5. WindowTypes'
  BY <1>1, <1>2, <1>4 DEF Running, WindowTypes
<1>6. Started' /\ WaitsForJoyId'
  BY <1>1, <1>4 DEF Running, Started, WaitsForJoyId
<1>7. GoneSaid => GoneSaid'
  <2>1. ASSUME NEW i \in DOMAIN air, air[i].kind = "gone" PROVE GoneSaid'
    <3>1. CASE i = 1
      BY <1>4, <2>1, <3>1 DEF GoneSaid
    <3>2. CASE i # 1
      <4>1. i - 1 \in DOMAIN air' /\ air'[i - 1] = air[i]
        BY <1>1, <1>2, <1>3, <3>2
      <4>2. QED
        BY <2>1, <4>1 DEF GoneSaid
    <3>3. QED
      BY <3>1, <3>2
  <2>2. QED
    BY <1>4, <2>1 DEF GoneSaid
<1>8. AwayInv'
  BY <1>1, <1>7 DEF Running, AwayInv, Away
<1>9. QED
  BY <1>5, <1>6, <1>8 DEF Running

(* The window is lost: the run is over. *)
LEMMA WindowLostStep == ASSUME Running, WindowLost PROVE Running'
  BY Settles DEF WindowLost

(* The run gives up. *)
LEMMA RunGivesUpStep == ASSUME Running, RunGivesUp PROVE Running'
  BY Settles DEF RunGivesUp

(* A run that posts its request has it under way, and remembers that the window is gone if it was told. *)
LEMMA AskStep ==
    ASSUME Running, NEW r \in Nat \ {0}, Ask(r), tab.pc \in {"ready", "signing"},
           UNCHANGED <<stored, responses, air, window>>
    PROVE  Running'
<1>1. tab' = [pc |-> "response", request |-> r] /\ go' = r /\ ("gone" \in told => "gone" \in told')
  BY DEF Ask
<1>2. WindowTypes' /\ Started' /\ WaitsForJoyId'
  BY <1>1 DEF Running, WindowTypes, Started, WaitsForJoyId
<1>3. AwayInv'
  BY <1>1 DEF Running, AwayInv, Away, GoneSaid
<1>4. QED
  BY <1>2, <1>3 DEF Running

(* The window is ready: it is sent the request. *)
LEMMA HelperReadyStep == ASSUME Running, HelperReady PROVE Running'
  BY AskStep DEF HelperReady, Running, WindowTypes, Started

(* After a connect the sign step is posted to the window. *)
LEMMA SignStepStep == ASSUME Running, RequestTypes, SignStep PROVE Running'
<1>1. NextId \in Nat \ {0}
  BY NextIdIsNew
<1>2. QED
  BY <1>1, AskStep, Settles DEF SignStep

(* JoyID's answer ends the run, or is the connect's. *)
LEMMA HelperRespondsStep == ASSUME Running, HelperResponds PROVE Running'
<1>1. CASE Settle
  BY <1>1, Settles DEF HelperResponds
<1>2. CASE tab' = [tab EXCEPT !.pc = "signing"] /\ responses' = Tail(responses) /\ UNCHANGED <<told, air, go, window, stored>>
  <2>1. responses # <<>> /\ tab.pc = "response" /\ tab' = [pc |-> "signing", request |-> tab.request]
    BY <1>2 DEF HelperResponds, Running, WindowTypes
  <2>2. responses' \in Seq(Message)
    BY <1>2, <2>1, HeadTailProperties DEF Running, WindowTypes
  <2>3. WindowTypes' /\ Started' /\ WaitsForJoyId'
    BY <1>2, <2>1, <2>2 DEF Running, WindowTypes, Started, WaitsForJoyId
  <2>4. AwayInv'
    BY <1>2, <2>1 DEF Running, AwayInv, Away, GoneSaid
  <2>5. QED
    BY <2>3, <2>4 DEF Running
<1>3. QED
  BY <1>1, <1>2 DEF HelperResponds

(* The window loads: it says that it is ready or brings the answer.  With an answer to a request that is not recorded
   it says nothing: it was away, and the tab was told that it had been left. *)
LEMMA HelperLoadsStep == ASSUME Running, HelperLoads PROVE Running'
<1>1. /\ window.at = "loading" /\ UNCHANGED <<tab, told, responses, go>>
      /\ window' = [at |-> "page", request |-> window.request, kind |-> window.kind, toJoyId |-> FALSE]
  BY DEF HelperLoads, Running, WindowTypes
<1> DEFINE m == [kind |-> "response", request |-> window.request, answer |-> window.kind]
           ready == [kind |-> "ready", request |-> 0, answer |-> "none"]
<1>2. m \in Message /\ ready \in Message
  BY DEF Running, WindowTypes, Message, Kinds
<1> HIDE DEF m, ready
<1>3. Post(ready) \/ Post(m) \/ UNCHANGED air
  BY DEF HelperLoads, m, ready
<1>4. air' \in Seq(Message)
  BY <1>2, <1>3, NothingPosted DEF Running, WindowTypes
<1>5. WindowTypes' /\ Started'
  BY <1>1, <1>4 DEF Running, WindowTypes, Started
<1>6. AwayInv'
  BY <1>1 DEF AwayInv, Away
<1>7. tab.pc = "response" => told' # {} \/ air' # <<>>
  <2> SUFFICES ASSUME tab.pc = "response" PROVE told' # {} \/ air' # <<>>
    OBVIOUS
  <2>1. CASE Post(ready) \/ Post(m)
    BY <1>1, <1>2, <2>1, Posted DEF Running, WindowTypes
  <2>2. CASE ~(Post(ready) \/ Post(m))
    <3>1. window.request # 0 /\ window.request \notin stored /\ UNCHANGED air
      BY <2>2 DEF HelperLoads, m, ready
    <3>2. GoneSaid
      BY <1>1, <3>1 DEF Running, AwayInv, Away
    <3>3. QED
      BY <1>1, <3>1, <3>2 DEF GoneSaid
  <2>3. QED
    BY <2>1, <2>2
<1>8. WaitsForJoyId'
  BY <1>1, <1>7 DEF WaitsForJoyId
<1>9. QED
  BY <1>5, <1>6, <1>8 DEF Running

(* The window records the request it is sent and goes to JoyID, or is not there to be sent it. *)
LEMMA HelperGoesStep == ASSUME Running, HelperGoes PROVE Running'
<1>1. go # 0 /\ go' = 0 /\ UNCHANGED <<tab, told, responses, air>> /\ GoneSaid' = GoneSaid
  BY DEF HelperGoes, GoneSaid
<1>2. CASE window.at = "page"
  <2>1. /\ window' = [at |-> "page", request |-> go, kind |-> window.kind, toJoyId |-> TRUE] /\ go \in stored'
    BY <1>2 DEF HelperGoes, Running, WindowTypes
  <2>2. WindowTypes' /\ Started' /\ WaitsForJoyId'
    BY <1>1, <1>2, <2>1 DEF Running, WindowTypes, Started, WaitsForJoyId
  <2>3. AwayInv'
    BY <2>1 DEF AwayInv
  <2>4. QED
    BY <2>2, <2>3 DEF Running
<1>3. CASE window.at # "page"
  <2>1. UNCHANGED <<window, stored>>
    BY <1>3 DEF HelperGoes
  <2>2. WindowTypes' /\ Started' /\ AwayInv'
    BY <1>1, <2>1 DEF Running, WindowTypes, Started, AwayInv, Away
  <2>3. WaitsForJoyId'
    BY <1>1, <1>3, <2>1 DEF Running, WindowTypes, Started, WaitsForJoyId
  <2>4. QED
    BY <2>2, <2>3 DEF Running
<1>4. QED
  BY <1>2, <1>3

(* The window moves, and tells the tab when it leaves a page of this site for anything but JoyID. *)
LEMMA WindowMoves ==
    ASSUME Running, UNCHANGED <<tab, told, responses, go, stored>>, window.at # "none",
           UNCHANGED air \/ Post([kind |-> "gone", request |-> 0, answer |-> "none"]),
           window' = [at |-> window'.at, request |-> window'.request, kind |-> window'.kind, toJoyId |-> window'.toJoyId],
           window'.at \in {"loading", "page", "joyid", "closed"}, window'.toJoyId \in BOOLEAN,
           window'.request \in {0, window.request}, window'.kind \in Kinds,
           window'.at = "page" => Post([kind |-> "gone", request |-> 0, answer |-> "none"]),
           window'.request # 0 /\ Away' => Away \/ Post([kind |-> "gone", request |-> 0, answer |-> "none"])
    PROVE  Running'
<1> DEFINE gone == [kind |-> "gone", request |-> 0, answer |-> "none"]
<1>1. gone \in Message /\ gone.kind = "gone"
  BY Messages
<1> HIDE DEF gone
<1>2. air' \in Seq(Message)
  BY <1>1, NothingPosted DEF Running, WindowTypes, gone
<1>3. WindowTypes'
  BY <1>2 DEF Running, WindowTypes
<1>4. Started'
  BY DEF Running, Started, WindowTypes
<1>5. tab.pc # "settled" /\ Post(gone) => GoneSaid' /\ air' # <<>>
  BY <1>1, Posted DEF Running, WindowTypes
<1>6. tab.pc # "settled" /\ GoneSaid => GoneSaid'
  <2>1. CASE UNCHANGED air
    BY <2>1 DEF GoneSaid
  <2>2. CASE Post(gone)
    BY <1>5, <2>2
  <2>3. QED
    BY <2>1, <2>2 DEF gone
<1>7. AwayInv'
  BY <1>5, <1>6 DEF Running, AwayInv, gone
<1>8. WaitsForJoyId'
  BY <1>5 DEF WaitsForJoyId, gone
<1>9. QED
  BY <1>3, <1>4, <1>7, <1>8 DEF Running

(* The window is at JoyID's page. *)
LEMMA HelperAtJoyIdStep == ASSUME Running, HelperAtJoyId PROVE Running'
<1>1. /\ window' = [at |-> "joyid", request |-> window.request, kind |-> window.kind, toJoyId |-> window.toJoyId]
      /\ window.at = "page" /\ window.toJoyId /\ UNCHANGED <<tab, told, responses, go, stored, air>>
  BY DEF HelperAtJoyId, Running, WindowTypes
<1>2. Away
  BY <1>1 DEF Away
<1>3. QED
  BY <1>1, <1>2, WindowMoves DEF Running, WindowTypes

(* JoyID answers: the window loads again. *)
LEMMA JoyIdAnswersStep == ASSUME Running, NEW kind \in Kinds, JoyIdAnswers(kind) PROVE Running'
<1>1. /\ window' = [at |-> "loading", request |-> window.request, kind |-> kind, toJoyId |-> window.toJoyId]
      /\ window.at = "joyid" /\ UNCHANGED <<tab, told, responses, go, stored, air>>
  BY DEF JoyIdAnswers, Running, WindowTypes
<1>2. Away
  BY <1>1 DEF Away
<1>3. QED
  BY <1>1, <1>2, WindowMoves DEF Running, WindowTypes

(* The window is closed, and says so from a page of this site. *)
LEMMA HelperClosedStep == ASSUME Running, HelperClosed PROVE Running'
<1>1. /\ window' = [at |-> "closed", request |-> window.request, kind |-> window.kind, toJoyId |-> window.toJoyId]
      /\ window.at # "none" /\ UNCHANGED <<tab, told, responses, go, stored>>
      /\ UNCHANGED air \/ Post([kind |-> "gone", request |-> 0, answer |-> "none"])
  BY DEF HelperClosed, Hide, Running, WindowTypes
<1>2. ~Away'
  BY <1>1 DEF Away
<1>3. QED
  BY <1>1, <1>2, WindowMoves DEF Running, WindowTypes

(* The window is reloaded, and says so. *)
LEMMA HelperReloadsStep == ASSUME Running, HelperReloads PROVE Running'
<1>1. /\ window' = [at |-> "loading", request |-> 0, kind |-> window.kind, toJoyId |-> window.toJoyId]
      /\ window.at = "page" /\ UNCHANGED <<tab, told, responses, go, stored>>
      /\ UNCHANGED air \/ Post([kind |-> "gone", request |-> 0, answer |-> "none"])
  BY DEF HelperReloads, Hide, Running, WindowTypes
<1>2. QED
  BY <1>1, WindowMoves DEF Running, WindowTypes

(* The window goes back from JoyID's page, into the page the browser kept, which says so, or into a new one. *)
LEMMA HelperBackStep == ASSUME Running, HelperBack PROVE Running'
<1>1. window.at = "joyid" /\ UNCHANGED <<tab, told, responses, go, stored>>
  BY DEF HelperBack
<1>2. CASE /\ window' = [window EXCEPT !.at = "page", !.request = 0, !.toJoyId = FALSE]
           /\ Post([kind |-> "gone", request |-> 0, answer |-> "none"])
  <2>1. window' = [at |-> "page", request |-> 0, kind |-> window.kind, toJoyId |-> FALSE]
    BY <1>2 DEF Running, WindowTypes
  <2>2. QED
    BY <1>1, <1>2, <2>1, WindowMoves DEF Running, WindowTypes
<1>3. CASE window' = [window EXCEPT !.at = "loading", !.request = 0] /\ UNCHANGED air
  <2>1. window' = [at |-> "loading", request |-> 0, kind |-> window.kind, toJoyId |-> window.toJoyId]
    BY <1>3 DEF Running, WindowTypes
  <2>2. QED
    BY <1>1, <1>3, <2>1, WindowMoves DEF Running, WindowTypes
<1>4. QED
  BY <1>2, <1>3 DEF HelperBack

(* The window goes back from its own page to JoyID's, and says so. *)
LEMMA HelperBackToJoyIdStep == ASSUME Running, HelperBackToJoyId PROVE Running'
<1>1. /\ window' = [at |-> "joyid", request |-> window.request, kind |-> window.kind, toJoyId |-> window.toJoyId]
      /\ window.at = "page" /\ UNCHANGED <<tab, told, responses, go, stored>>
      /\ Post([kind |-> "gone", request |-> 0, answer |-> "none"])
  BY DEF HelperBackToJoyId, Hide, Running, WindowTypes
<1>2. QED
  BY <1>1, WindowMoves DEF Running, WindowTypes

(* What holds of the redirect transport, when the window's state stays. *)
Redirected == HistoryTypes /\ PagesInv /\ RecordsInv /\ AnsweredOnce

(* The tab's place is an entry of its history. *)
LEMMA HistoryLength ==
    ASSUME Redirected
    PROVE  Len(history) \in Nat /\ DOMAIN history = 1 .. Len(history) /\ pos \in 1 .. Len(history)
  BY LenProperties DEF Redirected, HistoryTypes

(* The kept page of an entry is a page. *)
LEMMA KeptPage ==
    ASSUME Redirected, NEW i \in DOMAIN history, history[i].kept # <<>>
    PROVE  Head(history[i].kept) \in Pages
<1>1. history[i] \in Entries
  BY LenProperties, ElementOfSeq DEF Redirected, HistoryTypes
<1>2. history[i].kept \in Seq(Pages)
  BY <1>1 DEF Entries
<1>3. QED
  BY <1>2, HeadTailProperties

(* The page that is shown changes, and lets go of what it held or keeps it. *)
LEMMA PageChanges ==
    ASSUME Redirected, InApp, RequestTypes', UNCHANGED <<requests, stored, history, pos>>,
           page' \in Pages, Held(page') \subseteq Held(page), page'.left = page.left,
           page'.check # "none" => page'.job = 0, page'.check = "accepted" => page'.answer # 0,
           over' \subseteq over \cup Held(page),
           applied' \in Seq(Nat), IsInjective(applied'),
           Range(applied') \subseteq Range(applied) \cup (Held(page) \ Held(page'))
    PROVE  Redirected'
<1>1. pos \in DOMAIN history /\ HasPage(pos) /\ PageAt(pos) = page /\ PageAt(pos)' = page'
  BY DEF Redirected, HistoryTypes, HasPage, PageAt, InApp
<1>2. /\ Held(page) \subseteq Requests \ (stored \cup Range(applied)) /\ page.left \in Requests \cup {0}
      /\ Requests' = Requests
  BY <1>1 DEF Redirected, PagesInv, Requests
<1>3. /\ \A i \in DOMAIN history : HasPage(i)' <=> HasPage(i)
      /\ \A i \in DOMAIN history : i # pos => PageAt(i)' = PageAt(i)
  BY DEF HasPage, PageAt
<1>4. HistoryTypes'
  BY DEF Redirected, HistoryTypes
<1>5. ASSUME NEW i \in DOMAIN history, HasPage(i)
      PROVE  /\ Held(PageAt(i)') \subseteq Requests \ (stored \cup Range(applied'))
             /\ PageAt(i)'.left \in Requests \cup {0}
             /\ PageAt(i)'.check # "none" => PageAt(i)'.job = 0
             /\ PageAt(i)'.check = "accepted" => PageAt(i)'.answer # 0
  <2>1. CASE i = pos
    BY <1>1, <1>2, <2>1
  <2>2. CASE i # pos
    <3>1. /\ Held(PageAt(i)) \subseteq Requests \ (stored \cup Range(applied)) /\ PageAt(i).left \in Requests \cup {0}
          /\ PageAt(i).check # "none" => PageAt(i).job = 0
          /\ PageAt(i).check = "accepted" => PageAt(i).answer # 0
          /\ Held(PageAt(i)) \cap Held(page) = {}
      BY <1>1, <1>5, <2>2 DEF Redirected, PagesInv
    <3>2. QED
      BY <1>3, <2>2, <3>1
  <2>3. QED
    BY <2>1, <2>2
<1>6. ASSUME NEW i \in DOMAIN history, NEW j \in DOMAIN history, HasPage(i), HasPage(j), i # j
      PROVE  Held(PageAt(i)') \cap Held(PageAt(j)') = {}
  <2>1. Held(PageAt(i)) \cap Held(PageAt(j)) = {}
    BY <1>6 DEF Redirected, PagesInv
  <2>2. Held(PageAt(i)') \subseteq Held(PageAt(i)) /\ Held(PageAt(j)') \subseteq Held(PageAt(j))
    BY <1>1, <1>3
  <2>3. QED
    BY <2>1, <2>2
<1>7. PagesInv'
  <2>1. \A p : Held(p)' = Held(p')
    BY DEF Held
  <2>2. \A i \in DOMAIN history : Held(PageAt(i))' = Held(PageAt(i)')
    BY DEF Held
  <2>3. QED
    BY <1>2, <1>3, <1>5, <1>6, <2>2 DEF PagesInv
<1>8. RecordsInv' /\ AnsweredOnce'
  BY <1>2 DEF Redirected, RecordsInv, AnsweredOnce
<1>9. QED
  BY <1>4, <1>7, <1>8 DEF Redirected

(* What the page that is shown holds is of requests that are not recorded and not applied. *)
LEMMA ShownPage ==
    ASSUME Redirected, InApp
    PROVE  /\ page \in Pages
           /\ Held(page) \subseteq Requests \ (stored \cup Range(applied)) /\ page.left \in Requests \cup {0}
           /\ page.check # "none" => page.job = 0
           /\ page.check = "accepted" => page.answer # 0
           /\ applied \in Seq(Nat) /\ IsInjective(applied)
<1>1. pos \in DOMAIN history /\ HasPage(pos) /\ PageAt(pos) = page
  BY DEF Redirected, HistoryTypes, HasPage, PageAt, InApp
<1>2. QED
  BY <1>1 DEF Redirected, PagesInv, HistoryTypes, AnsweredOnce

(* The answer a page was loaded with is accepted or refused. *)
LEMMA ResumeStep == ASSUME Redirected, RequestTypes', Resume PROVE Redirected'
<1>1. /\ InApp /\ page.check = "taken" /\ page \in Pages /\ page.job = 0
      /\ UNCHANGED <<requests, stored, history, pos, over, applied>>
  BY ShownPage DEF Resume
<1>2. PICK c \in {"accepted", "refused"} : page' = [page EXCEPT !.check = c] /\ (c = "accepted" => page.answer # 0)
  BY DEF Resume
<1>3. page' \in Pages /\ page'.left = page.left /\ page'.job = 0 /\ page'.answer = page.answer /\ page'.check = c
  BY <1>1, <1>2 DEF Pages
<1>4. Held(page') = Held(page) /\ (page'.check = "accepted" => page'.answer # 0)
  BY <1>1, <1>2, <1>3 DEF Held
<1>5. QED
  BY <1>1, <1>3, <1>4, ShownPage, PageChanges

(* The check ends: the request is over, and the page no longer holds its answer. *)
LEMMA ResumeFailsStep == ASSUME Redirected, RequestTypes', ResumeFails PROVE Redirected'
<1>1. /\ InApp /\ page.check \in {"refused", "accepted"} /\ page \in Pages /\ page.job = 0
      /\ UNCHANGED <<requests, stored, history, pos, applied>>
      /\ page' = [page EXCEPT !.check = "none", !.status = "failed"] /\ over' = over \cup ({page.answer} \ {0})
  BY ShownPage DEF ResumeFails
<1>2. page' \in Pages /\ page'.left = page.left /\ page'.job = 0 /\ page'.check = "none"
  BY <1>1 DEF Pages
<1>3. Held(page') = {} /\ {page.answer} \ {0} \subseteq Held(page)
  BY <1>1, <1>2 DEF Held
<1>4. QED
  BY <1>1, <1>2, <1>3, ShownPage, PageChanges

(* The proof of an accepted answer is held. *)
LEMMA HoldStep == ASSUME Redirected, RequestTypes', Hold PROVE Redirected'
<1>1. /\ InApp /\ page.check = "accepted" /\ page \in Pages /\ page.job = 0
      /\ UNCHANGED <<requests, stored, history, pos, applied, over>>
      /\ page' = [page EXCEPT !.check = "none", !.job = page.answer, !.status = "applying"]
  BY ShownPage DEF Hold
<1>2. page' \in Pages /\ page'.left = page.left /\ page'.job = page.answer /\ page'.check = "none"
  BY <1>1 DEF Pages
<1>3. Held(page') = Held(page)
  BY <1>1, <1>2 DEF Held
<1>4. QED
  BY <1>1, <1>2, <1>3, ShownPage, PageChanges

(* The wallet starts or fails: the page holds what it held. *)
LEMMA WalletSteps == ASSUME Redirected, RequestTypes', WalletStarts \/ WalletFails PROVE Redirected'
<1>1. /\ InApp /\ page \in Pages /\ page.check = "none"
      /\ UNCHANGED <<requests, stored, history, pos, applied, over>>
  BY ShownPage DEF WalletStarts, WalletFails
<1>2. page' \in Pages /\ page'.left = page.left /\ page'.job = page.job /\ page'.check = "none"
  <2>1. CASE WalletStarts
    BY <1>1, <2>1 DEF WalletStarts, Pages
  <2>2. CASE WalletFails
    <3>1. PICK st \in {"failed", page.status} : page' = [page EXCEPT !.wallet = "failed", !.status = st]
      BY <2>2 DEF WalletFails
    <3>2. st \in {"none", "checking", "continuing", "applying", "failed", "done"}
      BY <1>1 DEF Pages
    <3>3. QED
      BY <1>1, <3>1, <3>2 DEF Pages
  <2>3. QED
    BY <2>1, <2>2
<1>3. Held(page') = Held(page)
  BY <1>1, <1>2 DEF Held
<1>4. QED
  BY <1>1, <1>2, <1>3, ShownPage, PageChanges

(* A held proof is applied, and was not applied before: a page never holds what was. *)
LEMMA ApplyStep == ASSUME Redirected, RequestTypes', Apply PROVE Redirected'
<1>1. /\ InApp /\ page.job # 0 /\ page \in Pages /\ page.check = "none"
      /\ UNCHANGED <<requests, stored, history, pos, over>>
      /\ page' = [page EXCEPT !.job = 0, !.working = page.job, !.status = "applying"]
      /\ applied' = Append(applied, page.job)
  BY ShownPage DEF Apply
<1>2. page' \in Pages /\ page'.left = page.left /\ page'.job = 0 /\ page'.check = "none" /\ page.job \in Nat
  BY <1>1 DEF Pages
<1>3. Held(page') = {} /\ page.job \in Held(page)
  BY <1>1, <1>2 DEF Held
<1>4. page.job \notin Range(applied) /\ applied \in Seq(Nat) /\ IsInjective(applied)
  BY <1>1, <1>3, ShownPage
<1>5. /\ applied' \in Seq(Nat) /\ DOMAIN applied = 1 .. Len(applied) /\ DOMAIN applied' = 1 .. Len(applied) + 1
      /\ Len(applied) \in Nat /\ \A i \in 1 .. Len(applied) : applied'[i] = applied[i]
      /\ applied'[Len(applied) + 1] = page.job
  BY <1>1, <1>2, <1>4, AppendProperties, LenProperties
<1>6. Range(applied') \subseteq Range(applied) \cup {page.job}
  BY <1>5 DEF Range
<1>7. IsInjective(applied')
  BY <1>4, <1>5 DEF IsInjective, Range
<1>8. QED
  BY <1>1, <1>2, <1>3, <1>5, <1>6, <1>7, PageChanges

(* The proof was applied, or failed to be. *)
LEMMA ApplyEndsStep ==
    ASSUME Redirected, RequestTypes', NEW status \in {"done", "failed"}, ApplyEnds(status) PROVE Redirected'
<1>1. /\ InApp /\ page \in Pages /\ UNCHANGED <<requests, stored, history, pos, applied, over>>
      /\ page' = [page EXCEPT !.working = 0, !.status = status]
  BY ShownPage DEF ApplyEnds
<1>2. page' \in Pages /\ page'.left = page.left /\ page'.job = page.job /\ page'.check = page.check /\ page'.answer = page.answer
  BY <1>1 DEF Pages
<1>3. Held(page') = Held(page)
  BY <1>2 DEF Held
<1>4. QED
  BY <1>1, <1>2, <1>3, ShownPage, PageChanges

(* A dismissed proof is no longer held. *)
LEMMA DismissedPage ==
    ASSUME NEW p \in Pages, NEW q, q = Dismissed(p)
    PROVE  q \in Pages /\ q.left = p.left /\ q.job = 0 /\ q.check = p.check /\ q.answer = p.answer
  BY DEF Pages, Dismissed

(* The user dismisses the backup: its request is over. *)
LEMMA DismissStep == ASSUME Redirected, RequestTypes', Dismiss PROVE Redirected'
<1>1. /\ InApp /\ page \in Pages /\ UNCHANGED <<requests, stored, history, pos, applied>>
      /\ page' = Dismissed(page) /\ over' = over \cup ({page.job} \ {0})
  BY ShownPage DEF Dismiss
<1>2. page' \in Pages /\ page'.left = page.left /\ page'.job = 0 /\ page'.check = page.check /\ page'.answer = page.answer
  BY <1>1, DismissedPage
<1>3. Held(page') \subseteq Held(page) /\ {page.job} \ {0} \subseteq Held(page)
  BY <1>2 DEF Held
<1>4. QED
  BY <1>1, <1>2, <1>3, ShownPage, PageChanges

(* The user signs out: a held proof is dropped, and its request over. *)
LEMMA SignOutStep == ASSUME Redirected, RequestTypes', SignOut PROVE Redirected'
<1>1. /\ InApp /\ page \in Pages /\ UNCHANGED <<requests, stored, history, pos, applied>>
      /\ over' = over \cup ({page.job} \ {0})
  BY ShownPage DEF SignOut
<1>2. PICK p \in {page, Dismissed(page)} :
         (page.job # 0 => p = Dismissed(page)) /\ page' = [p EXCEPT !.user = 0, !.wallet = "none"]
  BY DEF SignOut
<1>3. p \in Pages /\ p.left = page.left /\ p.job = 0 /\ p.check = page.check /\ p.answer = page.answer
  BY <1>1, <1>2, DismissedPage
<1>4. page' \in Pages /\ page'.left = p.left /\ page'.job = 0 /\ page'.check = p.check /\ page'.answer = p.answer
  BY <1>2, <1>3 DEF Pages
<1>5. Held(page') \subseteq Held(page) /\ {page.job} \ {0} \subseteq Held(page)
  BY <1>3, <1>4 DEF Held
<1>6. QED
  BY <1>1, <1>3, <1>4, <1>5, ShownPage, PageChanges

(* A user signs in. *)
LEMMA SignInStep == ASSUME Redirected, RequestTypes', NEW u \in Users, SignIn(u) PROVE Redirected'
<1>1. /\ InApp /\ page \in Pages /\ UNCHANGED <<requests, stored, history, pos, applied, over>>
      /\ page' = [page EXCEPT !.user = u]
  BY ShownPage DEF SignIn
<1>2. page' \in Pages /\ page'.left = page.left /\ page'.job = page.job /\ page'.check = page.check /\ page'.answer = page.answer
  BY <1>1 DEF Pages
<1>3. Held(page') = Held(page)
  BY <1>2 DEF Held
<1>4. QED
  BY <1>1, <1>2, <1>3, ShownPage, PageChanges

(* A session history cut off after some entry, with others behind it. *)
LEMMA CutHistory ==
    ASSUME NEW S, NEW s \in Seq(S), NEW k \in 0 .. Len(s), NEW t \in Seq(S), NEW u, u = SubSeq(s, 1, k) \o t
    PROVE  /\ u \in Seq(S) /\ Len(u) = k + Len(t)
           /\ \A i \in 1 .. k : u[i] = s[i]
           /\ \A i \in 1 .. Len(t) : u[k + i] = t[i]
<1>1. Len(s) \in Nat /\ Len(t) \in Nat /\ \A i \in 1 .. k : s[i] \in S
  BY LenProperties, ElementOfSeq
<1>2. /\ SubSeq(s, 1, k) \in Seq(S) /\ Len(SubSeq(s, 1, k)) = k
      /\ \A i \in 1 .. k : SubSeq(s, 1, k)[i] = s[i]
  <2>1. \A i \in 1 .. k - 1 + 1 : SubSeq(s, 1, k)[i] = s[1 + i - 1]
    BY <1>1, SubSeqProperties
  <2>2. SubSeq(s, 1, k) \in Seq(S) /\ Len(SubSeq(s, 1, k)) = IF 1 <= k THEN k - 1 + 1 ELSE 0
    BY <1>1, SubSeqProperties
  <2>3. QED
    BY <1>1, <2>1, <2>2
<1>3. /\ u \in Seq(S) /\ Len(u) = k + Len(t)
      /\ \A i \in 1 .. k + Len(t) : u[i] = IF i <= k THEN s[i] ELSE t[i - k]
  BY <1>1, <1>2, ConcatProperties
<1>4. \A i \in 1 .. k : u[i] = s[i]
  BY <1>1, <1>3
<1>5. ASSUME NEW i \in 1 .. Len(t) PROVE u[k + i] = t[i]
  <2>1. k + i \in 1 .. k + Len(t) /\ ~(k + i <= k) /\ k + i - k = i
    BY <1>1
  <2>2. QED
    BY <1>3, <2>1
<1>6. QED
  BY <1>3, <1>4, <1>5

(* The entries a history is made of. *)
LEMMA EntriesAre ==
    /\ AppEntry(<<>>) \in Entries /\ \A p \in Pages : AppEntry(<<p>>) \in Entries
    /\ \A r \in Nat : JoyIdEntry(r) \in Entries
    /\ \A kept : AppEntry(kept).site = "app" /\ AppEntry(kept).kept = kept
    /\ \A r : JoyIdEntry(r).site = "joyid" /\ JoyIdEntry(r).kept = <<>>
  BY DEF AppEntry, JoyIdEntry, Entries

(* The tab leaves for JoyID: the page may be kept as it left, and the request is recorded. *)
LEMMA LeavesStep ==
    ASSUME Redirected, RequestTypes, InApp, NEW step \in Steps, NEW u \in Users \cup {0}, NEW p \in Pages,
           Held(p) \subseteq Held(page), p.left \in Requests \cup {0, NextId}, p.check # "none" => p.job = 0,
           p.check = "accepted" => p.answer # 0,
           LeaveForJoyId(step, u, p), UNCHANGED <<page, session, applied, over>>
    PROVE  Redirected'
<1>1. /\ NextId \in Nat \ {0} /\ Requests' = Requests \cup {NextId} /\ NextId \notin Requests
      /\ stored' = stored \cup {NextId} /\ pos' = pos + 1
  BY NextIdIsNew DEF LeaveForJoyId
<1>2. PICK kept \in {<<>>, <<p>>} : history' = SubSeq(history, 1, pos - 1) \o <<AppEntry(kept), JoyIdEntry(NextId)>>
  BY DEF LeaveForJoyId
<1>3. Len(history) \in Nat /\ DOMAIN history = 1 .. Len(history) /\ pos \in 1 .. Len(history) /\ history \in Seq(Entries)
  BY HistoryLength DEF Redirected, HistoryTypes
<1> DEFINE a == AppEntry(kept)
           b == JoyIdEntry(NextId)
<1>4. /\ a \in Entries /\ b \in Entries /\ a.site = "app" /\ a.kept = kept /\ b.site = "joyid" /\ b.kept = <<>>
      /\ kept # <<>> => Head(a.kept) = p
  BY <1>1, <1>2, EntriesAre
<1> HIDE DEF a, b
<1>5. <<a, b>> \in Seq(Entries) /\ Len(<<a, b>>) = 2 /\ <<a, b>>[1] = a /\ <<a, b>>[2] = b
  BY <1>4
<1>6. /\ history' \in Seq(Entries) /\ Len(history') = pos - 1 + 2
      /\ \A i \in 1 .. pos - 1 : history'[i] = history[i]
      /\ \A i \in 1 .. 2 : history'[pos - 1 + i] = <<a, b>>[i]
  BY <1>2, <1>3, <1>5, CutHistory DEF a, b
<1>7. /\ DOMAIN history' = 1 .. pos + 1 /\ history'[pos] = a /\ history'[pos + 1] = b
      /\ \A i \in DOMAIN history' : i \in 1 .. pos - 1 \/ i = pos \/ i = pos'
  <2>1. DOMAIN history' = 1 .. pos + 1
    BY <1>3, <1>6, LenProperties
  <2>2. history'[pos - 1 + 1] = a /\ history'[pos - 1 + 2] = b
    BY <1>5, <1>6
  <2>3. pos - 1 + 1 = pos /\ pos - 1 + 2 = pos + 1 /\ pos \in Nat
    BY <1>3
  <2>4. QED
    BY <1>1, <2>1, <2>2, <2>3
<1>8. HistoryTypes'
  <2>1. pos' \in DOMAIN history'
    BY <1>1, <1>3, <1>7
  <2>2. \A i \in DOMAIN history' : history'[i].kept # <<>> => history'[i].site = "app"
    BY <1>1, <1>3, <1>4, <1>6, <1>7 DEF Redirected, HistoryTypes
  <2>3. QED
    BY <1>6, <2>1, <2>2 DEF Redirected, HistoryTypes
<1>9. HasPage(pos) /\ PageAt(pos) = page
  BY <1>3 DEF HasPage, PageAt, InApp
<1>10. ASSUME NEW i \in DOMAIN history', HasPage(i)'
       PROVE  /\ i \in DOMAIN history /\ HasPage(i)
              /\ Held(PageAt(i)') \subseteq Held(PageAt(i)) /\ PageAt(i)'.left \in Requests'
                   \cup {0}
              /\ PageAt(i)'.check # "none" => PageAt(i)'.job = 0
              /\ PageAt(i)'.check = "accepted" => PageAt(i)'.answer # 0
  <2>1. i # pos'
    BY <1>1, <1>4, <1>7, <1>10 DEF HasPage
  <2>2. CASE i = pos
    <3>1. PageAt(i)' = p
      BY <1>4, <1>7, <1>10, <2>1, <2>2 DEF HasPage, PageAt
    <3>2. QED
      BY <1>1, <1>3, <1>9, <2>2, <3>1
  <2>3. CASE i # pos
    <3>1. i \in 1 .. pos - 1 /\ i \in DOMAIN history
      BY <1>3, <1>7, <2>1, <2>3
    <3>2. history'[i] = history[i] /\ HasPage(i) /\ PageAt(i)' = PageAt(i)
      BY <1>6, <1>10, <2>1, <2>3, <3>1 DEF HasPage, PageAt
    <3>3. QED
      BY <1>1, <3>1, <3>2 DEF Redirected, PagesInv
  <2>4. QED
    BY <2>2, <2>3
<1>11. PagesInv'
  <2>1. \A i \in DOMAIN history' : Held(PageAt(i))' = Held(PageAt(i)')
    BY DEF Held
  <2>2. ASSUME NEW i \in DOMAIN history', HasPage(i)'
        PROVE  Held(PageAt(i)') \subseteq Requests' \ (stored' \cup Range(applied'))
    <3>1. Held(PageAt(i)) \subseteq Requests \ (stored \cup Range(applied))
      BY <1>10, <2>2 DEF Redirected, PagesInv
    <3>2. QED
      BY <1>1, <1>10, <2>2, <3>1
  <2>3. ASSUME NEW i \in DOMAIN history', NEW j \in DOMAIN history', HasPage(i)', HasPage(j)', i # j
        PROVE  Held(PageAt(i)') \cap Held(PageAt(j)') = {}
    <3>1. Held(PageAt(i)) \cap Held(PageAt(j)) = {}
      BY <1>10, <2>3 DEF Redirected, PagesInv
    <3>2. QED
      BY <1>10, <2>3, <3>1
  <2>4. QED
    BY <1>10, <2>1, <2>2, <2>3 DEF PagesInv
<1>12. RecordsInv' /\ AnsweredOnce'
  BY <1>1 DEF Redirected, RecordsInv, AnsweredOnce
<1>13. QED
  BY <1>8, <1>11, <1>12 DEF Redirected

(* A backup by redirect leaves with a new request. *)
LEMMA LeaveStep == ASSUME Redirected, RequestTypes, NEW step \in Steps, Leave(step) PROVE Redirected'
<1> DEFINE p == [page EXCEPT !.left = NextId]
<1>1. InApp /\ page \in Pages /\ page.check = "none" /\ LeaveForJoyId(step, page.user, p) /\ NextId \in Nat
  BY ShownPage, NextIdIsNew DEF Leave
<1>2. /\ p \in Pages /\ p.left = NextId /\ p.job = page.job /\ p.check = page.check /\ p.answer = page.answer
      /\ page.user \in Users \cup {0}
  BY <1>1 DEF Pages
<1> HIDE DEF p
<1>3. Held(p) = Held(page)
  BY <1>2 DEF Held
<1>4. UNCHANGED <<page, session, applied, over>>
  BY DEF Leave
<1>5. QED
  BY <1>1, <1>2, <1>3, <1>4, LeavesStep

(* After a connect the page leaves with the sign step, and may be kept without the answer it continued. *)
LEMMA ContinueStep == ASSUME Redirected, RequestTypes, Continue PROVE Redirected'
<1> DEFINE p == [page EXCEPT !.check = "continuing", !.status = "continuing"]
           u == requests[page.answer].user
<1>1. /\ InApp /\ page \in Pages /\ page.check = "accepted" /\ LeaveForJoyId("sign", u, p) /\ page.job = 0
      /\ page.left \in Requests \cup {0} /\ page.answer # 0
  BY ShownPage DEF Continue
<1>2. p \in Pages /\ p.left = page.left /\ p.job = 0 /\ p.check = "continuing"
  BY <1>1 DEF Pages
<1>3. u \in Users \cup {0}
  <2>1. page.answer \in Requests
    BY <1>1, ShownPage DEF Held
  <2>2. requests[page.answer] \in [step : Steps, user : Users \cup {0}]
    BY <2>1, ElementOfSeq, LenProperties DEF RequestTypes, Requests
  <2>3. QED
    BY <2>2
<1> HIDE DEF p, u
<1>4. Held(p) = {}
  BY <1>2 DEF Held
<1>5. UNCHANGED <<page, session, applied, over>> /\ "sign" \in Steps
  BY DEF Continue, Steps
<1>6. QED
  BY <1>1, <1>2, <1>3, <1>4, <1>5, LeavesStep

(* A page that is loaded holds no answer. *)
LEMMA NewPageIs ==
    ASSUME RequestTypes, NEW p, p = NewPage
    PROVE  /\ p \in Pages /\ p.left = 0 /\ p.check = "none" /\ p.answer = 0 /\ p.job = 0 /\ p.user = session
           /\ p.wallet = "none" /\ p.working = 0
           /\ Held(p) = {}
<1>1. p = [user |-> session, wallet |-> "none", left |-> 0, check |-> "none", answer |-> 0, kind |-> "answer",
           job |-> 0, working |-> 0, status |-> "none"]
  BY DEF NewPage
<1>2. p \in Pages
  BY <1>1 DEF RequestTypes, Pages, Kinds
<1>3. QED
  BY <1>1, <1>2 DEF Held

(* The tab shows another entry of its history, whose page holds no other one's request. *)
LEMMA ShowsPage ==
    ASSUME Redirected, HistoryTypes', UNCHANGED <<requests, applied>>, stored' \subseteq stored, over' \subseteq Requests,
           stored' \cap (over' \cup Range(applied)) = {},
           \A i \in DOMAIN history' : HasPage(i)' /\ i # pos' => HasPage(i) /\ PageAt(i)' = PageAt(i),
           history'[pos'].site = "app" =>
               /\ Held(page') \subseteq Requests \ (stored' \cup Range(applied)) /\ page'.left \in Requests \cup {0}
               /\ page'.check # "none" => page'.job = 0
               /\ page'.check = "accepted" => page'.answer # 0
               /\ \A i \in DOMAIN history : HasPage(i) /\ i # pos' => Held(page') \cap Held(PageAt(i)) = {}
    PROVE  Redirected'
<1>1. Requests' = Requests
  BY DEF Requests
<1>2. ASSUME NEW i \in DOMAIN history', HasPage(i)', i # pos'
      PROVE  /\ i \in DOMAIN history /\ HasPage(i) /\ PageAt(i)' = PageAt(i)
             /\ Held(PageAt(i)) \subseteq Requests \ (stored \cup Range(applied)) /\ PageAt(i).left \in Requests \cup {0}
             /\ PageAt(i).check # "none" => PageAt(i).job = 0
             /\ PageAt(i).check = "accepted" => PageAt(i).answer # 0
  <2>1. HasPage(i) /\ PageAt(i)' = PageAt(i)
    BY <1>2
  <2>2. i \in DOMAIN history
    BY <2>1 DEF HasPage
  <2>3. QED
    BY <2>1, <2>2 DEF Redirected, PagesInv
<1>3. ASSUME NEW i \in DOMAIN history', HasPage(i)', i = pos'
      PROVE  history'[pos'].site = "app" /\ PageAt(i)' = page'
  BY <1>3 DEF HasPage, PageAt
<1>4. ASSUME NEW i \in DOMAIN history', HasPage(i)'
      PROVE  /\ Held(PageAt(i)') \subseteq Requests' \ (stored' \cup Range(applied'))
             /\ PageAt(i)'.left \in Requests' \cup {0}
             /\ PageAt(i)'.check # "none" => PageAt(i)'.job = 0
             /\ PageAt(i)'.check = "accepted" => PageAt(i)'.answer # 0
  <2>1. CASE i = pos'
    BY <1>1, <1>3, <1>4, <2>1
  <2>2. CASE i # pos'
    BY <1>1, <1>2, <1>4, <2>2
  <2>3. QED
    BY <2>1, <2>2
<1>5. ASSUME NEW i \in DOMAIN history', NEW j \in DOMAIN history', HasPage(i)', HasPage(j)', i # j
      PROVE  Held(PageAt(i)') \cap Held(PageAt(j)') = {}
  <2>1. CASE i = pos'
    BY <1>2, <1>3, <1>5, <2>1
  <2>2. CASE j = pos'
    BY <1>2, <1>3, <1>5, <2>2
  <2>3. CASE i # pos' /\ j # pos'
    <3>1. /\ i \in DOMAIN history /\ HasPage(i) /\ PageAt(i)' = PageAt(i)
          /\ j \in DOMAIN history /\ HasPage(j) /\ PageAt(j)' = PageAt(j)
      BY <1>2, <1>5, <2>3
    <3>2. QED
      BY <1>5, <3>1 DEF Redirected, PagesInv
  <2>4. QED
    BY <2>1, <2>2, <2>3
<1>6. PagesInv'
  <2>1. \A i \in DOMAIN history' : Held(PageAt(i))' = Held(PageAt(i)')
    BY DEF Held
  <2>2. QED
    BY <1>4, <1>5, <2>1 DEF PagesInv
<1>7. RecordsInv' /\ AnsweredOnce'
  BY <1>1 DEF Redirected, RecordsInv, AnsweredOnce
<1>8. QED
  BY <1>6, <1>7 DEF Redirected

(* JoyID's page brings the tab back: the page that loads takes the request's record with its answer, and no other page
   holds what was recorded. *)
LEMMA ReturnsStep == ASSUME Redirected, RequestTypes, NEW kind \in Kinds, Returns(kind) PROVE Redirected'
<1> DEFINE r == history[pos].request
           taken == IF r \in stored THEN r ELSE 0
           a == AppEntry(<<>>)
<1>1. /\ history[pos].site = "joyid" /\ stored' = stored \ {r} /\ pos' = pos + 1
      /\ history' = Append(SubSeq(history, 1, pos), a) /\ UNCHANGED <<requests, applied, over>>
      /\ page' = [NewPage EXCEPT !.check = "taken", !.answer = taken, !.kind = kind, !.status = "checking"]
  BY DEF Returns, TakenOnLoad
<1>2. Len(history) \in Nat /\ DOMAIN history = 1 .. Len(history) /\ pos \in 1 .. Len(history) /\ history \in Seq(Entries)
  BY HistoryLength DEF Redirected, HistoryTypes
<1>3. a \in Entries /\ a.site = "app" /\ a.kept = <<>>
  BY EntriesAre
<1>4. taken \in Nat /\ (taken # 0 => taken \in stored /\ taken = r)
  BY NextIdIsNew DEF Redirected, RecordsInv
<1> HIDE DEF r, taken, a
<1>5. /\ history' \in Seq(Entries) /\ DOMAIN history' = 1 .. pos + 1 /\ history'[pos + 1] = a
      /\ \A i \in 1 .. pos : history'[i] = history[i]
  <2> DEFINE h == SubSeq(history, 1, pos)
  <2>1. \A i \in 1 .. pos : history[i] \in Entries
    BY <1>2, ElementOfSeq
  <2>2. h \in Seq(Entries) /\ Len(h) = IF 1 <= pos THEN pos - 1 + 1 ELSE 0
    BY <1>2, <2>1, SubSeqProperties
  <2>3. \A i \in 1 .. pos - 1 + 1 : h[i] = history[1 + i - 1]
    BY <1>2, <2>1, SubSeqProperties
  <2>4. Len(h) = pos /\ \A i \in 1 .. pos : h[i] = history[i]
    BY <1>2, <2>2, <2>3
  <2> HIDE DEF h
  <2>5. history' = Append(h, a)
    BY <1>1 DEF h
  <2>6. /\ history' \in Seq(Entries) /\ Len(history') = pos + 1 /\ history'[pos + 1] = a
        /\ \A i \in 1 .. pos : history'[i] = h[i]
    BY <1>3, <2>2, <2>4, <2>5, AppendProperties
  <2>7. QED
    BY <2>4, <2>6, LenProperties
<1>6. /\ page' \in Pages /\ page'.left = 0 /\ page'.job = 0 /\ page'.check = "taken" /\ page'.answer = taken
  <2> DEFINE n == NewPage
  <2>1. n \in Pages /\ n.left = 0 /\ n.job = 0
    BY NewPageIs
  <2>2. page' = [n EXCEPT !.check = "taken", !.answer = taken, !.kind = kind, !.status = "checking"]
    BY <1>1
  <2> HIDE DEF n
  <2>3. QED
    BY <1>4, <2>1, <2>2 DEF Pages
<1>7. Held(page') = {taken} \ {0}
  BY <1>6 DEF Held
<1>8. HistoryTypes'
  <2>1. \A i \in 1 .. pos + 1 : i \in 1 .. pos \/ i = pos + 1
    BY <1>2
  <2>2. \A i \in DOMAIN history' : history'[i].kept # <<>> => history'[i].site = "app"
    BY <1>2, <1>3, <1>5, <2>1 DEF Redirected, HistoryTypes
  <2>3. QED
    BY <1>1, <1>2, <1>5, <1>6, <2>2 DEF Redirected, HistoryTypes
<1>9. ASSUME NEW i \in DOMAIN history', HasPage(i)', i # pos' PROVE HasPage(i) /\ PageAt(i)' = PageAt(i)
  <2>1. i \in 1 .. pos /\ i \in DOMAIN history /\ history'[i] = history[i]
    BY <1>1, <1>2, <1>5, <1>9
  <2>2. i # pos
    BY <1>1, <1>9, <2>1 DEF HasPage
  <2>3. QED
    BY <1>9, <2>1, <2>2 DEF HasPage, PageAt
<1>10. ASSUME NEW i \in DOMAIN history, HasPage(i) PROVE Held(page') \cap Held(PageAt(i)) = {}
  <2>1. Held(PageAt(i)) \cap stored = {}
    BY <1>10 DEF Redirected, PagesInv
  <2>2. QED
    BY <1>4, <1>7, <2>1
<1>11. Held(page') \subseteq Requests \ (stored' \cup Range(applied))
  BY <1>1, <1>4, <1>7 DEF Redirected, RecordsInv, AnsweredOnce
<1>12. stored' \subseteq stored /\ over' \subseteq Requests /\ stored' \cap (over' \cup Range(applied)) = {}
  BY <1>1 DEF Redirected, RecordsInv, AnsweredOnce
<1>13. QED
  BY <1>1, <1>6, <1>8, <1>9, <1>10, <1>11, <1>12, ShowsPage

(* The user goes back or forward: a kept page is shown again, and what it left with is over and no longer recorded. *)
LEMMA TravelsStep ==
    ASSUME Redirected, RequestTypes, NEW to \in {pos - 1, pos + 1}, Travels(to)
    PROVE  Redirected'
<1>1. to \in DOMAIN history /\ to # pos /\ pos' = to /\ UNCHANGED <<requests, applied>>
  BY HistoryLength DEF Travels
<1>2. Len(history) \in Nat /\ DOMAIN history = 1 .. Len(history) /\ pos \in 1 .. Len(history) /\ history \in Seq(Entries)
  BY HistoryLength DEF Redirected, HistoryTypes
<1>3. PICK kept \in {<<>>, <<page>>} :
         history' = IF history[pos].site = "app" THEN [history EXCEPT ![pos] = AppEntry(kept)] ELSE history
  BY DEF Travels
<1> DEFINE a == AppEntry(kept)
<1>4. a \in Entries /\ a.site = "app" /\ a.kept = kept /\ page \in Pages
  BY <1>3, EntriesAre DEF Redirected, HistoryTypes
<1> HIDE DEF a
<1>5. /\ history' \in Seq(Entries) /\ DOMAIN history' = DOMAIN history
      /\ \A i \in DOMAIN history : i # pos => history'[i] = history[i]
      /\ history'[pos] = a \/ (history[pos].site # "app" /\ history'[pos] = history[pos])
      /\ history'[pos].site = history[pos].site
  <2>1. CASE history[pos].site = "app"
    <3>1. history' = [history EXCEPT ![pos] = a]
      BY <1>3, <2>1 DEF a
    <3>2. /\ history' \in Seq(Entries) /\ Len(history') = Len(history)
          /\ \A i \in 1 .. Len(history) : history'[i] = IF i = pos THEN a ELSE history[i]
      BY <1>2, <1>4, <3>1, ExceptSeq
    <3>3. QED
      BY <1>2, <1>4, <2>1, <3>2, LenProperties
  <2>2. CASE history[pos].site # "app"
    BY <1>2, <1>3, <2>2
  <2>3. QED
    BY <2>1, <2>2
<1>6. history'[pos'] = history[to]
  BY <1>1, <1>5
<1>7. \/ history[to].site = "joyid" /\ UNCHANGED <<page, over, stored>>
      \/ history[to].kept # <<>> /\ ShownAgain(Head(history[to].kept))
      \/ history[to].site = "app" /\ history[to].kept = <<>> /\ page' = NewPage /\ UNCHANGED <<over, stored>>
  BY DEF Travels
<1>8. \A i \in DOMAIN history' : history'[i].kept # <<>> => history'[i].site = "app"
  BY <1>4, <1>5 DEF Redirected, HistoryTypes
<1>9. ASSUME NEW i \in DOMAIN history', HasPage(i)', i # pos' PROVE HasPage(i) /\ PageAt(i)' = PageAt(i)
  <2>1. CASE i = pos
    <3>1. history'[pos] = a /\ history[pos].site = "app" /\ kept = <<page>>
      BY <1>3, <1>4, <1>5, <1>9, <2>1 DEF HasPage
    <3>2. QED
      BY <1>1, <1>2, <1>4, <2>1, <3>1 DEF HasPage, PageAt
  <2>2. CASE i # pos
    BY <1>5, <1>9, <2>2 DEF HasPage, PageAt
  <2>3. QED
    BY <2>1, <2>2
<1>10. page' \in Pages => HistoryTypes'
  BY <1>1, <1>5, <1>8 DEF Redirected, HistoryTypes
<1>11. CASE history[to].site = "joyid" /\ UNCHANGED <<page, over, stored>>
  <2>1. stored' \subseteq stored /\ over' \subseteq Requests /\ stored' \cap (over' \cup Range(applied)) = {}
    BY <1>11 DEF Redirected, RecordsInv, AnsweredOnce
  <2>2. QED
    BY <1>1, <1>4, <1>6, <1>9, <1>10, <1>11, <2>1, ShowsPage
<1>12. CASE history[to].kept # <<>> /\ ShownAgain(Head(history[to].kept))
  <2> DEFINE p == Head(history[to].kept)
  <2>1. /\ page' = [p EXCEPT !.left = 0] /\ over' = over \cup ({p.left} \ {0}) /\ stored' = stored \ {p.left}
    BY <1>12 DEF ShownAgain
  <2>2. p \in Pages
    BY <1>1, <1>12, KeptPage
  <2>3. HasPage(to) /\ PageAt(to) = p
    BY <1>1, <1>12 DEF HasPage, PageAt, Redirected, HistoryTypes
  <2> HIDE DEF p
  <2>4. /\ page' \in Pages /\ page'.left = 0 /\ page'.job = p.job /\ page'.check = p.check /\ page'.answer = p.answer
    BY <2>1, <2>2 DEF Pages
  <2>5. Held(page') = Held(p)
    BY <2>4 DEF Held
  <2>6. /\ Held(p) \subseteq Requests \ (stored \cup Range(applied)) /\ p.left \in Requests \cup {0}
        /\ p.check # "none" => p.job = 0
        /\ p.check = "accepted" => p.answer # 0
    BY <1>1, <2>3 DEF Redirected, PagesInv
  <2>7. \A i \in DOMAIN history : HasPage(i) /\ i # to => Held(p) \cap Held(PageAt(i)) = {}
    BY <1>1, <2>3 DEF Redirected, PagesInv
  <2>8. stored' \subseteq stored /\ over' \subseteq Requests /\ stored' \cap (over' \cup Range(applied)) = {}
    BY <2>1, <2>6, NextIdIsNew DEF Redirected, RecordsInv, AnsweredOnce
  <2>9. QED
    BY <1>1, <1>9, <1>10, <2>4, <2>5, <2>6, <2>7, <2>8, ShowsPage
<1>13. CASE history[to].site = "app" /\ history[to].kept = <<>> /\ page' = NewPage /\ UNCHANGED <<over, stored>>
  <2>1. page' \in Pages /\ page'.left = 0 /\ page'.check = "none" /\ page'.job = 0 /\ Held(page') = {}
    BY <1>13, NewPageIs
  <2>2. stored' \subseteq stored /\ over' \subseteq Requests /\ stored' \cap (over' \cup Range(applied)) = {}
    BY <1>13 DEF Redirected, RecordsInv, AnsweredOnce
  <2>3. QED
    BY <1>1, <1>9, <1>10, <2>1, <2>2, ShowsPage
<1>14. QED
  BY <1>7, <1>11, <1>12, <1>13

(* The steps of each transport. *)
WindowActs ==
    \/ \E step \in Steps : OpenHelper(step)
    \/ Receive \/ WindowLost \/ HelperReady \/ HelperResponds \/ SignStep \/ RunGivesUp
    \/ HelperLoads \/ HelperGoes \/ HelperAtJoyId \/ HelperClosed \/ HelperReloads \/ HelperBack \/ HelperBackToJoyId
    \/ \E kind \in Kinds : JoyIdAnswers(kind)
RedirectActs ==
    \/ \E step \in Steps : Leave(step)
    \/ \E kind \in Kinds : Returns(kind)
    \/ \E to \in {pos - 1, pos + 1} : Travels(to)
    \/ Resume \/ ResumeFails \/ Continue \/ Hold \/ WalletStarts \/ WalletFails \/ Apply
    \/ \E status \in {"done", "failed"} : ApplyEnds(status)
    \/ Dismiss \/ SignOut \/ \E u \in Users : SignIn(u)

(* The steps of JoyId are those of the two transports. *)
LEMMA TheSteps == JoyIdNext => (\E r \in Requests : Expire(r)) \/ WindowActs \/ RedirectActs
  BY DEF JoyIdNext, WindowActs, RedirectActs

(* A step of the window transport leaves the redirect's state alone, and there is none while no window was opened. *)
LEMMA WindowActsKeep ==
    ASSUME WindowActs
    PROVE  UNCHANGED redirectVars /\ transport' = transport
<1>1. ASSUME NEW step \in Steps, OpenHelper(step) PROVE UNCHANGED redirectVars /\ transport' = transport
  BY <1>1 DEF OpenHelper
<1>2. ASSUME NEW kind \in Kinds, JoyIdAnswers(kind) PROVE UNCHANGED redirectVars /\ transport' = transport
  BY <1>2 DEF JoyIdAnswers
<1>3. CASE Receive \/ WindowLost \/ HelperReady \/ HelperResponds
  BY <1>3 DEF Receive, WindowLost, HelperReady, HelperResponds
<1>4. CASE SignStep \/ RunGivesUp \/ HelperLoads \/ HelperGoes
  BY <1>4 DEF SignStep, RunGivesUp, HelperLoads, HelperGoes
<1>5. CASE HelperAtJoyId \/ HelperClosed \/ HelperReloads \/ HelperBack \/ HelperBackToJoyId
  BY <1>5 DEF HelperAtJoyId, HelperClosed, HelperReloads, HelperBack, HelperBackToJoyId
<1>6. QED
  BY <1>1, <1>2, <1>3, <1>4, <1>5 DEF WindowActs

(* With the redirect transport there is no window, and none of its steps. *)
LEMMA WindowActsNeed == ASSUME NoWindow, transport = "redirect" PROVE ~WindowActs
<1>1. /\ \A step \in Steps : ~OpenHelper(step)
      /\ ~Receive /\ ~WindowLost /\ ~HelperReady /\ ~HelperResponds /\ ~SignStep /\ ~RunGivesUp
  BY DEF NoWindow, OpenHelper, InWindow, Receive, WindowLost, HelperReady, HelperResponds, SignStep, RunGivesUp
<1>2. /\ ~HelperLoads /\ ~HelperGoes /\ ~HelperAtJoyId /\ ~HelperClosed /\ ~HelperReloads /\ ~HelperBack
      /\ ~HelperBackToJoyId /\ \A kind \in Kinds : ~JoyIdAnswers(kind)
  BY DEF NoWindow, HelperLoads, HelperGoes, HelperAtJoyId, HelperClosed, HelperReloads, HelperBack,
     HelperBackToJoyId, JoyIdAnswers
<1>3. QED
  BY <1>1, <1>2 DEF WindowActs

(* A step of the redirect transport leaves the window's state alone. *)
LEMMA RedirectActsKeep ==
    ASSUME RedirectActs
    PROVE  transport = "redirect" /\ transport' = transport /\ UNCHANGED windowVars
<1> DEFINE Goal == transport = "redirect" /\ transport' = transport /\ UNCHANGED windowVars
<1>1. ASSUME NEW step \in Steps, Leave(step) PROVE Goal
  BY <1>1 DEF Leave, InApp
<1>2. ASSUME NEW kind \in Kinds, Returns(kind) PROVE Goal
  BY <1>2 DEF Returns
<1>3. ASSUME NEW to, Travels(to) PROVE Goal
  BY <1>3 DEF Travels
<1>4. CASE Resume \/ ResumeFails \/ Continue \/ Hold
  BY <1>4 DEF Resume, ResumeFails, Continue, Hold, InApp
<1>5. CASE WalletStarts \/ WalletFails \/ Apply \/ Dismiss \/ SignOut
  BY <1>5 DEF WalletStarts, WalletFails, Apply, Dismiss, SignOut, InApp
<1>6. ASSUME NEW status, ApplyEnds(status) PROVE Goal
  BY <1>6 DEF ApplyEnds, InApp
<1>7. ASSUME NEW u, SignIn(u) PROVE Goal
  BY <1>7 DEF SignIn, InApp
<1>8. QED
  BY <1>1, <1>2, <1>3, <1>4, <1>5, <1>6, <1>7 DEF RedirectActs

(* A request is of the session's user, or of the user of a page or of an earlier request. *)
LEMMA Requested ==
    ASSUME RequestTypes, session' \in Users \cup {0},
           \/ requests' = requests
           \/ \E step \in Steps, u \in Users \cup {0} : requests' = Append(requests, Request(step, u))
    PROVE  RequestTypes'
  BY NextIdIsNew DEF RequestTypes

(* The requests of a run are of the session's user. *)
LEMMA WindowRequests == ASSUME RequestTypes, WindowActs PROVE RequestTypes'
<1>1. session \in Users \cup {0} /\ session' = session /\ "sign" \in Steps
  BY WindowActsKeep DEF RequestTypes, redirectVars, Steps
<1>2. ASSUME NEW step \in Steps, OpenHelper(step) PROVE RequestTypes'
  <2>1. requests' = Append(requests, Request(step, session))
    BY <1>2 DEF OpenHelper
  <2>2. QED
    BY <1>1, <2>1, Requested
<1>3. CASE SignStep
  <2>1. requests' = Append(requests, Request("sign", session)) \/ requests' = requests
    BY <1>3 DEF SignStep
  <2>2. QED
    BY <1>1, <2>1, Requested
<1>4. ASSUME requests' = requests PROVE RequestTypes'
  BY <1>1, <1>4 DEF RequestTypes
<1>5. ASSUME NEW kind \in Kinds, JoyIdAnswers(kind) PROVE RequestTypes'
  BY <1>4, <1>5 DEF JoyIdAnswers
<1>6. CASE Receive \/ WindowLost \/ HelperReady \/ HelperResponds \/ RunGivesUp \/ HelperLoads
  BY <1>4, <1>6 DEF Receive, WindowLost, HelperReady, HelperResponds, RunGivesUp, HelperLoads
<1>7. CASE HelperGoes \/ HelperAtJoyId \/ HelperClosed \/ HelperReloads \/ HelperBack \/ HelperBackToJoyId
  BY <1>4, <1>7 DEF HelperGoes, HelperAtJoyId, HelperClosed, HelperReloads, HelperBack, HelperBackToJoyId
<1>8. QED
  BY <1>2, <1>3, <1>5, <1>6, <1>7 DEF WindowActs

(* Every step of the window transport keeps what is running. *)
LEMMA WindowActsStep == ASSUME RequestTypes, Running, WindowActs PROVE Running'
<1>1. ASSUME NEW step \in Steps, OpenHelper(step) PROVE Running'
  BY <1>1, OpenHelperStep
<1>2. ASSUME NEW kind \in Kinds, JoyIdAnswers(kind) PROVE Running'
  BY <1>2, JoyIdAnswersStep
<1>3. CASE Receive \/ WindowLost \/ HelperReady \/ HelperResponds \/ SignStep \/ RunGivesUp
  BY <1>3, ReceiveStep, WindowLostStep, HelperReadyStep, HelperRespondsStep, SignStepStep, RunGivesUpStep
<1>4. CASE HelperLoads \/ HelperGoes \/ HelperAtJoyId \/ HelperClosed
  BY <1>4, HelperLoadsStep, HelperGoesStep, HelperAtJoyIdStep, HelperClosedStep
<1>5. CASE HelperReloads \/ HelperBack \/ HelperBackToJoyId
  BY <1>5, HelperReloadsStep, HelperBackStep, HelperBackToJoyIdStep
<1>6. QED
  BY <1>1, <1>2, <1>3, <1>4, <1>5 DEF WindowActs

(* The requests a redirect makes, and the session's user. *)
LEMMA RedirectRequests == ASSUME RequestTypes, Redirected, RedirectActs PROVE RequestTypes'
<1>1. session \in Users \cup {0} /\ "sign" \in Steps
  BY DEF RequestTypes, Steps
<1>2. ASSUME requests' = requests, session' = session PROVE RequestTypes'
  BY <1>2 DEF RequestTypes
<1>3. ASSUME NEW step \in Steps, Leave(step) PROVE RequestTypes'
  <2>1. requests' = Append(requests, Request(step, page.user)) /\ session' = session /\ page.user \in Users \cup {0}
    BY <1>3, ShownPage DEF Leave, LeaveForJoyId, Pages
  <2>2. QED
    BY <1>1, <2>1, Requested
<1>4. CASE Continue
  <2> DEFINE r == page.answer
  <2>1. /\ requests' = Append(requests, Request("sign", requests[r].user)) /\ session' = session
        /\ InApp /\ page.check = "accepted"
    BY <1>4 DEF Continue, LeaveForJoyId
  <2>2. r \in Requests
    BY <2>1, ShownPage DEF Held
  <2>3. requests[r] \in [step : Steps, user : Users \cup {0}]
    BY <2>2, ElementOfSeq, LenProperties DEF RequestTypes, Requests
  <2>4. requests[r].user \in Users \cup {0}
    BY <2>3
  <2>5. QED
    BY <1>1, <2>1, <2>4, Requested
<1>5. CASE SignOut
  BY <1>5 DEF SignOut, RequestTypes
<1>6. ASSUME NEW u \in Users, SignIn(u) PROVE RequestTypes'
  BY <1>6 DEF SignIn, RequestTypes
<1>7. ASSUME NEW kind \in Kinds, Returns(kind) PROVE RequestTypes'
  BY <1>2, <1>7 DEF Returns
<1>8. ASSUME NEW to, Travels(to) PROVE RequestTypes'
  BY <1>2, <1>8 DEF Travels
<1>9. ASSUME NEW status, ApplyEnds(status) PROVE RequestTypes'
  BY <1>2, <1>9 DEF ApplyEnds
<1>10. CASE Resume \/ ResumeFails \/ Hold \/ WalletStarts \/ WalletFails \/ Apply \/ Dismiss
  BY <1>2, <1>10 DEF Resume, ResumeFails, Hold, WalletStarts, WalletFails, Apply, Dismiss
<1>11. QED
  BY <1>3, <1>4, <1>5, <1>6, <1>7, <1>8, <1>9, <1>10 DEF RedirectActs

(* Every step of the redirect transport keeps what its history and its pages hold. *)
LEMMA RedirectActsStep == ASSUME RequestTypes, Redirected, RedirectActs PROVE Redirected'
<1>1. RequestTypes'
  BY RedirectRequests
<1>2. ASSUME NEW step \in Steps, Leave(step) PROVE Redirected'
  BY <1>2, LeaveStep
<1>3. ASSUME NEW kind \in Kinds, Returns(kind) PROVE Redirected'
  BY <1>3, ReturnsStep
<1>4. ASSUME NEW to \in {pos - 1, pos + 1}, Travels(to) PROVE Redirected'
  BY <1>4, TravelsStep
<1>5. ASSUME NEW status \in {"done", "failed"}, ApplyEnds(status) PROVE Redirected'
  BY <1>1, <1>5, ApplyEndsStep
<1>6. ASSUME NEW u \in Users, SignIn(u) PROVE Redirected'
  BY <1>1, <1>6, SignInStep
<1>7. CASE Resume \/ ResumeFails \/ Continue \/ Hold
  BY <1>1, <1>7, ResumeStep, ResumeFailsStep, ContinueStep, HoldStep
<1>8. CASE WalletStarts \/ WalletFails \/ Apply \/ Dismiss \/ SignOut
  BY <1>1, <1>8, WalletSteps, ApplyStep, DismissStep, SignOutStep
<1>9. QED
  BY <1>2, <1>3, <1>4, <1>5, <1>6, <1>7, <1>8 DEF RedirectActs

(* The tab starts on a page of the app's, with no request. *)
LEMMA JoyIdStarts == JoyIdInit => JoyIdInv
<1> SUFFICES ASSUME JoyIdInit PROVE JoyIdInv
  OBVIOUS
<1>1. session \in Users
  BY JoyIdAssumption DEF JoyIdInit
<1>2. RequestTypes
  BY <1>1 DEF JoyIdInit, RequestTypes
<1> DEFINE a == AppEntry(<<>>)
           n == NewPage
<1>3. a \in Entries /\ a.site = "app" /\ a.kept = <<>>
  BY EntriesAre
<1>4. n \in Pages /\ n.left = 0 /\ n.check = "none" /\ n.job = 0 /\ Held(n) = {}
  BY <1>2, NewPageIs
<1>5. history = <<a>> /\ pos = 1 /\ page = n /\ applied = <<>> /\ over = {} /\ stored = {} /\ requests = <<>>
  BY DEF JoyIdInit
<1> HIDE DEF a, n
<1>6. history \in Seq(Entries) /\ DOMAIN history = {1} /\ history[1] = a
  BY <1>3, <1>5
<1>7. NoRedirect
  BY <1>3, <1>4, <1>5, <1>6 DEF NoRedirect
<1>8. /\ tab = [pc |-> "idle", request |-> 0] /\ air = <<>> /\ responses = <<>> /\ go = 0
      /\ window = [at |-> "none", request |-> 0, kind |-> "answer", toJoyId |-> FALSE]
  BY DEF JoyIdInit
<1>9. WindowInv
  <2>1. air \in Seq(Message) /\ responses \in Seq(Message)
    BY <1>8
  <2>2. WindowTypes
    BY <1>8, <2>1 DEF WindowTypes, Kinds
  <2>3. Started /\ AwayInv /\ WaitsForJoyId
    BY <1>8 DEF Started, AwayInv, WaitsForJoyId
  <2>4. QED
    BY <1>7, <2>2, <2>3 DEF WindowInv
<1>10. IsInjective(applied) /\ Range(applied) = {} /\ applied \in Seq(Nat)
  BY <1>5 DEF IsInjective, Range
<1>11. HistoryTypes
  BY <1>3, <1>4, <1>5, <1>6, <1>10 DEF HistoryTypes
<1>12. PagesInv
  <2>1. \A i \in DOMAIN history : PageAt(i) = n
    BY <1>5, <1>6 DEF PageAt
  <2>2. QED
    BY <1>4, <1>6, <2>1 DEF PagesInv
<1>13. RecordsInv /\ AnsweredOnce
  BY <1>5, <1>10 DEF RecordsInv, AnsweredOnce
<1>14. NoWindow
  BY <1>8 DEF NoWindow
<1>15. QED
  BY <1>2, <1>9, <1>11, <1>12, <1>13, <1>14 DEF JoyIdInv, RedirectInv, JoyIdInit

(* What the invariant speaks of stays when these variables do. *)
LEMMA SameRunning ==
    ASSUME Running, UNCHANGED <<stored, windowVars>>
    PROVE  Running'
<1>1. UNCHANGED <<stored, tab, told, responses, air, go, window>>
  BY DEF windowVars
<1>2. QED
  BY <1>1 DEF Running, WindowTypes, Started, AwayInv, Away, GoneSaid, WaitsForJoyId

(* The same for the redirect transport. *)
LEMMA SameRedirected ==
    ASSUME Redirected, UNCHANGED <<requests, stored, redirectVars>>
    PROVE  Redirected'
<1>1. UNCHANGED <<requests, stored, session, history, pos, page, applied, over>>
  BY DEF redirectVars
<1>2. HistoryTypes' /\ AnsweredOnce' /\ RecordsInv'
  BY <1>1 DEF Redirected, HistoryTypes, AnsweredOnce, RecordsInv, Requests
<1>3. Requests' = Requests /\ \A i \in DOMAIN history : (HasPage(i)' <=> HasPage(i)) /\ PageAt(i)' = PageAt(i)
  BY <1>1 DEF Requests, HasPage, PageAt
<1>4. \A i \in DOMAIN history : Held(PageAt(i))' = Held(PageAt(i))
  BY <1>3 DEF Held
<1>5. PagesInv'
  BY <1>1, <1>3, <1>4 DEF Redirected, PagesInv
<1>6. QED
  BY <1>2, <1>5 DEF Redirected

(* Every step keeps the invariant, with either transport. *)
LEMMA JoyIdSteps == JoyIdInv /\ [JoyIdNext]_joyIdVars => JoyIdInv'
<1> SUFFICES ASSUME JoyIdInv, [JoyIdNext]_joyIdVars PROVE JoyIdInv'
  OBVIOUS
<1>1. /\ RequestTypes /\ transport \in {"window", "redirect"}
      /\ transport = "window" => NoRedirect /\ Running
      /\ transport = "redirect" => NoWindow /\ Redirected
  BY DEF JoyIdInv, WindowInv, RedirectInv, Running, Redirected
<1>2. ASSUME RequestTypes', transport' = transport,
             transport = "window" => NoRedirect' /\ Running',
             transport = "redirect" => NoWindow' /\ Redirected'
      PROVE  JoyIdInv'
  BY <1>1, <1>2 DEF JoyIdInv, WindowInv, RedirectInv, Running, Redirected
<1>3. UNCHANGED redirectVars => NoRedirect' = NoRedirect
  BY DEF redirectVars, NoRedirect
<1>4. UNCHANGED windowVars => NoWindow' = NoWindow
  BY DEF windowVars, NoWindow
<1>5. CASE WindowActs
  <2>1. UNCHANGED redirectVars /\ transport' = transport
    BY <1>5, WindowActsKeep
  <2>2. RequestTypes'
    BY <1>1, <1>5, WindowRequests
  <2>3. transport # "redirect"
    BY <1>1, <1>5, WindowActsNeed
  <2>4. transport = "window" => Running'
    BY <1>1, <1>5, WindowActsStep
  <2>5. QED
    BY <1>1, <1>2, <1>3, <2>1, <2>2, <2>3, <2>4
<1>6. CASE RedirectActs
  <2>1. transport = "redirect" /\ transport' = transport /\ UNCHANGED windowVars
    BY <1>6, RedirectActsKeep
  <2>2. RequestTypes' /\ Redirected'
    BY <1>1, <1>6, <2>1, RedirectRequests, RedirectActsStep
  <2>3. QED
    BY <1>1, <1>2, <1>4, <2>1, <2>2
<1>7. ASSUME UNCHANGED <<transport, requests, stored, windowVars, redirectVars>> PROVE JoyIdInv'
  <2>1. RequestTypes'
    BY <1>1, <1>7 DEF RequestTypes, redirectVars
  <2>2. transport = "window" => Running'
    BY <1>1, <1>7, SameRunning
  <2>3. transport = "redirect" => Redirected'
    BY <1>1, <1>7, SameRedirected
  <2>4. QED
    BY <1>1, <1>2, <1>3, <1>4, <1>7, <2>1, <2>2, <2>3
<1>8. ASSUME NEW r \in Requests, Expire(r) PROVE JoyIdInv'
  BY <1>7, <1>8 DEF Expire
<1>9. CASE UNCHANGED joyIdVars
  BY <1>7, <1>9 DEF joyIdVars
<1>10. QED
  BY <1>5, <1>6, <1>8, <1>9, TheSteps

(* The invariant holds in every state JoyId reaches. *)
LEMMA JoyIdIsInvariant == JoyIdSpec => []JoyIdInv
<1>1. JoyIdInit => JoyIdInv
  BY JoyIdStarts
<1>2. JoyIdInv /\ [JoyIdNext]_joyIdVars => JoyIdInv'
  BY JoyIdSteps
<1>3. QED
  BY <1>1, <1>2, PTL DEF JoyIdSpec

(* A run that waits for the window's answer with nothing under way waits for JoyID, or for the window to load: whatever
   messages were lost to pages that were not loaded, while the window is on this site the tab was told. *)
THEOREM RunWaitsForJoyId == JoyIdSpec => []WaitsForJoyId
<1>1. JoyIdInv => WaitsForJoyId
  BY DEF JoyIdInv, WindowInv, RedirectInv, NoWindow, WaitsForJoyId
<1>2. QED
  BY <1>1, JoyIdIsInvariant, PTL

(* A redirect's proof is applied once, and nothing is recorded that an answer could be taken with once its request was
   applied or the user was told that it is over, whatever they do with Back and Forward, reloads, sign-outs and sign-ins. *)
THEOREM RedirectIsAnsweredOnce == JoyIdSpec => []AnsweredOnce
<1>1. over = {} /\ applied = <<>> => AnsweredOnce
  BY DEF AnsweredOnce, IsInjective, Range
<1>2. JoyIdInv => AnsweredOnce
  BY <1>1 DEF JoyIdInv, WindowInv, RedirectInv, NoRedirect
<1>3. QED
  BY <1>2, JoyIdIsInvariant, PTL
=============================================================================
