------------------------ MODULE FiberPaymentsProofs ------------------------
(***************************************************************************)
(* Theorems about FiberPayments, for any number of requests, keys and      *)
(* approvals: nothing is paid twice, what failed stays failed, and what    *)
(* left is counted.  Each part of IInv has a lemma of its own: the steps   *)
(* keep it, given the parts before it.                                     *)
(*                                                                         *)
(* The second part is about Settlement.                                    *)
(***************************************************************************)
EXTENDS FiberPayments, Settlement, FiniteSetTheorems, TLAPS

(* No request is under way: every part of the invariant holds. *)
LEMMA InitIInv == Init => IInv
<1> SUFFICES ASSUME Init PROVE IInv
  OBVIOUS
<1>1. TypeOK
  BY PaymentsAssumption DEF Init, TypeOK, Records, NoRecord, Labels
<1>2. PlaceInv /\ OwnerInv /\ UserInv /\ FailInv /\ CountInv /\ LimitInv
  BY DEF Init, PlaceInv, OwnerInv, UserInv, FailInv, CountInv, LimitInv, Unverified, Owns, Uses, Working, Left,
     SameKey, BeforeUse, AfterUse, Paying
<1>3. QED
  BY <1>1, <1>2 DEF IInv

-----------------------------------------------------------------------------
(* Types *)

(* Writing an outcome keeps the types of the records. *)
LEMMA ResolveTypes ==
  ASSUME TypeOK, NEW r \in Requests, NEW status \in {"completed", "failed"}, Resolve(r, status)
  PROVE  record' \in [Keys -> Records]
<1>1. CASE record' = record
  BY <1>1 DEF TypeOK
<1>2. CASE key[r] # None /\ record' = [record EXCEPT ![key[r]].status = status, ![key[r]].stale = FALSE]
  <2>1. record[key[r]] \in Records /\ key[r] \in Keys
    BY <1>2 DEF TypeOK
  <2>2. [record[key[r]] EXCEPT !.status = status, !.stale = FALSE] \in Records
    BY <2>1 DEF Records
  <2>3. QED
    BY <1>2, <2>1, <2>2 DEF TypeOK
<1>3. QED
  BY <1>1, <1>2 DEF Resolve

(* Each step keeps the types, where handlers work on an approval and on a key. *)
LEMMA StepTypeOK == TypeOK /\ PlaceInv /\ [Next]_vars => TypeOK'
<1> SUFFICES ASSUME TypeOK /\ PlaceInv, [Next]_vars PROVE TypeOK'
  OBVIOUS
<1> USE PaymentsAssumption DEF PlaceInv, TypeOK, Labels, Records, Paying, Goto, requestVars, nodeVars
<1>1. ASSUME NEW a \in Approvals, Preview(a) PROVE TypeOK'
  BY <1>1 DEF Preview, Replaced
<1>2. ASSUME NEW a \in Approvals, Expire(a) PROVE TypeOK'
  BY <1>2 DEF Expire
<1>3. ASSUME NEW r \in Requests, Send(r) PROVE TypeOK'
  BY <1>3 DEF Send
<1>4. ASSUME NEW r \in Requests, Claim(r) PROVE TypeOK'
  <2>1. key[r] \in Keys /\ RunningRecord(asked[r]) \in Records
    BY <1>4 DEF Claim, RunningRecord
  <2>2. record' \in [Keys -> Records]
    BY <1>4, <2>1 DEF Claim
  <2>3. QED
    BY <1>4, <2>2 DEF Claim
<1>5. ASSUME NEW r \in Requests, Repeat(r) PROVE TypeOK'
  BY <1>5 DEF Repeat, Tell
<1>6. ASSUME NEW r \in Requests, Load(r) PROVE TypeOK'
  BY <1>6 DEF Load
<1>7. ASSUME NEW r \in Requests, Check(r) PROVE TypeOK'
  BY <1>7 DEF Check
<1>8. ASSUME NEW r \in Requests, Verify(r) PROVE TypeOK'
  BY <1>8 DEF Verify
<1>9. ASSUME NEW r \in Requests, Consume(r) PROVE TypeOK'
  BY <1>9 DEF Consume
<1>10. ASSUME NEW r \in Requests, Reserve(r) PROVE TypeOK'
  BY <1>10 DEF Reserve
<1>11. ASSUME NEW r \in Requests, RecordHandle(r) PROVE TypeOK'
  <2>1. record' \in [Keys -> Records]
    <3>1. CASE record' = record
      BY <3>1
    <3>2. CASE HasHandle(r) /\ record' = [record EXCEPT ![key[r]].handle = TRUE, ![key[r]].stale = FALSE]
      <4>1. record[key[r]] \in Records /\ key[r] \in Keys
        BY <3>2 DEF HasHandle
      <4>2. [record[key[r]] EXCEPT !.handle = TRUE, !.stale = FALSE] \in Records
        BY <4>1
      <4>3. QED
        BY <3>2, <4>1, <4>2
    <3>3. QED
      BY <1>11, <3>1, <3>2 DEF RecordHandle
  <2>2. QED
    BY <1>11, <2>1 DEF RecordHandle
<1>12. ASSUME NEW r \in Requests, Call(r) PROVE TypeOK'
  BY <1>12 DEF Call
<1>13. ASSUME NEW r \in Requests, CallReturns(r) PROVE TypeOK'
  BY <1>13 DEF CallReturns
<1>14. ASSUME NEW r \in Requests, Lookup(r) PROVE TypeOK'
  BY <1>14 DEF Lookup, Tell
<1>15. ASSUME NEW r \in Requests, Undo(r) PROVE TypeOK'
  BY <1>15 DEF Undo
<1>16. ASSUME NEW r \in Requests, Sign(r) PROVE TypeOK'
  BY <1>16 DEF Sign
<1>26. ASSUME NEW r \in Requests, SignCoded(r) PROVE TypeOK'
  BY <1>26 DEF SignCoded
<1>17. ASSUME NEW r \in Requests, Count(r) PROVE TypeOK'
  BY <1>17 DEF Count
<1>18. ASSUME NEW r \in Requests, Fail(r) PROVE TypeOK'
  BY <1>18, ResolveTypes DEF Fail, Tell
<1>19. ASSUME NEW r \in Requests, Store(r) PROVE TypeOK'
  BY <1>19, ResolveTypes DEF Store, Tell
<1>20. ASSUME NEW r \in Requests, Reconcile(r) PROVE TypeOK'
  BY <1>20 DEF Reconcile, Tell
<1>21. ASSUME NEW r \in Requests, Reconciled(r) PROVE TypeOK'
  BY <1>21, ResolveTypes DEF Reconciled, Tell
<1>22. ASSUME NEW r \in Requests, NodeTakes(r) PROVE TypeOK'
  BY <1>22 DEF NodeTakes
<1>23. ASSUME NEW k \in Keys, Stale(k) PROVE TypeOK'
  BY <1>23 DEF Stale
<1>24. CASE Crash
  BY <1>24 DEF Crash, Running
<1>25. CASE UNCHANGED vars
  BY <1>25 DEF vars
<1>99. QED
  BY <1>1, <1>2, <1>3, <1>4, <1>5, <1>6, <1>7, <1>8, <1>9, <1>10, <1>11, <1>12, <1>13, <1>14, <1>15, <1>16,
     <1>17, <1>18, <1>19, <1>20, <1>21, <1>22, <1>23, <1>24, <1>25, <1>26
  DEF Next, HandlerStep

-----------------------------------------------------------------------------
(* The inductive invariant *)

(* Where a handler is when it has sent something, and when it has told the client. *)
LEMMA StepPlaceInv == TypeOK /\ PlaceInv /\ [Next]_vars => PlaceInv'
<1> SUFFICES ASSUME TypeOK /\ PlaceInv, [Next]_vars PROVE PlaceInv'
  OBVIOUS
<1> USE PaymentsAssumption DEF PlaceInv, TypeOK, Paying, Left, Goto, requestVars, nodeVars
<1>1. ASSUME NEW a \in Approvals, Preview(a) PROVE PlaceInv'
  BY <1>1 DEF Preview, Replaced
<1>2. ASSUME NEW a \in Approvals, Expire(a) PROVE PlaceInv'
  BY <1>2 DEF Expire
<1>3. ASSUME NEW r \in Requests, Send(r) PROVE PlaceInv'
  BY <1>3 DEF Send
<1>4. ASSUME NEW r \in Requests, Claim(r) PROVE PlaceInv'
  BY <1>4 DEF Claim, RunningRecord
<1>5. ASSUME NEW r \in Requests, Repeat(r) PROVE PlaceInv'
  BY <1>5 DEF Repeat, Tell
<1>6. ASSUME NEW r \in Requests, Load(r) PROVE PlaceInv'
  BY <1>6 DEF Load
<1>7. ASSUME NEW r \in Requests, Check(r) PROVE PlaceInv'
  BY <1>7 DEF Check
<1>8. ASSUME NEW r \in Requests, Verify(r) PROVE PlaceInv'
  BY <1>8 DEF Verify
<1>9. ASSUME NEW r \in Requests, Consume(r) PROVE PlaceInv'
  BY <1>9 DEF Consume, Approvals
<1>10. ASSUME NEW r \in Requests, Reserve(r) PROVE PlaceInv'
  BY <1>10 DEF Reserve
<1>11. ASSUME NEW r \in Requests, RecordHandle(r) PROVE PlaceInv'
  BY <1>11 DEF RecordHandle
<1>12. ASSUME NEW r \in Requests, Call(r) PROVE PlaceInv'
  BY <1>12 DEF Call
<1>13. ASSUME NEW r \in Requests, CallReturns(r) PROVE PlaceInv'
  BY <1>13 DEF CallReturns
<1>14. ASSUME NEW r \in Requests, Lookup(r) PROVE PlaceInv'
  BY <1>14 DEF Lookup, Tell
<1>15. ASSUME NEW r \in Requests, Undo(r) PROVE PlaceInv'
  BY <1>15 DEF Undo
<1>16. ASSUME NEW r \in Requests, Sign(r) PROVE PlaceInv'
  BY <1>16 DEF Sign
<1>26. ASSUME NEW r \in Requests, SignCoded(r) PROVE PlaceInv'
  BY <1>26 DEF SignCoded, Approvals
<1>17. ASSUME NEW r \in Requests, Count(r) PROVE PlaceInv'
  BY <1>17 DEF Count
<1>18. ASSUME NEW r \in Requests, Fail(r) PROVE PlaceInv'
  BY <1>18 DEF Fail, Resolve, Tell
<1>19. ASSUME NEW r \in Requests, Store(r) PROVE PlaceInv'
  BY <1>19 DEF Store, Resolve, Tell
<1>20. ASSUME NEW r \in Requests, Reconcile(r) PROVE PlaceInv'
  BY <1>20 DEF Reconcile, Tell
<1>21. ASSUME NEW r \in Requests, Reconciled(r) PROVE PlaceInv'
  BY <1>21 DEF Reconciled, Resolve, Tell
<1>22. ASSUME NEW r \in Requests, NodeTakes(r) PROVE PlaceInv'
  BY <1>22 DEF NodeTakes
<1>23. ASSUME NEW k \in Keys, Stale(k) PROVE PlaceInv'
  BY <1>23 DEF Stale
<1>24. CASE Crash
  BY <1>24 DEF Crash, Running
<1>25. CASE UNCHANGED vars
  BY <1>25 DEF vars
<1>99. QED
  BY <1>1, <1>2, <1>3, <1>4, <1>5, <1>6, <1>7, <1>8, <1>9, <1>10, <1>11, <1>12, <1>13, <1>14, <1>15, <1>16,
     <1>17, <1>18, <1>19, <1>20, <1>21, <1>22, <1>23, <1>24, <1>25, <1>26
  DEF Next, HandlerStep

(* One request runs the mutation of a key: only the insert of the record starts it. *)
LEMMA StepOwnerInv == TypeOK /\ PlaceInv /\ OwnerInv /\ [Next]_vars => OwnerInv'
<1> SUFFICES ASSUME TypeOK /\ PlaceInv /\ OwnerInv, [Next]_vars PROVE OwnerInv'
  OBVIOUS
<1> USE PaymentsAssumption DEF OwnerInv, PlaceInv, TypeOK, Records, Owns, Working, BeforeUse, AfterUse, Paying, Left, Goto, requestVars, nodeVars
<1>1. ASSUME NEW a \in Approvals, Preview(a) PROVE OwnerInv'
  BY <1>1 DEF Preview, Replaced
<1>2. ASSUME NEW a \in Approvals, Expire(a) PROVE OwnerInv'
  BY <1>2 DEF Expire
<1>3. ASSUME NEW r \in Requests, Send(r) PROVE OwnerInv'
  BY <1>3 DEF Send
<1>4. ASSUME NEW r \in Requests, Claim(r) PROVE OwnerInv'
  <2>1. key[r] \in Keys
    BY <1>4 DEF Claim
  <2>2. CASE record[key[r]].status = "none"
    <3>1. \A s \in Requests : key[s] = key[r] => ~Owns(s)
      BY <2>1, <2>2
    <3>2. record'[key[r]].status = "running" /\ \A k \in Keys : k # key[r] => record'[k] = record[k]
      BY <1>4, <2>1, <2>2 DEF Claim, RunningRecord
    <3>3. pc' = [pc EXCEPT ![r] = "load"] /\ UNCHANGED <<key, calls, paid, moved>>
      BY <1>4, <2>2 DEF Claim
    <3>4. \A s \in Requests : s # r => (Owns(s)' <=> Owns(s))
      BY <3>3
    <3>5. QED
      BY <2>1, <3>1, <3>2, <3>3, <3>4
  <2>3. CASE record[key[r]].status # "none"
    <3>1. pc' = [pc EXCEPT ![r] = "repeat"] /\ UNCHANGED <<record, key, calls, paid, moved>>
      BY <1>4, <2>3 DEF Claim
    <3>2. \A s \in Requests : (Owns(s)' => Owns(s)) /\ (s # r => pc'[s] = pc[s])
      BY <3>1
    <3>3. QED
      BY <2>1, <2>3, <3>1, <3>2
  <2>4. QED
    BY <2>2, <2>3
<1>5. ASSUME NEW r \in Requests, Repeat(r) PROVE OwnerInv'
  BY <1>5 DEF Repeat, Tell
<1>6. ASSUME NEW r \in Requests, Load(r) PROVE OwnerInv'
  BY <1>6 DEF Load
<1>7. ASSUME NEW r \in Requests, Check(r) PROVE OwnerInv'
  BY <1>7 DEF Check
<1>8. ASSUME NEW r \in Requests, Verify(r) PROVE OwnerInv'
  BY <1>8 DEF Verify
<1>9. ASSUME NEW r \in Requests, Consume(r) PROVE OwnerInv'
  BY <1>9 DEF Consume
<1>10. ASSUME NEW r \in Requests, Reserve(r) PROVE OwnerInv'
  BY <1>10 DEF Reserve
<1>11. ASSUME NEW r \in Requests, RecordHandle(r) PROVE OwnerInv'
  <2>1. \A k \in Keys : record'[k].status = record[k].status
    BY <1>11 DEF RecordHandle
  <2>2. \A s \in Requests : (Owns(s)' => Owns(s)) /\ (s # r => pc'[s] = pc[s]) /\ pc[r] = "handle"
    BY <1>11 DEF RecordHandle
  <2>3. UNCHANGED <<key, calls, paid, moved>>
    BY <1>11 DEF RecordHandle
  <2>4. QED
    BY <2>1, <2>2, <2>3
<1>12. ASSUME NEW r \in Requests, Call(r) PROVE OwnerInv'
  BY <1>12 DEF Call
<1>13. ASSUME NEW r \in Requests, CallReturns(r) PROVE OwnerInv'
  BY <1>13 DEF CallReturns
<1>14. ASSUME NEW r \in Requests, Lookup(r) PROVE OwnerInv'
  BY <1>14 DEF Lookup, Tell
<1>15. ASSUME NEW r \in Requests, Undo(r) PROVE OwnerInv'
  BY <1>15 DEF Undo
<1>16. ASSUME NEW r \in Requests, Sign(r) PROVE OwnerInv'
  BY <1>16 DEF Sign
<1>26. ASSUME NEW r \in Requests, SignCoded(r) PROVE OwnerInv'
  BY <1>26 DEF SignCoded
<1>17. ASSUME NEW r \in Requests, Count(r) PROVE OwnerInv'
  BY <1>17 DEF Count
<1>18. ASSUME NEW r \in Requests, Fail(r) PROVE OwnerInv'
  BY <1>18 DEF Fail, Resolve, Tell
<1>19. ASSUME NEW r \in Requests, Store(r) PROVE OwnerInv'
  BY <1>19 DEF Store, Resolve, Tell
<1>20. ASSUME NEW r \in Requests, Reconcile(r) PROVE OwnerInv'
  <2>1. UNCHANGED <<record, key, calls, paid, moved>> /\ record[key[r]].status # "none"
    BY <1>20 DEF Reconcile
  <2>2. \A s \in Requests : (s # r => pc'[s] = pc[s]) /\ (Owns(s)' => Owns(s))
    BY <1>20 DEF Reconcile, Tell
  <2>3. QED
    BY <2>1, <2>2
<1>21. ASSUME NEW r \in Requests, Reconciled(r) PROVE OwnerInv'
  BY <1>21 DEF Reconciled, Resolve, Tell
<1>22. ASSUME NEW r \in Requests, NodeTakes(r) PROVE OwnerInv'
  BY <1>22 DEF NodeTakes
<1>23. ASSUME NEW k \in Keys, Stale(k) PROVE OwnerInv'
  BY <1>23 DEF Stale
<1>24. CASE Crash
  BY <1>24 DEF Crash, Running
<1>25. CASE UNCHANGED vars
  BY <1>25 DEF vars
<1>99. QED
  BY <1>1, <1>2, <1>3, <1>4, <1>5, <1>6, <1>7, <1>8, <1>9, <1>10, <1>11, <1>12, <1>13, <1>14, <1>15, <1>16,
     <1>17, <1>18, <1>19, <1>20, <1>21, <1>22, <1>23, <1>24, <1>25, <1>26
  DEF Next, HandlerStep

(* One request uses an approval: only the delete of its row lets a handler on. *)
LEMMA StepUserInv == TypeOK /\ PlaceInv /\ UserInv /\ [Next]_vars => UserInv'
<1> SUFFICES ASSUME TypeOK /\ PlaceInv /\ UserInv, [Next]_vars PROVE UserInv'
  OBVIOUS
<1> USE PaymentsAssumption DEF UserInv, PlaceInv, TypeOK, Uses, AfterUse, Paying, Left, Goto, requestVars, nodeVars
<1>1. ASSUME NEW a \in Approvals, Preview(a) PROVE UserInv'
  BY <1>1 DEF Preview, Replaced
<1>2. ASSUME NEW a \in Approvals, Expire(a) PROVE UserInv'
  BY <1>2 DEF Expire
<1>3. ASSUME NEW r \in Requests, Send(r) PROVE UserInv'
  BY <1>3 DEF Send
<1>4. ASSUME NEW r \in Requests, Claim(r) PROVE UserInv'
  BY <1>4 DEF Claim, RunningRecord
<1>5. ASSUME NEW r \in Requests, Repeat(r) PROVE UserInv'
  BY <1>5 DEF Repeat, Tell
<1>6. ASSUME NEW r \in Requests, Load(r) PROVE UserInv'
  BY <1>6 DEF Load
<1>7. ASSUME NEW r \in Requests, Check(r) PROVE UserInv'
  BY <1>7 DEF Check
<1>8. ASSUME NEW r \in Requests, Verify(r) PROVE UserInv'
  BY <1>8 DEF Verify
<1>9. ASSUME NEW r \in Requests, Consume(r) PROVE UserInv'
  BY <1>9 DEF Consume
<1>10. ASSUME NEW r \in Requests, Reserve(r) PROVE UserInv'
  BY <1>10 DEF Reserve
<1>11. ASSUME NEW r \in Requests, RecordHandle(r) PROVE UserInv'
  BY <1>11 DEF RecordHandle
<1>12. ASSUME NEW r \in Requests, Call(r) PROVE UserInv'
  BY <1>12 DEF Call
<1>13. ASSUME NEW r \in Requests, CallReturns(r) PROVE UserInv'
  BY <1>13 DEF CallReturns
<1>14. ASSUME NEW r \in Requests, Lookup(r) PROVE UserInv'
  BY <1>14 DEF Lookup, Tell
<1>15. ASSUME NEW r \in Requests, Undo(r) PROVE UserInv'
  BY <1>15 DEF Undo
<1>16. ASSUME NEW r \in Requests, Sign(r) PROVE UserInv'
  BY <1>16 DEF Sign
<1>26. ASSUME NEW r \in Requests, SignCoded(r) PROVE UserInv'
  BY <1>26 DEF SignCoded
<1>17. ASSUME NEW r \in Requests, Count(r) PROVE UserInv'
  BY <1>17 DEF Count
<1>18. ASSUME NEW r \in Requests, Fail(r) PROVE UserInv'
  BY <1>18 DEF Fail, Resolve, Tell
<1>19. ASSUME NEW r \in Requests, Store(r) PROVE UserInv'
  BY <1>19 DEF Store, Resolve, Tell
<1>20. ASSUME NEW r \in Requests, Reconcile(r) PROVE UserInv'
  BY <1>20 DEF Reconcile, Tell
<1>21. ASSUME NEW r \in Requests, Reconciled(r) PROVE UserInv'
  BY <1>21 DEF Reconciled, Resolve, Tell
<1>22. ASSUME NEW r \in Requests, NodeTakes(r) PROVE UserInv'
  BY <1>22 DEF NodeTakes
<1>23. ASSUME NEW k \in Keys, Stale(k) PROVE UserInv'
  BY <1>23 DEF Stale
<1>24. CASE Crash
  BY <1>24 DEF Crash, Running
<1>25. CASE UNCHANGED vars
  BY <1>25 DEF vars
<1>99. QED
  BY <1>1, <1>2, <1>3, <1>4, <1>5, <1>6, <1>7, <1>8, <1>9, <1>10, <1>11, <1>12, <1>13, <1>14, <1>15, <1>16,
     <1>17, <1>18, <1>19, <1>20, <1>21, <1>22, <1>23, <1>24, <1>25, <1>26
  DEF Next, HandlerStep

(* What is refused, undone or failed has not left, and no other request works on its key. *)
LEMMA StepFailInv == TypeOK /\ PlaceInv /\ OwnerInv /\ FailInv /\ [Next]_vars => FailInv'
<1> SUFFICES ASSUME TypeOK /\ PlaceInv /\ OwnerInv /\ FailInv, [Next]_vars PROVE FailInv'
  OBVIOUS
<1> USE PaymentsAssumption DEF FailInv, OwnerInv, PlaceInv, TypeOK, Records, Owns, Working, BeforeUse, AfterUse, Paying, Left, SameKey, Goto, requestVars, nodeVars
<1>1. ASSUME NEW a \in Approvals, Preview(a) PROVE FailInv'
  BY <1>1 DEF Preview, Replaced
<1>2. ASSUME NEW a \in Approvals, Expire(a) PROVE FailInv'
  BY <1>2 DEF Expire
<1>3. ASSUME NEW r \in Requests, Send(r) PROVE FailInv'
  <2>1. (calls \cap paid = {})'
    BY <1>3 DEF Send
  <2>2. (\A s \in Requests : reply[s] = "refused" => s \notin calls \cup paid)'
    BY <1>3 DEF Send
  <2>3. (\A s \in Requests : pc[s] = "lookupRefused" => reply[s] = "refused")'
    BY <1>3 DEF Send
  <2>4. (\A s \in Requests : pc[s] \in {"undo", "fail"} /\ key[s] # None => s \notin calls \cup paid)'
    BY <1>3 DEF Send
  <2>5. (\A s \in Requests : key[s] # None /\ record[key[s]].status = "failed" => s \notin calls \cup paid /\ ~Working(s))'
    BY <1>3 DEF Send
  <2>6. (\A q, s \in Requests : answer[q] = "failed" /\ SameKey(q, s) => s \notin calls \cup paid /\ ~Working(s))'
    <3> SUFFICES ASSUME NEW q \in Requests, NEW s \in Requests, answer'[q] = "failed", SameKey(q, s)'
                 PROVE  s \notin calls' \cup paid' /\ ~Working(s)'
      OBVIOUS
    <3>1. q # r /\ answer[q] = "failed" /\ key'[q] = key[q]
      BY <1>3 DEF Send
    <3>2. CASE s = r
      <4>1. pc'[r] = "claim" /\ r \notin calls' \cup paid'
        BY <1>3, <3>1, <3>2 DEF Send
      <4>2. QED
        BY <3>2, <4>1
    <3>3. CASE s # r
      BY <1>3, <3>1, <3>3 DEF Send
    <3>4. QED
      BY <3>2, <3>3
  <2>7. QED
    BY <2>1, <2>2, <2>3, <2>4, <2>5, <2>6
<1>4. ASSUME NEW r \in Requests, Claim(r) PROVE FailInv'
  <2>1. (calls \cap paid = {})'
    BY <1>4 DEF Claim, RunningRecord
  <2>2. (\A s \in Requests : reply[s] = "refused" => s \notin calls \cup paid)'
    BY <1>4 DEF Claim, RunningRecord
  <2>3. (\A s \in Requests : pc[s] = "lookupRefused" => reply[s] = "refused")'
    BY <1>4 DEF Claim, RunningRecord
  <2>4. (\A s \in Requests : pc[s] \in {"undo", "fail"} /\ key[s] # None => s \notin calls \cup paid)'
    BY <1>4 DEF Claim, RunningRecord
  <2>5. (\A s \in Requests : key[s] # None /\ record[key[s]].status = "failed" => s \notin calls \cup paid /\ ~Working(s))'
    BY <1>4 DEF Claim, RunningRecord
  <2>6. (\A q, s \in Requests : answer[q] = "failed" /\ SameKey(q, s) => s \notin calls \cup paid /\ ~Working(s))'
    <3> SUFFICES ASSUME NEW q \in Requests, NEW s \in Requests, answer'[q] = "failed", SameKey(q, s)'
                 PROVE  s \notin calls' \cup paid' /\ ~Working(s)'
      OBVIOUS
    <3>1. q # r /\ answer[q] = "failed" /\ pc[q] = "done" /\ SameKey(q, s)
      BY <1>4 DEF Claim
    <3>2. record[key[q]].status # "none"
      BY <3>1
    <3>3. CASE s = r
      BY <1>4, <3>1, <3>2, <3>3 DEF Claim
    <3>4. CASE s # r
      BY <1>4, <3>1, <3>4 DEF Claim
    <3>5. QED
      BY <3>3, <3>4
  <2>7. QED
    BY <2>1, <2>2, <2>3, <2>4, <2>5, <2>6
<1>5. ASSUME NEW r \in Requests, Repeat(r) PROVE FailInv'
  BY <1>5 DEF Repeat, Tell
<1>6. ASSUME NEW r \in Requests, Load(r) PROVE FailInv'
  BY <1>6 DEF Load
<1>7. ASSUME NEW r \in Requests, Check(r) PROVE FailInv'
  BY <1>7 DEF Check
<1>8. ASSUME NEW r \in Requests, Verify(r) PROVE FailInv'
  BY <1>8 DEF Verify
<1>9. ASSUME NEW r \in Requests, Consume(r) PROVE FailInv'
  BY <1>9 DEF Consume
<1>10. ASSUME NEW r \in Requests, Reserve(r) PROVE FailInv'
  BY <1>10 DEF Reserve
<1>11. ASSUME NEW r \in Requests, RecordHandle(r) PROVE FailInv'
  BY <1>11 DEF RecordHandle
<1>12. ASSUME NEW r \in Requests, Call(r) PROVE FailInv'
  <2>1. (calls \cap paid = {})'
    BY <1>12 DEF Call
  <2>2. (\A s \in Requests : reply[s] = "refused" => s \notin calls \cup paid)'
    <3>1. reply[r] = None
      BY <1>12 DEF Call
    <3>2. \A s \in Requests : reply'[s] = "refused" => s # r /\ s \notin calls' \cup paid'
      BY <1>12, <3>1 DEF Call
    <3>3. QED
      BY <3>2
  <2>3. (\A s \in Requests : pc[s] = "lookupRefused" => reply[s] = "refused")'
    BY <1>12 DEF Call
  <2>4. (\A s \in Requests : pc[s] \in {"undo", "fail"} /\ key[s] # None => s \notin calls \cup paid)'
    BY <1>12 DEF Call
  <2>5. (\A s \in Requests : key[s] # None /\ record[key[s]].status = "failed" => s \notin calls \cup paid /\ ~Working(s))'
    BY <1>12 DEF Call
  <2>6. (\A q, s \in Requests : answer[q] = "failed" /\ SameKey(q, s) => s \notin calls \cup paid /\ ~Working(s))'
    BY <1>12 DEF Call
  <2>7. QED
    BY <2>1, <2>2, <2>3, <2>4, <2>5, <2>6
<1>13. ASSUME NEW r \in Requests, CallReturns(r) PROVE FailInv'
  BY <1>13 DEF CallReturns
<1>14. ASSUME NEW r \in Requests, Lookup(r) PROVE FailInv'
  BY <1>14 DEF Lookup, Tell
<1>15. ASSUME NEW r \in Requests, Undo(r) PROVE FailInv'
  BY <1>15 DEF Undo
<1>16. ASSUME NEW r \in Requests, Sign(r) PROVE FailInv'
  BY <1>16 DEF Sign
<1>26. ASSUME NEW r \in Requests, SignCoded(r) PROVE FailInv'
  BY <1>26 DEF SignCoded
<1>17. ASSUME NEW r \in Requests, Count(r) PROVE FailInv'
  BY <1>17 DEF Count
<1>18. ASSUME NEW r \in Requests, Fail(r) PROVE FailInv'
  BY <1>18 DEF Fail, Resolve, Tell
<1>19. ASSUME NEW r \in Requests, Store(r) PROVE FailInv'
  BY <1>19 DEF Store, Resolve, Tell
<1>20. ASSUME NEW r \in Requests, Reconcile(r) PROVE FailInv'
  BY <1>20 DEF Reconcile, Tell
<1>21. ASSUME NEW r \in Requests, Reconciled(r) PROVE FailInv'
  BY <1>21 DEF Reconciled, Resolve, Tell
<1>22. ASSUME NEW r \in Requests, NodeTakes(r) PROVE FailInv'
  BY <1>22 DEF NodeTakes
<1>23. ASSUME NEW k \in Keys, Stale(k) PROVE FailInv'
  BY <1>23 DEF Stale
<1>24. CASE Crash
  BY <1>24 DEF Crash, Running
<1>25. CASE UNCHANGED vars
  BY <1>25 DEF vars
<1>99. QED
  BY <1>1, <1>2, <1>3, <1>4, <1>5, <1>6, <1>7, <1>8, <1>9, <1>10, <1>11, <1>12, <1>13, <1>14, <1>15, <1>16,
     <1>17, <1>18, <1>19, <1>20, <1>21, <1>22, <1>23, <1>24, <1>25, <1>26
  DEF Next, HandlerStep

(* What has left, or is about to, is counted: only the request that uses an approval takes it back. *)
LEMMA StepCountInv == TypeOK /\ PlaceInv /\ UserInv /\ FailInv /\ CountInv /\ [Next]_vars => CountInv'
<1> SUFFICES ASSUME TypeOK /\ PlaceInv /\ UserInv /\ FailInv /\ CountInv, [Next]_vars PROVE CountInv'
  OBVIOUS
<1> USE PaymentsAssumption DEF CountInv, FailInv, UserInv, PlaceInv, TypeOK, Uses, AfterUse, Paying, Left, Goto, requestVars, nodeVars
<1>1. ASSUME NEW a \in Approvals, Preview(a) PROVE CountInv'
  BY <1>1 DEF Preview, Replaced
<1>2. ASSUME NEW a \in Approvals, Expire(a) PROVE CountInv'
  BY <1>2 DEF Expire
<1>3. ASSUME NEW r \in Requests, Send(r) PROVE CountInv'
  BY <1>3 DEF Send
<1>4. ASSUME NEW r \in Requests, Claim(r) PROVE CountInv'
  BY <1>4 DEF Claim, RunningRecord
<1>5. ASSUME NEW r \in Requests, Repeat(r) PROVE CountInv'
  BY <1>5 DEF Repeat, Tell
<1>6. ASSUME NEW r \in Requests, Load(r) PROVE CountInv'
  BY <1>6 DEF Load
<1>7. ASSUME NEW r \in Requests, Check(r) PROVE CountInv'
  BY <1>7 DEF Check
<1>8. ASSUME NEW r \in Requests, Verify(r) PROVE CountInv'
  BY <1>8 DEF Verify
<1>9. ASSUME NEW r \in Requests, Consume(r) PROVE CountInv'
  BY <1>9 DEF Consume
<1>10. ASSUME NEW r \in Requests, Reserve(r) PROVE CountInv'
  BY <1>10 DEF Reserve
<1>11. ASSUME NEW r \in Requests, RecordHandle(r) PROVE CountInv'
  BY <1>11 DEF RecordHandle
<1>12. ASSUME NEW r \in Requests, Call(r) PROVE CountInv'
  BY <1>12 DEF Call
<1>13. ASSUME NEW r \in Requests, CallReturns(r) PROVE CountInv'
  BY <1>13 DEF CallReturns
<1>14. ASSUME NEW r \in Requests, Lookup(r) PROVE CountInv'
  BY <1>14 DEF Lookup, Tell
<1>15. ASSUME NEW r \in Requests, Undo(r) PROVE CountInv'
  BY <1>15 DEF Undo
<1>16. ASSUME NEW r \in Requests, Sign(r) PROVE CountInv'
  BY <1>16 DEF Sign
<1>26. ASSUME NEW r \in Requests, SignCoded(r) PROVE CountInv'
  BY <1>26 DEF SignCoded
<1>17. ASSUME NEW r \in Requests, Count(r) PROVE CountInv'
  BY <1>17 DEF Count
<1>18. ASSUME NEW r \in Requests, Fail(r) PROVE CountInv'
  BY <1>18 DEF Fail, Resolve, Tell
<1>19. ASSUME NEW r \in Requests, Store(r) PROVE CountInv'
  BY <1>19 DEF Store, Resolve, Tell
<1>20. ASSUME NEW r \in Requests, Reconcile(r) PROVE CountInv'
  BY <1>20 DEF Reconcile, Tell
<1>21. ASSUME NEW r \in Requests, Reconciled(r) PROVE CountInv'
  BY <1>21 DEF Reconciled, Resolve, Tell
<1>22. ASSUME NEW r \in Requests, NodeTakes(r) PROVE CountInv'
  BY <1>22 DEF NodeTakes
<1>23. ASSUME NEW k \in Keys, Stale(k) PROVE CountInv'
  BY <1>23 DEF Stale
<1>24. CASE Crash
  BY <1>24 DEF Crash, Running
<1>25. CASE UNCHANGED vars
  BY <1>25 DEF vars
<1>99. QED
  BY <1>1, <1>2, <1>3, <1>4, <1>5, <1>6, <1>7, <1>8, <1>9, <1>10, <1>11, <1>12, <1>13, <1>14, <1>15, <1>16,
     <1>17, <1>18, <1>19, <1>20, <1>21, <1>22, <1>23, <1>24, <1>25, <1>26
  DEF Next, HandlerStep

(* A smaller set of approvals stays below the amount. *)
LEMMA SmallerStaysBelow ==
  ASSUME NEW S, NEW T, T \subseteq S, S \subseteq Approvals, S # {} => Cardinality(S) < Limit
  PROVE  T # {} => Cardinality(T) < Limit
<1> SUFFICES ASSUME T # {} PROVE Cardinality(T) < Limit
  OBVIOUS
<1>1. IsFiniteSet(S)
  BY PaymentsAssumption, FS_Subset
<1>2. Cardinality(T) <= Cardinality(S) /\ Cardinality(S) \in Nat /\ Cardinality(T) \in Nat
  BY <1>1, FS_Subset, FS_CardinalityType
<1>3. Cardinality(S) < Limit
  OBVIOUS
<1>4. QED
  BY <1>2, <1>3, PaymentsAssumption

(* Only a reservation adds a payment to the total, and it looks at the total, without this payment, first. *)
LEMMA ReserveStaysBelow ==
  ASSUME TypeOK, PlaceInv, LimitInv, NEW r \in Requests, Reserve(r)
  PROVE  Unverified' # {} => Cardinality(Unverified') < Limit
<1> DEFINE a == asked[r]
<1>0. a \in Payments /\ code' = code /\ counted \subseteq Approvals
  BY DEF Reserve, PlaceInv, Paying, TypeOK
<1>1. CASE counted' \subseteq counted \/ a \in code
  <2>1. counted' \subseteq counted \cup {a}
    BY DEF Reserve
  <2>2. Unverified' \subseteq Unverified /\ Unverified \subseteq Approvals
    BY <1>0, <1>1, <2>1 DEF Unverified, Approvals
  <2>3. Unverified # {} => Cardinality(Unverified) < Limit
    BY DEF LimitInv
  <2>4. QED
    BY <2>2, <2>3, SmallerStaysBelow
<1>2. CASE ~(counted' \subseteq counted) /\ a \notin code
  <2> DEFINE S == (counted \ {a}) \cup {a}
  <2>1. counted' = counted \cup {a} /\ ~NeedsCode(a)
    BY <1>2 DEF Reserve
  <2>2. S \subseteq Approvals /\ Unverified' \subseteq S
    BY <1>0, <2>1 DEF Unverified, Approvals
  <2>3. IsFiniteSet(counted \ {a})
    BY <1>0, PaymentsAssumption, FS_Subset
  <2>4. Cardinality(S) = Cardinality(counted \ {a}) + 1
    BY <2>3, FS_AddElement
  <2>5. Cardinality(S) < Limit
    BY <2>1, <2>3, <2>4, FS_CardinalityType, PaymentsAssumption DEF NeedsCode
  <2>6. QED
    BY <2>2, <2>5, SmallerStaysBelow
<1>3. QED
  BY <1>1, <1>2

(* The payments counted without the emailed code stay below the daily amount. *)
LEMMA StepLimitInv == TypeOK /\ PlaceInv /\ LimitInv /\ [Next]_vars => LimitInv'
<1> SUFFICES ASSUME TypeOK /\ PlaceInv /\ LimitInv, [Next]_vars PROVE LimitInv'
  OBVIOUS
<1> DEFINE Paid == \A r \in calls \cup paid : asked[r] \in Payments
           Below == Unverified # {} => Cardinality(Unverified) < Limit
<1>a. Unverified \subseteq Approvals /\ Below
  BY DEF Unverified, LimitInv, Approvals
<1>1. ASSUME NEW a \in Approvals, Preview(a) PROVE LimitInv'
  <2>1. Unverified' \subseteq Unverified /\ UNCHANGED <<calls, paid, asked>>
    BY <1>1 DEF Preview, Unverified, nodeVars, requestVars
  <2>2. Below'
    BY <2>1, <1>a, SmallerStaysBelow
  <2>3. QED
    BY <2>1, <2>2 DEF LimitInv
<1>2. ASSUME NEW r \in Requests, Send(r) PROVE LimitInv'
  <2>1. UNCHANGED <<code, counted, calls, paid>> /\ r \notin calls \cup paid
    BY <1>2 DEF Send, nodeVars, PlaceInv, Left
  <2>2. \A s \in Requests \ {r} : asked'[s] = asked[s]
    BY <1>2 DEF Send, TypeOK
  <2>3. QED
    BY <2>1, <2>2 DEF LimitInv, Unverified, TypeOK
<1>3. ASSUME NEW r \in Requests, Call(r) PROVE LimitInv'
  <2>1. UNCHANGED <<code, counted, paid, asked>> /\ calls' = calls \cup {r} /\ asked[r] \in Payments
    BY <1>3 DEF Call, requestVars, PlaceInv, Paying
  <2>2. QED
    BY <2>1 DEF LimitInv, Unverified
<1>4. ASSUME NEW r \in Requests, NodeTakes(r) PROVE LimitInv'
  <2>1. UNCHANGED <<code, counted, asked>> /\ calls' \cup paid' \subseteq calls \cup paid
    BY <1>4 DEF NodeTakes, requestVars
  <2>2. QED
    BY <2>1 DEF LimitInv, Unverified
<1>5. ASSUME NEW r \in Requests, Reserve(r) PROVE LimitInv'
  <2>1. UNCHANGED <<calls, paid, asked>>
    BY <1>5 DEF Reserve, nodeVars, requestVars
  <2>2. QED
    BY <2>1, <1>5, ReserveStaysBelow DEF LimitInv
<1>6. ASSUME NEW r \in Requests, Undo(r) \/ Count(r) PROVE LimitInv'
  <2>1. UNCHANGED <<calls, paid, asked, code>>
    BY <1>6 DEF Undo, Count, nodeVars, requestVars
  <2>2. CASE Undo(r)
    <3>1. Unverified' \subseteq Unverified
      BY <2>1, <2>2 DEF Undo, Unverified
    <3>2. QED
      BY <2>1, <3>1, <1>a, SmallerStaysBelow DEF LimitInv
  <2>3. CASE Count(r)
    <3>1. asked[r] \in Transfers
      BY <2>3 DEF Count, PlaceInv
    <3>2. Unverified' = Unverified
      BY <2>1, <2>3, <3>1, PaymentsAssumption DEF Count, Unverified
    <3>3. QED
      BY <2>1, <3>2 DEF LimitInv
  <2>4. QED
    BY <1>6, <2>2, <2>3
<1>7. ASSUME UNCHANGED <<code, counted, calls, paid, asked>> PROVE LimitInv'
  BY <1>7 DEF LimitInv, Unverified
<1>8. ASSUME NEW a \in Approvals, Expire(a) PROVE LimitInv'
  BY <1>7, <1>8 DEF Expire, nodeVars, requestVars
<1>9. ASSUME NEW r \in Requests, HandlerStep(r) PROVE LimitInv'
  <2>1. \/ Reserve(r) \/ Call(r) \/ Undo(r) \/ Count(r)
        \/ UNCHANGED <<code, counted, calls, paid, asked>>
    BY <1>9 DEF HandlerStep, Claim, Repeat, Load, Check, Verify, Consume, RecordHandle, CallReturns, Lookup,
       Sign, SignCoded, Fail, Store, Reconcile, Reconciled, nodeVars, requestVars
  <2>2. QED
    BY <2>1, <1>3, <1>5, <1>6, <1>7
<1>10. ASSUME NEW k \in Keys, Stale(k) PROVE LimitInv'
  BY <1>7, <1>10 DEF Stale, nodeVars, requestVars
<1>11. CASE Crash
  BY <1>7, <1>11 DEF Crash, nodeVars, requestVars
<1>12. CASE UNCHANGED vars
  BY <1>7, <1>12 DEF vars, nodeVars, requestVars
<1>99. QED
  BY <1>1, <1>2, <1>4, <1>8, <1>9, <1>10, <1>11, <1>12 DEF Next

(* IInv holds in every state. *)
LEMMA PaymentsInvariant == Spec => []IInv
<1>1. IInv /\ [Next]_vars => IInv'
  BY StepTypeOK, StepPlaceInv, StepOwnerInv, StepUserInv, StepFailInv, StepCountInv, StepLimitInv DEF IInv
<1>2. QED
  BY InitIInv, <1>1, PTL DEF Spec

-----------------------------------------------------------------------------
(* What the invariant says *)

(* Every variable keeps its type, whatever requests, retries and crashes do. *)
THEOREM PaymentTypes == Spec => []TypeOK
BY PaymentsInvariant, PTL DEF IInv

(* Repeating a send never pays twice (fiber-payments.ts:27), nor do two sends of one approval:
   the record of the key and the row of the approval each let one request through. *)
THEOREM NothingPaidTwice == Spec => []PaidOnce
<1>1. IInv => PaidOnce
  BY DEF IInv, OwnerInv, UserInv, PaidOnce, TypeOK, Owns, Uses, Left, SameKey
<1>2. QED
  BY PaymentsInvariant, <1>1, PTL

(* A keyed send the client was told has failed never pays later (idempotency.ts:125):
   only the node's own refusal, or an error before the call, is recorded as a failure. *)
THEOREM FailuresAreFinal == Spec => []FailedIsFinal
<1>1. IInv => FailedIsFinal
  BY DEF IInv, FailInv, FailedIsFinal
<1>2. QED
  BY PaymentsInvariant, <1>1, PTL

(* What leaves is in the 24-hour total: a keyed send's amount is taken back only
   when the node refused it (fiber-payments.ts:23), and a signature goes out only
   with its amount counted (general-signing.ts:110). *)
THEOREM SpentStaysCounted == Spec => []SpentIsCounted
<1>1. IInv => SpentIsCounted
  BY DEF IInv, CountInv, SpentIsCounted
<1>2. QED
  BY PaymentsInvariant, <1>1, PTL
(* Overlapping payments never slip under the daily amount (reserveOutflow, fiber-payments.ts:139): what keyed sends
   paid without the emailed code stays below it, because each reservation sees every earlier one. *)
THEOREM PaidStaysUnderLimit == Spec => []PaidUnderLimit
<1>1. IInv => PaidUnderLimit
  <2> SUFFICES ASSUME IInv PROVE PaidUnderLimit
    OBVIOUS
  <2>1. KeyedPaid \ code \subseteq Unverified
    BY DEF IInv, CountInv, LimitInv, KeyedPaid, Unverified
  <2>2. Unverified \subseteq Approvals /\ (Unverified # {} => Cardinality(Unverified) < Limit)
    BY DEF IInv, LimitInv, Unverified, Approvals
  <2>3. QED
    BY <2>1, <2>2, SmallerStaysBelow DEF PaidUnderLimit
<1>2. QED
  BY PaymentsInvariant, <1>1, PTL

-----------------------------------------------------------------------------
(***************************************************************************)
(* Settlement, for any number of channels and any commitments.  A cell     *)
(* that can pay for a claim is there, or comes with a transaction that the *)
(* peer cannot make void, from the open that found or sent it for as long  *)
(* as the node's list has a channel that needs it: a claim gives back a    *)
(* cell no smaller than the one it took, a sweep that keeps the reserve    *)
(* leaves one, and a sweep that gives it back listed the channels while    *)
(* none needed it and none was being opened.                               *)
(***************************************************************************)

(* The channels, the list, the open and the sweeps. *)
ChannelStates == [stage : {"none", "over", "funding", "open", "commit"}, slots : SUBSET {"mine", "peer"},
                  ripe : BOOLEAN, data : Commitment]
OpenTypes ==
  \/ open = NoOpen
  \/ /\ open = [pc |-> open.pc, ch |-> open.ch, reserve |-> open.reserve]
     /\ open.pc \in {"checked", "funding", "reserve"} /\ open.ch \in Channels /\ open.reserve \in BOOLEAN
SweepTypes ==
  /\ DOMAIN sweeps = Sweeps
  /\ \A s \in Sweeps : sweeps[s].pc \in {"idle", "listed"} /\ (sweeps[s].pc = "listed" => sweeps[s].keep \in {0, FEE_RESERVE})
SettlementTypes ==
  /\ minimum \in Minimums /\ unsent \in BOOLEAN
  /\ chan \in [Channels -> ChannelStates] /\ listed \in [Channels -> {"no", "needs", "over"}]
  /\ OpenTypes /\ SweepTypes

(* Cells are finitely many and of whole CKB, on the chain and on the way. *)
Cells(set) == IsFiniteSet(set) /\ \A x \in set : x.cap \in Nat
CanPay(set) == \E x \in set : x.cap >= MIN_PLAIN_CELL
CellsInv ==
  /\ Cells(cells)
  /\ \A t \in pool :
       /\ Cells(t.outs) /\ t.kind \in {"reserve", "claim", "sweep"} /\ (t.kind = "reserve" => t.ins = {})
       /\ t.kind = "claim" => t.ch \in Channels /\ (CanPay(t.ins) => CanPay(t.outs))
       /\ t.kind = "sweep" => t.keep \in {0, FEE_RESERVE} /\ (t.keep # 0 => CanPay(t.outs))

(* A channel that the chain may have to settle needs the reserve, by the node's list. *)
ListInv ==
  /\ \A c \in Channels :
       chan[c].stage \in {"funding", "open"} \/ (chan[c].stage = "commit" /\ chan[c].slots # {}) => listed[c] = "needs"
  /\ open.pc \in {"checked", "funding"} => chan[open.ch].stage = "none"
  /\ open.pc = "funding" => listed[open.ch] = "needs"

(* No channel needs the reserve, and none is being opened, while a sweep gives it back. *)
ReturnInv ==
  ReturnsReserve => open.pc \notin {"checked", "funding"} /\ \A c \in Channels : listed[c] # "needs"

(* A cell that can pay for a claim, here or coming in a transaction the peer cannot make void. *)
ReserveThere == CanPay(cells) \/ \E t \in pool : t.kind # "claim" /\ CanPay(t.outs)
ReserveInv ==
  /\ \A c \in Channels : listed[c] = "needs" /\ ~(open.pc = "funding" /\ open.ch = c) =>
       unsent \/ ReserveThere \/ open.pc = "reserve"
  /\ open.pc \in {"checked", "funding"} /\ ~open.reserve => unsent \/ ReserveThere

SettlementInv == SettlementTypes /\ CellsInv /\ ListInv /\ ReturnInv /\ ReserveInv

(* A set of numbers has a least one. *)
LEMMA LeastOf ==
    ASSUME NEW S \in SUBSET Nat, S # {}
    PROVE  \E n \in S : \A m \in S : n <= m
<1> DEFINE R == {p \in Nat \X Nat : p[1] < p[2]}
<1>1. IsWellFoundedOn(R, Nat)
  BY NatLessThanWellFounded DEF OpToRel
<1>2. PICK n \in S : \A m \in S : <<m, n>> \notin R
  <2> HIDE DEF R
  <2>1. QED
    BY <1>1, WFMin
<1>3. ASSUME NEW m \in S PROVE n <= m
  <2>1. m \in Nat /\ n \in Nat /\ <<m, n>> \notin R
    BY <1>2
  <2>2. QED
    BY <2>1
<1>4. QED
  BY <1>3

(* The sets of at most n cells, and a function that adds their capacities up. *)
Small(S, n) == {s \in SUBSET S : Cardinality(s) <= n}
Sums(f, D) == [s \in D |-> IF s = {} THEN 0 ELSE LET x == CHOOSE y \in s : TRUE IN x.cap + f[s \ {x}]]

(* Capacities can be added up, one cell at a time. *)
LEMMA SumsExist ==
    ASSUME NEW S, Cells(S), NEW n \in Nat
    PROVE  \E f \in [Small(S, n) -> Nat] : f = Sums(f, Small(S, n))
<1> DEFINE Good(k) == \E f \in [Small(S, k) -> Nat] : f = Sums(f, Small(S, k))
           Bad == {k \in Nat : ~Good(k)}
<1>1. \A s \in SUBSET S : IsFiniteSet(s) /\ Cardinality(s) \in Nat
  BY FS_Subset, FS_CardinalityType DEF Cells
<1>2. Good(0)
  <2> DEFINE f == [s \in Small(S, 0) |-> 0]
  <2>1. \A s \in Small(S, 0) : s = {}
    BY <1>1, FS_EmptySet DEF Small
  <2>2. f \in [Small(S, 0) -> Nat] /\ f = Sums(f, Small(S, 0))
    BY <2>1 DEF Sums
  <2> HIDE DEF f
  <2>3. QED
    BY <2>2
<1>3. ASSUME NEW k \in Nat, Good(k) PROVE Good(k + 1)
  <2>1. PICK f \in [Small(S, k) -> Nat] : f = Sums(f, Small(S, k))
    BY <1>3
  <2> DEFINE g == Sums(f, Small(S, k + 1))
  <2>2. ASSUME NEW s \in Small(S, k + 1), NEW x \in s PROVE s \ {x} \in Small(S, k) /\ x.cap \in Nat
    <3>1. IsFiniteSet(s) /\ Cardinality(s) \in Nat /\ Cardinality(s) <= k + 1 /\ s \in SUBSET S
      BY <1>1 DEF Small
    <3>2. Cardinality(s \ {x}) = Cardinality(s) - 1
      BY <2>2, <3>1, FS_RemoveElement
    <3>3. QED
      BY <2>2, <3>1, <3>2 DEF Small, Cells
  <2>3. \A s \in Small(S, k) : s \in Small(S, k + 1)
    BY <1>1 DEF Small
  <2>4. ASSUME NEW s \in Small(S, k) PROVE g[s] = f[s]
    BY <2>1, <2>3 DEF Sums
  <2>5. ASSUME NEW s \in Small(S, k + 1), s # {}, NEW x, x = CHOOSE y \in s : TRUE
        PROVE  s \ {x} \in Small(S, k) /\ x.cap \in Nat /\ g[s] = x.cap + f[s \ {x}]
    <3>1. x \in s
      BY <2>5
    <3>2. g[s] = x.cap + f[s \ {x}]
      BY <2>5 DEF Sums
    <3>3. QED
      BY <2>2, <3>1, <3>2
  <2>6. \A s \in Small(S, k + 1) : s = {} => g[s] = 0
    BY DEF Sums
  <2>7. g = [s \in Small(S, k + 1) |-> g[s]]
    BY DEF Sums
  <2> HIDE DEF g
  <2>8. \A s \in Small(S, k + 1) : g[s] \in Nat
    <3> TAKE s \in Small(S, k + 1)
    <3> DEFINE x == CHOOSE y \in s : TRUE
    <3>1. CASE s # {}
      <4>1. s \ {x} \in Small(S, k) /\ x.cap \in Nat /\ g[s] = x.cap + f[s \ {x}]
        BY <2>5, <3>1
      <4> HIDE DEF x
      <4>2. QED
        BY <2>1, <4>1
    <3>2. QED
      BY <2>6, <3>1
  <2>9. \A s \in Small(S, k + 1) : g[s] = Sums(g, Small(S, k + 1))[s]
    <3> TAKE s \in Small(S, k + 1)
    <3>1. CASE s = {}
      BY <2>6, <3>1 DEF Sums
    <3>2. CASE s # {}
      <4> DEFINE x == CHOOSE y \in s : TRUE
      <4>1. s \ {x} \in Small(S, k) /\ g[s] = x.cap + f[s \ {x}]
        BY <2>5, <3>2
      <4>2. g[s \ {x}] = f[s \ {x}]
        BY <2>4, <4>1
      <4>3. Sums(g, Small(S, k + 1))[s] = x.cap + g[s \ {x}]
        BY <3>2 DEF Sums
      <4>4. QED
        BY <4>1, <4>2, <4>3
    <3>3. QED
      BY <3>1, <3>2
  <2>10. g \in [Small(S, k + 1) -> Nat] /\ g = Sums(g, Small(S, k + 1))
    BY <2>7, <2>8, <2>9 DEF Sums
  <2>11. QED
    BY <2>10
<1>4. Bad = {}
  <2> SUFFICES ASSUME Bad # {} PROVE FALSE
    OBVIOUS
  <2>1. PICK k \in Bad : \A m \in Bad : k <= m
    <3>1. Bad \in SUBSET Nat
      OBVIOUS
    <3> HIDE DEF Bad
    <3>2. QED
      BY <3>1, LeastOf
  <2>2. k \in Nat /\ ~Good(k) /\ k # 0
    BY <1>2
  <2> HIDE DEF Good
  <2>3. k - 1 \in Nat /\ k - 1 \notin Bad
    <3>1. k - 1 \in Nat /\ ~(k <= k - 1)
      BY <2>2
    <3> HIDE DEF Bad
    <3>2. QED
      BY <2>1, <3>1
  <2>4. Good(k - 1)
    BY <2>3
  <2>5. Good((k - 1) + 1) /\ (k - 1) + 1 = k
    BY <1>3, <2>3, <2>4
  <2>6. QED
    BY <2>2, <2>5
<1>5. Good(n)
  <2> HIDE DEF Good
  <2>1. QED
    BY <1>4
<1>6. QED
  BY <1>5

(* The total of cells of whole CKB is one. *)
LEMMA TotalIsNat == ASSUME NEW S, Cells(S) PROVE Total(S) \in Nat
<1> DEFINE total == CHOOSE f : f = Sums(f, SUBSET S)
<1>1. \A s \in SUBSET S : IsFiniteSet(s) /\ Cardinality(s) \in Nat /\ Cardinality(s) <= Cardinality(S)
  BY FS_Subset, FS_CardinalityType DEF Cells
<1>2. Cardinality(S) \in Nat /\ Small(S, Cardinality(S)) = SUBSET S
  BY <1>1 DEF Small
<1>3. PICK f \in [SUBSET S -> Nat] : f = Sums(f, SUBSET S)
  BY <1>2, SumsExist
<1>4. total = Sums(total, SUBSET S)
  BY <1>3
<1>5. Total(S) = total[S]
  BY DEF Total, MapThenSumSet, MapThenFoldSet, Sums
<1> HIDE DEF total
<1>6. ASSUME NEW s \in SUBSET S
      PROVE  /\ s = {} => total[s] = 0
             /\ s # {} => \E x \in s : total[s] = x.cap + total[s \ {x}]
  <2>1. total[s] = Sums(total, SUBSET S)[s]
    BY <1>4
  <2>2. Sums(total, SUBSET S)[s] = IF s = {} THEN 0 ELSE LET x == CHOOSE y \in s : TRUE IN x.cap + total[s \ {x}]
    BY DEF Sums
  <2>3. QED
    BY <2>1, <2>2
<1> DEFINE Bad == {s \in SUBSET S : total[s] \notin Nat}
           Sizes == {Cardinality(s) : s \in Bad}
<1>7. Bad = {}
  <2> SUFFICES ASSUME Bad # {} PROVE FALSE
    OBVIOUS
  <2>1. Sizes \in SUBSET Nat /\ Sizes # {}
    BY <1>1
  <2>2. PICK k \in Sizes : \A m \in Sizes : k <= m
    <3> HIDE DEF Sizes
    <3>1. QED
      BY <2>1, LeastOf
  <2>3. PICK s \in Bad : \A t \in Bad : Cardinality(s) <= Cardinality(t)
    BY <2>2
  <2>4. s \in SUBSET S /\ total[s] \notin Nat /\ s # {}
    BY <1>6
  <2>5. PICK x \in s : total[s] = x.cap + total[s \ {x}]
    BY <1>6, <2>4
  <2>6. Cardinality(s \ {x}) = Cardinality(s) - 1 /\ Cardinality(s) \in Nat /\ s \ {x} \in SUBSET S
    BY <1>1, <2>4, FS_RemoveElement
  <2>7. s \ {x} \notin Bad
    <3> HIDE DEF Bad
    <3>1. QED
      BY <2>3, <2>6
  <2>8. total[s \ {x}] \in Nat
    BY <2>6, <2>7
  <2>9. x.cap \in Nat
    BY <2>4 DEF Cells
  <2>10. QED
    BY <2>4, <2>5, <2>8, <2>9
<1>8. QED
  BY <1>5, <1>7

(* What the parts of the invariant have in common. *)
LEMMA SettlementFacts ==
    ASSUME SettlementTypes
    PROVE  /\ minimum \in {61, 95} /\ FEE_RESERVE = 62 /\ MIN_PLAIN_CELL = 61
           /\ chan \in [Channels -> ChannelStates] /\ listed \in [Channels -> {"no", "needs", "over"}]
  BY Capacities DEF SettlementTypes, FEE_RESERVE, MIN_PLAIN_CELL

(* No channel, no cell and nothing on the way: nothing needs the reserve. *)
LEMMA SettlementStarts == SettlementInit => SettlementInv
<1> SUFFICES ASSUME SettlementInit PROVE SettlementInv
  OBVIOUS
<1>1. At("none") \in ChannelStates /\ At("none").stage = "none"
  BY DEF At, ChannelStates, Commitment
<1>2. /\ chan = [c \in Channels |-> At("none")] /\ listed = [c \in Channels |-> "no"]
      /\ open.pc = "none" /\ open = NoOpen /\ sweeps = [s \in Sweeps |-> IdleSweep] /\ IdleSweep.pc = "idle"
      /\ cells = {} /\ pool = {} /\ minimum \in Minimums /\ unsent = FALSE
  BY DEF SettlementInit, NoOpen, IdleSweep
<1>3. SettlementTypes
  BY <1>1, <1>2 DEF SettlementTypes, OpenTypes, SweepTypes
<1>4. CellsInv
  BY <1>2, FS_EmptySet DEF CellsInv, Cells
<1>5. ListInv /\ ReserveInv
  BY <1>1, <1>2 DEF ListInv, ReserveInv
<1>6. ReturnInv
  BY <1>2 DEF ReturnInv, ReturnsReserve
<1>7. QED
  BY <1>3, <1>4, <1>5, <1>6 DEF SettlementInv

(* A step that leaves the cells and the pool alone. *)
LEMMA SameCells ==
    ASSUME CellsInv, UNCHANGED <<cells, pool>>
    PROVE  CellsInv' /\ ReserveThere' = ReserveThere
<1>1. CellsInv'
  BY DEF CellsInv
<1>2. QED
  BY <1>1 DEF ReserveThere


(* A channel that the chain may have to settle. *)
AtStake(ch) == ch.stage \in {"funding", "open"} \/ (ch.stage = "commit" /\ ch.slots # {})

(* A channel that is not about to be opened moves on the chain, and void transactions leave the pool. *)
LEMMA ChannelMoves ==
    ASSUME SettlementInv, NEW c \in Channels, NEW v \in ChannelStates, chan' = [chan EXCEPT ![c] = v],
           chan[c].stage # "none", AtStake(v) => listed[c] = "needs",
           pool' \subseteq pool, \A t \in pool : t.kind # "claim" => t \in pool',
           UNCHANGED <<minimum, cells, listed, open, sweeps, unsent>>
    PROVE  SettlementInv'
<1>1. /\ chan' \in [Channels -> ChannelStates] /\ chan'[c] = v
      /\ \A d \in Channels : d # c => chan'[d] = chan[d]
  BY SettlementFacts DEF SettlementInv
<1>2. SettlementTypes'
  BY <1>1 DEF SettlementInv, SettlementTypes, OpenTypes, SweepTypes
<1>3. CellsInv'
  BY DEF SettlementInv, CellsInv
<1>4. open.pc \in {"checked", "funding"} => open.ch \in Channels
  BY DEF SettlementInv, SettlementTypes, OpenTypes, NoOpen
<1>5. ListInv'
  BY <1>1, <1>4 DEF SettlementInv, ListInv, AtStake
<1>6. ReturnsReserve' => ReturnsReserve
  BY DEF ReturnsReserve
<1>7. ReturnInv'
  BY <1>6 DEF SettlementInv, ReturnInv
<1>8. ReserveThere => ReserveThere'
  BY DEF ReserveThere
<1>9. ReserveInv'
  BY <1>8 DEF SettlementInv, ReserveInv
<1>10. QED
  BY <1>2, <1>3, <1>5, <1>7, <1>9 DEF SettlementInv

(* The peer, the node and the chain. *)
LEMMA ChainSteps ==
    ASSUME SettlementInv, NEW c \in Channels, FundingCommits(c) \/ ChainStep(c)
    PROVE  SettlementInv'
<1>1. chan[c] \in ChannelStates /\ Commitments \subseteq Commitment
  BY SettlementFacts, Capacities DEF SettlementInv
<1>2. At("open") \in ChannelStates /\ At("open").stage = "open" /\ At("over") \in ChannelStates /\ At("over").stage = "over"
  BY DEF At, ChannelStates, Commitment
<1>3. chan[c].stage = "commit" \/ chan[c].stage \in {"funding", "open"} => chan[c].stage # "none"
  OBVIOUS
<1>4. AtStake(chan[c]) => listed[c] = "needs"
  BY DEF SettlementInv, ListInv, AtStake
<1>5. UNCHANGED pageVars => UNCHANGED <<open, sweeps>>
  BY DEF pageVars
<1>6. CASE FundingCommits(c)
  <2>1. /\ chan[c].stage = "funding" /\ chan' = [chan EXCEPT ![c] = At("open")]
        /\ UNCHANGED <<minimum, cells, pool, listed, open, sweeps, unsent>>
    BY <1>6, <1>5 DEF FundingCommits, history
  <2>2. QED
    BY <1>2, <1>4, <2>1, ChannelMoves DEF AtStake
<1>7. CASE CooperativeClose(c)
  <2>1. /\ chan[c].stage = "open" /\ chan' = [chan EXCEPT ![c] = At("over")]
        /\ UNCHANGED <<minimum, cells, pool, listed, open, sweeps, unsent>>
    BY <1>7, <1>5 DEF CooperativeClose, history
  <2>2. QED
    BY <1>2, <2>1, ChannelMoves DEF AtStake
<1>8. ASSUME NEW data \in Commitments, ForceClose(c, data) PROVE SettlementInv'
  <2> DEFINE v == [stage |-> "commit", slots |-> {"mine", "peer"}, ripe |-> FALSE, data |-> data]
  <2>1. v \in ChannelStates
    BY <1>1 DEF ChannelStates
  <2>2. /\ chan[c].stage = "open" /\ chan' = [chan EXCEPT ![c] = v]
        /\ UNCHANGED <<minimum, cells, pool, listed, open, sweeps, unsent>>
    BY <1>8, <1>5 DEF ForceClose, listVars, history
  <2> HIDE DEF v
  <2>3. QED
    BY <1>4, <2>1, <2>2, ChannelMoves DEF AtStake
<1>9. CASE DelayPasses(c)
  <2> DEFINE v == [chan[c] EXCEPT !.ripe = TRUE]
  <2>1. v \in ChannelStates /\ v.stage = chan[c].stage /\ v.slots = chan[c].slots
    BY <1>1 DEF ChannelStates
  <2>2. /\ chan[c].stage = "commit" /\ chan' = [chan EXCEPT ![c] = v]
        /\ UNCHANGED <<minimum, cells, pool, listed, open, sweeps, unsent>>
    BY <1>9, <1>5 DEF DelayPasses, listVars, history
  <2> HIDE DEF v
  <2>3. QED
    BY <1>4, <2>1, <2>2, ChannelMoves DEF AtStake
<1>10. CASE TlcsSettle(c)
  <2> DEFINE d == [chan[c].data EXCEPT !.tlcs = FALSE]
             v == [chan[c] EXCEPT !.data = d]
  <2>1. chan[c].data \in Commitment
    BY <1>1 DEF ChannelStates
  <2>2. d \in Commitment
    BY <2>1 DEF Commitment
  <2>3. /\ chan[c].stage = "commit" /\ chan' = [chan EXCEPT ![c] = v]
        /\ UNCHANGED <<minimum, cells, pool, listed, open, sweeps, unsent>>
    BY <1>10, <1>5 DEF TlcsSettle, listVars, history
  <2> HIDE DEF d
  <2>4. v \in ChannelStates /\ v.stage = chan[c].stage /\ v.slots = chan[c].slots
    BY <1>1, <2>2 DEF ChannelStates
  <2> HIDE DEF v
  <2>5. QED
    BY <1>4, <2>3, <2>4, ChannelMoves DEF AtStake
<1>11. CASE PeerSettles(c)
  <2>1. PICK left \in {{}, chan[c].slots \ {"peer"}} : chan' = [chan EXCEPT ![c] = [chan[c] EXCEPT !.slots = left]]
    <3>1. chan' = [chan EXCEPT ![c].slots = IF chan[c].data.mine = 0 THEN {} ELSE @ \ {"peer"}]
      BY <1>11 DEF PeerSettles, history
    <3>2. QED
      BY <3>1
  <2> DEFINE v == [chan[c] EXCEPT !.slots = left]
  <2>2. v \in ChannelStates /\ v.stage = chan[c].stage
    BY <1>1 DEF ChannelStates
  <2>3. /\ chan[c].stage = "commit" /\ chan[c].slots # {} /\ pool' = WithoutClaims(c)
        /\ UNCHANGED <<minimum, cells, listed, open, sweeps, unsent>>
    BY <1>11, <1>5 DEF PeerSettles, listVars, history
  <2>4. pool' \subseteq pool /\ \A t \in pool : t.kind # "claim" => t \in pool'
    BY <2>3 DEF WithoutClaims
  <2>5. chan' = [chan EXCEPT ![c] = v]
    BY <2>1
  <2> HIDE DEF v
  <2>6. QED
    BY <1>4, <2>2, <2>3, <2>4, <2>5, ChannelMoves DEF AtStake
<1>12. QED
  BY <1>6, <1>7, <1>8, <1>9, <1>10, <1>11 DEF ChainStep

(* An open is what its place says. *)
LEMMA OpenIs ==
    ASSUME SettlementInv, open.pc # "none"
    PROVE  /\ open = [pc |-> open.pc, ch |-> open.ch, reserve |-> open.reserve]
           /\ open.pc \in {"checked", "funding", "reserve"} /\ open.ch \in Channels /\ open.reserve \in BOOLEAN
  BY DEF SettlementInv, SettlementTypes, OpenTypes, NoOpen

(* An open begins: a cell that can pay is there, or its own reserve is to come. *)
LEMMA OpenBegins ==
    ASSUME SettlementInv, ~overlapped', NEW c \in Channels, OpenFundedChannel(c)
    PROVE  SettlementInv'
<1>1. /\ open.pc = "none" /\ chan[c].stage = "none" /\ ~ReturnsReserve
      /\ open' = [pc |-> "checked", ch |-> c, reserve |-> ~HasFeeReserve]
      /\ UNCHANGED <<minimum, chan, cells, pool, listed, sweeps, unsent>>
  BY DEF OpenFundedChannel, chainVars, listVars
<1>2. SettlementTypes'
  BY <1>1 DEF SettlementInv, SettlementTypes, OpenTypes, SweepTypes, HasFeeReserve
<1>3. CellsInv' /\ ReserveThere' = ReserveThere
  BY <1>1, SameCells DEF SettlementInv
<1>4. ListInv'
  BY <1>1 DEF SettlementInv, ListInv
<1>5. ReturnsReserve' = ReturnsReserve
  BY <1>1 DEF ReturnsReserve
<1>6. ReturnInv'
  BY <1>1, <1>5 DEF ReturnInv
<1>7. HasFeeReserve => ReserveThere
  BY DEF HasFeeReserve, ReserveThere, CanPay
<1>8. ReserveInv'
  BY <1>1, <1>3, <1>7 DEF SettlementInv, ReserveInv
<1>9. QED
  BY <1>2, <1>3, <1>4, <1>6, <1>8 DEF SettlementInv

(* The channel is in the node's list from here on, and no sweep that gives the reserve back is under way. *)
LEMMA NegotiateStep == ASSUME SettlementInv, Negotiate PROVE SettlementInv'
<1> DEFINE c == open.ch
<1>1. /\ open.pc = "checked" /\ open' = [open EXCEPT !.pc = "funding"] /\ listed' = [listed EXCEPT ![c] = "needs"]
      /\ UNCHANGED <<minimum, chan, cells, pool, sweeps, unsent>>
  BY DEF Negotiate, chainVars, history
<1>2. /\ c \in Channels /\ open.reserve \in BOOLEAN
      /\ open' = [pc |-> "funding", ch |-> c, reserve |-> open.reserve]
  BY <1>1, OpenIs
<1>3. /\ listed' \in [Channels -> {"no", "needs", "over"}] /\ listed'[c] = "needs"
      /\ \A d \in Channels : d # c => listed'[d] = listed[d]
  BY <1>1, <1>2, SettlementFacts DEF SettlementInv
<1> HIDE DEF c
<1>4. SettlementTypes'
  <2>1. OpenTypes'
    BY <1>2 DEF OpenTypes
  <2>2. QED
    BY <1>1, <1>3, <2>1 DEF SettlementInv, SettlementTypes, SweepTypes
<1>5. CellsInv' /\ ReserveThere' = ReserveThere
  BY <1>1, SameCells DEF SettlementInv
<1>6. ListInv'
  BY <1>1, <1>2, <1>3 DEF SettlementInv, ListInv, c
<1>7. ~ReturnsReserve'
  BY <1>1 DEF SettlementInv, ReturnInv, ReturnsReserve
<1>8. ReserveInv'
  BY <1>1, <1>2, <1>3, <1>5 DEF SettlementInv, ReserveInv
<1>9. QED
  BY <1>4, <1>5, <1>6, <1>7, <1>8 DEF SettlementInv, ReturnInv

(* An open fails: its channel needs no reserve any more, and the others have theirs. *)
LEMMA OpenFailsStep == ASSUME SettlementInv, OpenFails PROVE SettlementInv'
<1> DEFINE c == open.ch
<1>1. /\ open.pc = "funding" /\ open' = NoOpen /\ chan' = [chan EXCEPT ![c] = At("over")]
      /\ listed' = [listed EXCEPT ![c] = "over"] /\ UNCHANGED <<minimum, cells, pool, sweeps, unsent>>
  BY DEF OpenFails, history
<1>2. c \in Channels /\ At("over") \in ChannelStates /\ At("over").stage = "over" /\ NoOpen.pc = "none"
  BY <1>1, OpenIs DEF At, ChannelStates, Commitment, NoOpen
<1>3. /\ listed' \in [Channels -> {"no", "needs", "over"}] /\ listed'[c] = "over"
      /\ \A d \in Channels : d # c => listed'[d] = listed[d]
  BY <1>1, <1>2, SettlementFacts DEF SettlementInv
<1>4. /\ chan' \in [Channels -> ChannelStates] /\ chan'[c].stage = "over"
      /\ \A d \in Channels : d # c => chan'[d] = chan[d]
  BY <1>1, <1>2, SettlementFacts DEF SettlementInv
<1> HIDE DEF c
<1>5. SettlementTypes'
  BY <1>1, <1>3, <1>4 DEF SettlementInv, SettlementTypes, OpenTypes, SweepTypes
<1>6. CellsInv' /\ ReserveThere' = ReserveThere
  BY <1>1, SameCells DEF SettlementInv
<1>7. ListInv'
  BY <1>1, <1>2, <1>3, <1>4 DEF SettlementInv, ListInv
<1>8. ReturnsReserve' => ReturnsReserve
  BY <1>1 DEF ReturnsReserve
<1>9. ReturnInv'
  BY <1>1, <1>2, <1>3, <1>8 DEF SettlementInv, ReturnInv
<1>10. ReserveInv'
  BY <1>1, <1>2, <1>3, <1>6 DEF SettlementInv, ReserveInv, c
<1>11. QED
  BY <1>5, <1>6, <1>7, <1>9, <1>10 DEF SettlementInv

(* The funding is sent: the channel needs the reserve, which is there, or the open waits to send it. *)
LEMMA FundingSubmittedStep == ASSUME SettlementInv, FundingSubmitted PROVE SettlementInv'
<1> DEFINE c == open.ch
           v == [chan[c] EXCEPT !.stage = "funding"]
<1>1. /\ open.pc = "funding" /\ chan' = [chan EXCEPT ![c] = v]
      /\ open' = IF open.reserve THEN [open EXCEPT !.pc = "reserve"] ELSE NoOpen
      /\ UNCHANGED <<minimum, cells, pool, listed, sweeps, unsent>>
  BY DEF FundingSubmitted, listVars, history
<1>2. /\ c \in Channels /\ open.reserve \in BOOLEAN /\ NoOpen.pc = "none"
      /\ open' = IF open.reserve THEN [pc |-> "reserve", ch |-> c, reserve |-> open.reserve] ELSE NoOpen
  BY <1>1, OpenIs DEF NoOpen
<1>3. chan[c] \in ChannelStates
  BY <1>2, SettlementFacts DEF SettlementInv
<1>4. v \in ChannelStates
  BY <1>3 DEF ChannelStates
<1> HIDE DEF v
<1>5. /\ chan' \in [Channels -> ChannelStates] /\ \A d \in Channels : d # c => chan'[d] = chan[d]
  BY <1>1, <1>2, <1>4, SettlementFacts DEF SettlementInv
<1>6. listed[c] = "needs"
  BY <1>1 DEF SettlementInv, ListInv, c
<1> HIDE DEF c
<1>7. SettlementTypes'
  BY <1>1, <1>2, <1>5 DEF SettlementInv, SettlementTypes, OpenTypes, SweepTypes
<1>8. CellsInv' /\ ReserveThere' = ReserveThere
  BY <1>1, SameCells DEF SettlementInv
<1>9. ListInv'
  BY <1>1, <1>2, <1>5, <1>6 DEF SettlementInv, ListInv
<1>10. ReturnsReserve' => ReturnsReserve
  BY <1>1 DEF ReturnsReserve
<1>11. ReturnInv'
  BY <1>1, <1>2, <1>10 DEF SettlementInv, ReturnInv
<1>12. ReserveInv'
  <2>1. CASE open.reserve
    BY <1>1, <1>2, <2>1 DEF ReserveInv
  <2>2. CASE ~open.reserve
    BY <1>1, <1>2, <1>8, <2>2 DEF SettlementInv, ReserveInv
  <2>3. QED
    BY <2>1, <2>2
<1>13. QED
  BY <1>7, <1>8, <1>9, <1>11, <1>12 DEF SettlementInv

(* The reserve is sent: nothing can make its transaction void. *)
LEMMA SendFeeReserveStep == ASSUME SettlementInv, SendFeeReserve PROVE SettlementInv'
<1> DEFINE x == Cell(<<"reserve", open.ch>>, FEE_RESERVE)
           t == [kind |-> "reserve", ins |-> {}, keep |-> 0, outs |-> {x}]
<1>1. /\ open.pc = "reserve" /\ open' = NoOpen /\ unsent' = FALSE /\ pool' = pool \cup {t}
      /\ UNCHANGED <<minimum, chan, cells, listed, sweeps>>
  BY DEF SendFeeReserve, listVars
<1>2. x.cap = 62 /\ NoOpen.pc = "none"
  BY DEF Cell, FEE_RESERVE, NoOpen
<1>3. t.kind = "reserve" /\ t.ins = {} /\ t.outs = {x} /\ Cells(t.outs) /\ CanPay(t.outs)
  <2>1. IsFiniteSet({x})
    BY FS_Singleton
  <2> HIDE DEF x
  <2>2. QED
    BY <1>2, <2>1 DEF Cells, CanPay, MIN_PLAIN_CELL
<1> HIDE DEF t, x
<1>4. SettlementTypes'
  BY <1>1 DEF SettlementInv, SettlementTypes, OpenTypes, SweepTypes
<1>5. CellsInv' /\ ReserveThere'
  BY <1>1, <1>3 DEF SettlementInv, CellsInv, ReserveThere
<1>6. ListInv'
  BY <1>1, <1>2 DEF SettlementInv, ListInv
<1>7. ReturnsReserve' => ReturnsReserve
  BY <1>1, <1>3 DEF ReturnsReserve
<1>8. ReturnInv'
  BY <1>1, <1>2, <1>7 DEF SettlementInv, ReturnInv
<1>9. ReserveInv'
  BY <1>5 DEF ReserveInv
<1>10. QED
  BY <1>4, <1>5, <1>6, <1>8, <1>9 DEF SettlementInv

(* The open is over without its reserve, or the page is reloaded: what was owed is not sent. *)
LEMMA OpenForgotten ==
    ASSUME SettlementInv, open.pc \in {"none", "reserve"}, open' = NoOpen, unsent' = (unsent \/ open.pc = "reserve"),
           sweeps' = sweeps \/ sweeps' = [s \in Sweeps |-> IdleSweep],
           UNCHANGED <<minimum, chan, cells, pool, listed>>
    PROVE  SettlementInv'
<1>1. NoOpen.pc = "none" /\ IdleSweep.pc = "idle" /\ unsent' \in BOOLEAN
  BY DEF NoOpen, IdleSweep, SettlementInv, SettlementTypes
<1>2. SweepTypes'
  BY <1>1 DEF SettlementInv, SettlementTypes, SweepTypes
<1>3. SettlementTypes'
  BY <1>1, <1>2 DEF SettlementInv, SettlementTypes, OpenTypes
<1>4. CellsInv' /\ ReserveThere' = ReserveThere
  BY SameCells DEF SettlementInv
<1>5. ListInv'
  BY <1>1 DEF SettlementInv, ListInv
<1>6. ReturnsReserve' => ReturnsReserve
  BY <1>1 DEF ReturnsReserve
<1>7. ReturnInv'
  BY <1>1, <1>6 DEF SettlementInv, ReturnInv
<1>8. ReserveInv'
  BY <1>1, <1>4 DEF SettlementInv, ReserveInv
<1>9. QED
  BY <1>3, <1>4, <1>5, <1>7, <1>8 DEF SettlementInv

(* Every step of an open, and a reload, keeps the invariant. *)
LEMMA OpenSteps == ASSUME SettlementInv, OpenStep \/ Reload PROVE SettlementInv'
<1>1. CASE FeeReserveNotSent
  <2>1. /\ open.pc = "reserve" /\ open' = NoOpen /\ unsent' = TRUE
        /\ UNCHANGED <<minimum, chan, cells, pool, listed, sweeps>>
    BY <1>1 DEF FeeReserveNotSent, chainVars, listVars
  <2>2. QED
    BY <2>1, OpenForgotten
<1>2. CASE Reload
  <2>1. /\ open.pc \in {"none", "reserve"} /\ open' = NoOpen /\ unsent' = (unsent \/ open.pc = "reserve")
        /\ sweeps' = [s \in Sweeps |-> IdleSweep] /\ UNCHANGED <<minimum, chan, cells, pool, listed>>
    BY <1>2 DEF Reload, chainVars, listVars
  <2>2. QED
    BY <2>1, OpenForgotten
<1>3. QED
  BY <1>1, <1>2, NegotiateStep, OpenFailsStep, FundingSubmittedStep, SendFeeReserveStep DEF OpenStep

(* The node's list follows the chain: nothing is left to settle. *)
LEMMA NodeConfirmsStep == ASSUME SettlementInv, NEW c \in Channels, NodeConfirms(c) PROVE SettlementInv'
<1>1. /\ chan[c].stage = "over" \/ (chan[c].stage = "commit" /\ chan[c].slots = {})
      /\ listed' = [listed EXCEPT ![c] = "over"]
      /\ UNCHANGED <<minimum, chan, cells, pool, open, sweeps, unsent>>
  BY DEF NodeConfirms, chainVars, pageVars, history
<1>2. /\ listed' \in [Channels -> {"no", "needs", "over"}] /\ listed'[c] = "over"
      /\ \A d \in Channels : d # c => listed'[d] = listed[d]
  BY <1>1, SettlementFacts DEF SettlementInv
<1>3. SettlementTypes'
  BY <1>1, <1>2 DEF SettlementInv, SettlementTypes, OpenTypes, SweepTypes
<1>4. CellsInv' /\ ReserveThere' = ReserveThere
  BY <1>1, SameCells DEF SettlementInv
<1>5. open.pc \in {"checked", "funding"} => open.ch \in Channels /\ open.ch # c
  BY <1>1, OpenIs DEF SettlementInv, ListInv
<1>6. ListInv'
  BY <1>1, <1>2, <1>5 DEF SettlementInv, ListInv
<1>7. ReturnsReserve' = ReturnsReserve
  BY <1>1 DEF ReturnsReserve
<1>8. ReturnInv'
  BY <1>1, <1>2, <1>7 DEF SettlementInv, ReturnInv
<1>9. ReserveInv'
  BY <1>1, <1>2, <1>4 DEF SettlementInv, ReserveInv
<1>10. QED
  BY <1>3, <1>4, <1>6, <1>8, <1>9 DEF SettlementInv

(* A sweep lists the channels: it gives the reserve back only while none needs it and none is being opened. *)
LEMMA ListsStep ==
    ASSUME SettlementInv, ~overlapped', NEW s \in Sweeps, Lists(s),
           UNCHANGED <<minimum, chan, cells, pool, listed, open, unsent>>
    PROVE  SettlementInv'
<1>1. KeptNow \in {0, FEE_RESERVE} /\ (KeptNow = 0 => \A c \in Channels : listed[c] # "needs")
  BY DEF KeptNow, NeedsFeeReserve, FEE_RESERVE
<1> DEFINE k == KeptNow
<1>2. /\ sweeps' = [sweeps EXCEPT ![s] = [pc |-> "listed", keep |-> k]] /\ (k = 0 => open.pc # "checked")
  BY <1>1 DEF Lists, FEE_RESERVE
<1> HIDE DEF k
<1>3. DOMAIN sweeps' = Sweeps /\ sweeps'[s] = [pc |-> "listed", keep |-> k] /\ \A r \in Sweeps : r # s => sweeps'[r] = sweeps[r]
  BY <1>2 DEF SettlementInv, SettlementTypes, SweepTypes
<1>4. SweepTypes'
  BY <1>1, <1>3 DEF SettlementInv, SettlementTypes, SweepTypes, k
<1>5. SettlementTypes'
  BY <1>4 DEF SettlementInv, SettlementTypes, OpenTypes
<1>6. CellsInv' /\ ReserveThere' = ReserveThere
  BY SameCells DEF SettlementInv
<1>7. ListInv'
  BY DEF SettlementInv, ListInv
<1>8. ReturnsReserve' => ReturnsReserve \/ k = 0
  BY <1>3 DEF ReturnsReserve
<1>9. k = 0 => open.pc \notin {"checked", "funding"} /\ \A c \in Channels : listed[c] # "needs"
  <2>1. open.pc = "funding" => open.ch \in Channels /\ listed[open.ch] = "needs"
    BY OpenIs DEF SettlementInv, ListInv
  <2>2. QED
    BY <1>1, <1>2, <2>1 DEF k
<1>10. ReturnInv'
  BY <1>8, <1>9 DEF SettlementInv, ReturnInv
<1>11. ReserveInv'
  BY <1>6 DEF SettlementInv, ReserveInv
<1>12. QED
  BY <1>5, <1>6, <1>7, <1>10, <1>11 DEF SettlementInv

(* What may join the pool: claims and sweeps, of which one gives the reserve back only if a sweep was about to. *)
Joins(t) ==
  /\ Cells(t.outs) /\ t.kind \in {"claim", "sweep"}
  /\ t.kind = "claim" => t.ch \in Channels /\ (CanPay(t.ins) => CanPay(t.outs))
  /\ t.kind = "sweep" => t.keep \in {0, FEE_RESERVE} /\ (t.keep # 0 => CanPay(t.outs))
  /\ t.kind = "sweep" /\ t.keep = 0 => ReturnsReserve

(* A transaction joins the pool; a sweep that sends it is done. *)
LEMMA PoolGrows ==
    ASSUME SettlementInv, NEW t, pool' = pool \/ (pool' = pool \cup {t} /\ Joins(t)),
           sweeps' = sweeps \/ \E s \in Sweeps : sweeps' = [sweeps EXCEPT ![s] = IdleSweep],
           UNCHANGED <<minimum, chan, cells, listed, open, unsent>>
    PROVE  SettlementInv'
<1>1. /\ DOMAIN sweeps' = Sweeps
      /\ \A s \in Sweeps : sweeps'[s] = sweeps[s] \/ sweeps'[s].pc = "idle"
  BY DEF SettlementInv, SettlementTypes, SweepTypes, IdleSweep
<1>2. SweepTypes'
  BY <1>1 DEF SettlementInv, SettlementTypes, SweepTypes
<1>3. SettlementTypes'
  BY <1>2 DEF SettlementInv, SettlementTypes, OpenTypes
<1>4. CellsInv' /\ (ReserveThere => ReserveThere')
  BY DEF SettlementInv, CellsInv, ReserveThere, Joins
<1>5. ListInv'
  BY DEF SettlementInv, ListInv
<1>6. ReturnsReserve' => ReturnsReserve
  BY <1>1 DEF ReturnsReserve, Joins
<1>7. ReturnInv'
  BY <1>6 DEF SettlementInv, ReturnInv
<1>8. ReserveInv'
  BY <1>4 DEF SettlementInv, ReserveInv
<1>9. QED
  BY <1>3, <1>4, <1>5, <1>7, <1>8 DEF SettlementInv

(* A claim takes a cell for the fee and comes back as one that is no smaller. *)
LEMMA SettleChannelStep == ASSUME SettlementInv, NEW c \in Channels, SettleChannel(c) PROVE SettlementInv'
<1>1. PICK fee \in cells : Offer(ClaimTx(c, fee))
  BY DEF SettleChannel, history
<1> DEFINE t == ClaimTx(c, fee)
           x == Cell(<<"claim", c>>, fee.cap + chan[c].data.mine)
<1>2. UNCHANGED <<minimum, chan, cells, listed, open, unsent, sweeps>>
  BY DEF SettleChannel, listVars, history
<1>3. t.kind = "claim" /\ t.ch = c /\ t.ins = {fee} /\ t.outs = {x}
  BY DEF ClaimTx
<1>4. x.cap = fee.cap + chan[c].data.mine
  BY DEF Cell
<1>5. fee.cap \in Nat
  BY DEF SettlementInv, CellsInv, Cells
<1>6. chan[c].data.mine \in Nat
  <2>1. chan[c] \in ChannelStates
    BY SettlementFacts DEF SettlementInv
  <2>2. chan[c].data \in Commitment
    BY <2>1 DEF ChannelStates
  <2>3. QED
    BY <2>2 DEF Commitment
<1>7. pool' = pool \cup {t} \/ pool' = pool
  BY <1>1 DEF Offer
<1> HIDE DEF t, x
<1>8. Cells(t.outs)
  <2>1. IsFiniteSet({x})
    BY FS_Singleton
  <2>2. QED
    BY <1>3, <1>4, <1>5, <1>6, <2>1 DEF Cells
<1>9. CanPay(t.ins) => CanPay(t.outs)
  BY <1>3, <1>4, <1>5, <1>6 DEF CanPay, MIN_PLAIN_CELL
<1>10. Joins(t)
  BY <1>3, <1>8, <1>9 DEF Joins
<1>11. QED
  BY <1>2, <1>7, <1>10, PoolGrows

(* A sweep that keeps the reserve leaves a cell that can pay: with less than the reserve there is nothing to move. *)
LEMMA SweepTxIs ==
    ASSUME SettlementInv, NEW keep \in {0, FEE_RESERVE}, WorthSweeping(keep), NEW t, t = SweepTx(keep)
    PROVE  t.kind = "sweep" /\ t.keep = keep /\ Cells(t.outs) /\ (keep # 0 => CanPay(t.outs))
<1> DEFINE T == Total(cells)
           kept == Keeps(T, keep)
           stays == IF kept > 0 /\ T - kept <= minimum THEN T ELSE kept
           x == Cell(<<"kept", "key">>, stays)
<1>1. T \in Nat /\ minimum \in {61, 95} /\ keep \in {0, 62}
  BY TotalIsNat, SettlementFacts DEF SettlementInv, CellsInv, FEE_RESERVE
<1>2. T > kept /\ (kept > 0 \/ T > minimum)
  BY DEF WorthSweeping
<1>3. t = [kind |-> "sweep", ins |-> cells, keep |-> keep, outs |-> IF stays > 0 THEN {x} ELSE {}]
  BY DEF SweepTx
<1>4. kept = IF keep > 0 /\ T >= keep THEN IF T - keep <= 61 THEN T ELSE keep ELSE 0
  BY DEF Keeps, MIN_PLAIN_CELL
<1>5. x.cap = stays
  BY DEF Cell
<1>6. stays = IF kept > 0 /\ T - kept <= minimum THEN T ELSE kept
  OBVIOUS
<1> HIDE DEF T, kept, stays, x
<1>7. kept \in Nat
  BY <1>1, <1>4
<1>8. stays \in Nat
  BY <1>1, <1>6, <1>7
<1>9. keep # 0 => stays >= 62
  BY <1>1, <1>2, <1>4, <1>6
<1>10. t.kind = "sweep" /\ t.keep = keep /\ t.outs = IF stays > 0 THEN {x} ELSE {}
  BY <1>3
<1>11. IsFiniteSet({x}) /\ IsFiniteSet({})
  BY FS_Singleton, FS_EmptySet
<1>12. Cells(t.outs)
  BY <1>5, <1>8, <1>10, <1>11 DEF Cells
<1>13. keep # 0 => CanPay(t.outs)
  BY <1>5, <1>8, <1>9, <1>10 DEF CanPay, MIN_PLAIN_CELL
<1>14. QED
  BY <1>10, <1>12, <1>13

(* A sweep sends its transaction, or finds nothing to move. *)
LEMMA SweepSettlementStep == ASSUME SettlementInv, NEW s \in Sweeps, SweepSettlement(s) PROVE SettlementInv'
<1> DEFINE keep == sweeps[s].keep
           t == SweepTx(keep)
<1>1. /\ sweeps[s].pc = "listed" /\ sweeps' = [sweeps EXCEPT ![s] = IdleSweep]
      /\ UNCHANGED <<minimum, chan, cells, listed, open, unsent>>
  BY DEF SweepSettlement, EndSweep, listVars, history
<1>2. keep \in {0, FEE_RESERVE}
  BY <1>1 DEF SettlementInv, SettlementTypes, SweepTypes
<1>3. (WorthSweeping(keep) /\ Offer(t)) \/ pool' = pool
  BY DEF SweepSettlement, history
<1>4. keep = 0 => ReturnsReserve
  BY <1>1 DEF ReturnsReserve
<1>5. CASE WorthSweeping(keep) /\ Offer(t)
  <2>1. t.kind = "sweep" /\ t.keep = keep /\ Cells(t.outs) /\ (keep # 0 => CanPay(t.outs))
    BY <1>2, <1>5, SweepTxIs
  <2>2. pool' = pool \cup {t} \/ pool' = pool
    BY <1>5 DEF Offer
  <2>3. Joins(t)
    BY <1>2, <1>4, <2>1 DEF Joins
  <2> HIDE DEF t, keep
  <2>4. QED
    BY <1>1, <2>2, <2>3, PoolGrows
<1>6. CASE pool' = pool
  BY <1>1, <1>6, PoolGrows
<1>7. QED
  BY <1>3, <1>5, <1>6

(* A transaction is committed.  What paid for a claim comes back with it; a sweep that kept the reserve leaves a cell that
   can pay; and the cell is gone only with a sweep that gives it back, while nothing needs it. *)
LEMMA CommitStep == ASSUME SettlementInv, NEW tx \in pool, Commit(tx) PROVE SettlementInv'
<1>1. /\ tx.ins \subseteq cells /\ pool' = pool \ {tx} /\ cells' = (cells \ tx.ins) \cup tx.outs
      /\ UNCHANGED <<minimum, listed, open, sweeps, unsent>>
  BY DEF Commit, listVars, pageVars, history
<1>2. /\ Cells(cells) /\ Cells(tx.outs) /\ tx.kind \in {"reserve", "claim", "sweep"}
      /\ tx.kind = "claim" => tx.ch \in Channels /\ (CanPay(tx.ins) => CanPay(tx.outs))
      /\ tx.kind = "sweep" => tx.keep \in {0, FEE_RESERVE} /\ (tx.keep # 0 => CanPay(tx.outs))
  BY DEF SettlementInv, CellsInv
<1>3. /\ chan' \in [Channels -> ChannelStates]
      /\ \A c \in Channels : chan'[c].stage = chan[c].stage /\ chan'[c].slots \subseteq chan[c].slots
  <2>1. CASE tx.kind = "claim"
    <3> DEFINE d == tx.ch
               v == [chan[d] EXCEPT !.slots = chan[d].slots \ {"mine"}]
    <3>1. chan' = [chan EXCEPT ![d] = v] /\ d \in Channels
      BY <1>2, <2>1 DEF Commit, history
    <3>2. chan[d] \in ChannelStates
      BY <3>1, SettlementFacts DEF SettlementInv
    <3>3. v \in ChannelStates /\ v.stage = chan[d].stage /\ v.slots \subseteq chan[d].slots
      BY <3>2 DEF ChannelStates
    <3> HIDE DEF v, d
    <3>4. QED
      BY <3>1, <3>3, SettlementFacts DEF SettlementInv
  <2>2. CASE tx.kind # "claim"
    BY <2>2, SettlementFacts DEF Commit, SettlementInv, history
  <2>3. QED
    BY <2>1, <2>2
<1>4. SettlementTypes'
  BY <1>1, <1>3 DEF SettlementInv, SettlementTypes, OpenTypes, SweepTypes
<1>5. CellsInv'
  <2>1. cells \ tx.ins \in SUBSET cells
    OBVIOUS
  <2>2. IsFiniteSet(cells \ tx.ins)
    BY <1>2, <2>1, FS_Subset DEF Cells
  <2>3. IsFiniteSet(cells')
    BY <1>1, <1>2, <2>2, FS_Union DEF Cells
  <2>4. Cells(cells')
    BY <1>1, <1>2, <2>3 DEF Cells
  <2>5. QED
    BY <1>1, <2>4 DEF SettlementInv, CellsInv, Cells
<1>6. ListInv'
  BY <1>1, <1>3, OpenIs DEF SettlementInv, ListInv
<1>7. ReturnsReserve' => ReturnsReserve
  BY <1>1 DEF ReturnsReserve
<1>8. ReturnInv'
  BY <1>1, <1>7 DEF SettlementInv, ReturnInv
<1>9. tx.kind # "sweep" \/ tx.keep # 0 => (ReserveThere => ReserveThere')
  <2>1. CASE tx.kind = "claim" /\ CanPay(cells)
    BY <1>1, <1>2, <2>1 DEF ReserveThere, CanPay
  <2>2. CASE CanPay(tx.outs)
    BY <1>1, <2>2 DEF ReserveThere, CanPay
  <2>3. CASE tx.kind = "reserve" /\ CanPay(cells)
    <3>1. tx.ins = {}
      BY <2>3 DEF SettlementInv, CellsInv
    <3>2. QED
      BY <1>1, <2>3, <3>1 DEF ReserveThere, CanPay
  <2>4. ASSUME NEW t \in pool, t.kind # "claim", CanPay(t.outs), t # tx PROVE ReserveThere'
    BY <1>1, <2>4 DEF ReserveThere
  <2>5. QED
    BY <1>2, <2>1, <2>2, <2>3, <2>4 DEF ReserveThere
<1>10. ReserveInv'
  <2>1. CASE tx.kind # "sweep" \/ tx.keep # 0
    BY <1>1, <1>9, <2>1 DEF SettlementInv, ReserveInv
  <2>2. CASE tx.kind = "sweep" /\ tx.keep = 0
    <3>1. ReturnsReserve
      BY <2>2 DEF ReturnsReserve
    <3>2. QED
      BY <1>1, <3>1 DEF SettlementInv, ReturnInv, ReserveInv
  <2>3. QED
    BY <2>1, <2>2
<1>11. QED
  BY <1>4, <1>5, <1>6, <1>8, <1>10 DEF SettlementInv

(* What the steps of a pass and of the timer change of all this is a list that is read. *)
LEMMA PassSteps ==
    ASSUME SettlementInv, ~overlapped', PassStep \/ TimerSweep
    PROVE  SettlementInv'
<1>1. ASSUME UNCHANGED <<minimum, chan, cells, pool, listed, open, sweeps, unsent>> PROVE SettlementInv'
  <2>1. CellsInv' /\ ReserveThere' = ReserveThere
    BY <1>1, SameCells DEF SettlementInv
  <2>2. QED
    BY <1>1, <2>1 DEF SettlementInv, SettlementTypes, OpenTypes, SweepTypes, ListInv, ReturnInv, ReturnsReserve,
       ReserveInv
<1>2. CASE TimerSweep
  <2>1. Lists("timer") /\ UNCHANGED <<minimum, chan, cells, pool, listed, open, unsent>> /\ "timer" \in Sweeps
    BY <1>2 DEF TimerSweep, chainVars, listVars, Sweeps
  <2>2. QED
    BY <2>1, ListsStep
<1>3. ASSUME NEW c \in Channels, PassSweeps(c) PROVE SettlementInv'
  <2>1. Lists("pass") /\ UNCHANGED <<minimum, chan, cells, pool, listed, open, unsent>> /\ "pass" \in Sweeps
    BY <1>3 DEF PassSweeps, chainVars, listVars, Sweeps
  <2>2. QED
    BY <2>1, ListsStep
<1>4. CASE PassLists
  BY <1>1, <1>4 DEF PassLists, chainVars, listVars, history
<1>5. ASSUME NEW c \in Channels, PassesOver(c) \/ Unwatch(c) PROVE SettlementInv'
  BY <1>1, <1>5 DEF PassesOver, Unwatch, chainVars, listVars, history
<1>6. QED
  BY <1>2, <1>3, <1>4, <1>5, SettleChannelStep DEF PassStep

(* Every step keeps the invariant, unless an open meets a sweep that gives the reserve back. *)
LEMMA SettlementSteps ==
    ASSUME SettlementInv, ~overlapped', [SettlementNext]_settlementVars
    PROVE  SettlementInv'
<1>1. CASE UNCHANGED settlementVars
  <2>1. UNCHANGED <<minimum, chan, cells, pool, listed, open, sweeps, unsent>>
    BY <1>1 DEF settlementVars, chainVars, listVars, pageVars, history
  <2>2. CellsInv' /\ ReserveThere' = ReserveThere
    BY <2>1, SameCells DEF SettlementInv
  <2>3. QED
    BY <2>1, <2>2 DEF SettlementInv, SettlementTypes, OpenTypes, SweepTypes, ListInv, ReturnInv, ReturnsReserve,
       ReserveInv
<1>2. ASSUME NEW c \in Channels, OpenFundedChannel(c) \/ FundingCommits(c) \/ ChainStep(c) \/ NodeConfirms(c)
      PROVE  SettlementInv'
  BY <1>2, OpenBegins, ChainSteps, NodeConfirmsStep
<1>3. QED
  BY <1>1, <1>2, OpenSteps, PassSteps, SweepSettlementStep, CommitStep DEF SettlementNext

(* An open that met such a sweep stays one that did. *)
LEMMA OverlapStays == ASSUME overlapped, [SettlementNext]_settlementVars PROVE overlapped'
<1>1. CASE UNCHANGED settlementVars
  BY <1>1 DEF settlementVars, history
<1>2. CASE OpenStep \/ Reload
  BY <1>2 DEF OpenStep, Negotiate, OpenFails, FundingSubmitted, SendFeeReserve, FeeReserveNotSent, Reload, history
<1>3. CASE PassStep \/ TimerSweep
  BY <1>3 DEF PassStep, PassLists, PassSweeps, SettleChannel, PassesOver, Unwatch, TimerSweep, Lists, history
<1>4. ASSUME NEW c \in Channels, OpenFundedChannel(c) \/ FundingCommits(c) \/ ChainStep(c) \/ NodeConfirms(c)
      PROVE  overlapped'
  BY <1>4 DEF OpenFundedChannel, FundingCommits, ChainStep, CooperativeClose, ForceClose, DelayPasses, PeerSettles,
     TlcsSettle, NodeConfirms, history
<1>5. CASE (\E s \in Sweeps : SweepSettlement(s)) \/ (\E tx \in pool : Commit(tx))
  BY <1>5 DEF SweepSettlement, Commit, history
<1>6. QED
  BY <1>1, <1>2, <1>3, <1>4, <1>5 DEF SettlementNext

(* The invariant holds in every state Settlement reaches before an open meets a sweep that gives the reserve back. *)
LEMMA SettlementIsInvariant == SettlementSpec => [](~overlapped => SettlementInv)
<1>1. SettlementInit => SettlementInv
  BY SettlementStarts
<1>2. (~overlapped => SettlementInv) /\ [SettlementNext]_settlementVars => (~overlapped => SettlementInv)'
  BY SettlementSteps, OverlapStays
<1>3. QED
  BY <1>1, <1>2, PTL DEF SettlementSpec

(* While a channel may have to be claimed, a plain cell that can pay for the claim is at the node's key or on its way, or
   is owed by the open in progress, whatever list a sweep read and however sweeps, claims, the peer's settlements and
   reloads interleave; unless the last reserve was not sent, or an open has met a sweep that gives the reserve back. *)
THEOREM ReserveStays == SettlementSpec => []ReserveKept
<1>1. (~overlapped => SettlementInv) => ReserveKept
  <2> SUFFICES ASSUME SettlementInv, ~unsent, NEW c \in Channels,
                      chan[c].stage = "open" \/ (chan[c].stage = "commit" /\ "mine" \in chan[c].slots),
                      open.pc # "reserve"
               PROVE  \E x \in cells \cup OnTheWay : x.cap >= MIN_PLAIN_CELL
    BY DEF ReserveKept, Unreserved
  <2>1. listed[c] = "needs" /\ ~(open.pc = "funding" /\ open.ch = c)
    BY DEF SettlementInv, ListInv
  <2>2. ReserveThere
    BY <2>1 DEF SettlementInv, ReserveInv
  <2>3. QED
    BY <2>2 DEF ReserveThere, CanPay, OnTheWay
<1>2. QED
  BY <1>1, SettlementIsInvariant, PTL
=============================================================================
