--------------------------- MODULE AccountSigning ---------------------------
(***************************************************************************)
(* The daily amounts of SendLimits together with the rules of              *)
(* TransactionRules that every transaction passes on its way: the server   *)
(* shows a request with them (server/general-signing.ts), and the Lit      *)
(* action that checks the amounts works with what outflowOf counts         *)
(* (lit-actions/sign-ckb-transaction.js).                                  *)
(***************************************************************************)
EXTENDS SendLimits, TransactionRules

(* Whenever a request or a channel's funding waits for its user's word, what the
   server showed of the transaction hides nothing the account loses or gains,
   whatever the transaction is (transaction-policy.ts:133-137,
   funding-transaction.ts:100-104). *)
AskedInFull == \A p \in Purposes : request[p] # None => ShownInFull /\ FundingExact

(* Whatever Lit has signed, the flow it checked against the daily amounts was at least
   what the account lost by it: the amounts of the chain of sends are real ones. *)
SignedIsCounted == \A i \in Txs : txs[i].kind # "genesis" => LitCountsAll
=============================================================================
