----------------------------- MODULE ReviewLedger -----------------------------
(***************************************************************************)
(* What the record of Deep Agent attempts promises its reader: attempts    *)
(* are opened one at a time, the n-th closed attempt has number n, and the  *)
(* review requests of an entry are exactly those made while it was open.   *)
(* Review requests are named by their position in the request log, which   *)
(* only grows.                                                             *)
(***************************************************************************)
EXTENDS Naturals, Sequences

CONSTANTS Calls, Lists, MaxRounds, Inline, NoCall

VARIABLES
  open,      \* the call whose attempt is open, or NoCall
  since,     \* length of the log when the open attempt began, 0 if none is
  requests,  \* log of review requests: [attempt, list]
  ledger     \* closed attempts: [call, reviews, ok]

ledgerVars == <<open, since, requests, ledger>>

OpenReviews == since + 1 .. Len(requests)

LedgerInit == open = NoCall /\ since = 0 /\ requests = <<>> /\ ledger = <<>>

Open(c) ==
  /\ open = NoCall /\ Len(ledger) < MaxRounds[c]
  /\ open' = c /\ since' = Len(requests)
  /\ UNCHANGED <<requests, ledger>>

Request(list) ==
  /\ open # NoCall /\ open \notin Inline
  /\ requests' = Append(requests, [attempt |-> Len(ledger) + 1, list |-> list])
  /\ UNCHANGED <<open, since, ledger>>

Close(ok) ==
  /\ open # NoCall
  /\ ok /\ open \notin Inline => OpenReviews # {}
  /\ ledger' = Append(ledger, [call |-> open, reviews |-> OpenReviews, ok |-> ok])
  /\ open' = NoCall /\ since' = 0 /\ UNCHANGED requests

(* An attempt that ends in an exception leaves no entry. *)
Abandon ==
  /\ open # NoCall /\ open' = NoCall /\ since' = 0
  /\ UNCHANGED <<requests, ledger>>

LedgerNext ==
  \/ \E c \in Calls : Open(c)
  \/ \E list \in Lists : Request(list)
  \/ \E ok \in BOOLEAN : Close(ok)
  \/ Abandon

LedgerSpec == LedgerInit /\ [][LedgerNext]_ledgerVars
=============================================================================
