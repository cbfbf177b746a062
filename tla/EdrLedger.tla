----------------------------- MODULE EdrLedger ------------------------------
(***************************************************************************)
(* What the EDR ingest API promises its clients, without tables, handlers  *)
(* and ids.  A delivery is a sequence of payloads.  Evidence of a payload  *)
(* is stored in stages that are never undone, the payloads of one delivery *)
(* in their order; a delivery is acknowledged only when all of it is       *)
(* stored; one that was refused or lost keeps what it has.  EdrIngest      *)
(* implements this.                                                        *)
(***************************************************************************)
EXTENDS Naturals, Sequences

CONSTANTS
  Deliveries,   \* HTTP requests
  MaxItems,     \* bound: payloads of one delivery
  Stages        \* stages of a stored payload

VARIABLES
  stage,    \* stage[d][i]: stages done for the i-th payload of delivery d
  answer    \* answer[d]: what the client of d has been told

ledgerVars == <<stage, answer>>

Answers == {"unsent", "pending", "ok", "error", "lost"}

LedgerInit ==
  /\ stage = [d \in Deliveries |-> <<>>]
  /\ answer = [d \in Deliveries |-> "unsent"]

Complete(items, i) == items[i] = Stages

Arrive(d) ==
  /\ answer[d] = "unsent"
  /\ stage' \in {[stage EXCEPT ![d] = [i \in 1 .. n |-> 0]] : n \in 1 .. MaxItems}
  /\ answer' = [answer EXCEPT ![d] = "pending"]

\* Evidence is stored.  The same evidence may be part of several deliveries,
\* answered ones included: all of them go forward, none goes back, and none
\* starts on a payload before those ahead of it are complete.
MovesOn(items, later) ==
  /\ DOMAIN later = DOMAIN items
  /\ \A i \in DOMAIN items :
       /\ later[i] \in items[i] .. Stages
       /\ later[i] > 0 => \A j \in 1 .. i - 1 : Complete(later, j)

Store ==
  /\ DOMAIN stage' = Deliveries
  /\ \A d \in Deliveries : MovesOn(stage[d], stage'[d])

Acknowledge(d) ==
  /\ answer[d] = "pending"
  /\ \A i \in DOMAIN stage'[d] : Complete(stage'[d], i)
  /\ answer' = [answer EXCEPT ![d] = "ok"]

Refuse(d) ==
  /\ answer[d] = "pending"
  /\ answer' = [answer EXCEPT ![d] = "error"]

\* The server dies: nobody hears of what was pending.
LoseAll == answer' = [d \in Deliveries |-> IF answer[d] = "pending" THEN "lost" ELSE answer[d]]

\* The last payload may be stored in the step that acknowledges it.
LedgerNext ==
  \/ \E d \in Deliveries : Arrive(d)
  \/ Store /\ (UNCHANGED answer \/ \E d \in Deliveries : Acknowledge(d))
  \/ UNCHANGED stage /\ (LoseAll \/ \E d \in Deliveries : Refuse(d))

LedgerSpec == LedgerInit /\ [][LedgerNext]_ledgerVars
=============================================================================
