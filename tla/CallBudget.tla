------------------------------ MODULE CallBudget ------------------------------
(***************************************************************************)
(* What a circuit breaker promises to the server it protects, without the *)
(* three modes that the code uses to keep the promise.                     *)
(*                                                                         *)
(* The client has a budget of calls that it may lose.  Every lost call     *)
(* uses up at least one unit; a call that is answered gives some of it     *)
(* back.  With nothing left, the next call waits until the budget has been *)
(* exhausted for at least `Quiet` units of time.                           *)
(***************************************************************************)
EXTENDS Integers

CONSTANTS Budget,   \* calls that may be lost in a row; <= 0: no limit at all
          Quiet     \* how long an exhausted budget keeps the client silent

VARIABLES budget,   \* calls that may still be lost
          silent,   \* time since the budget was last exhausted, up to Quiet
          inFlight  \* calls on the wire: 0 or 1

vars == <<budget, silent, inFlight>>

Unlimited == Budget <= 0

Init == budget = Budget /\ silent = 0 /\ inFlight = 0

Begin ==
  /\ inFlight = 0
  /\ Unlimited \/ budget > 0 \/ silent >= Quiet
  /\ inFlight' = 1
  /\ UNCHANGED <<budget, silent>>

Answered ==
  /\ inFlight = 1
  /\ inFlight' = 0
  /\ IF Unlimited THEN UNCHANGED budget ELSE budget' \in 1 .. Budget
  /\ UNCHANGED silent

Lost ==
  /\ inFlight = 1
  /\ inFlight' = 0
  /\ IF Unlimited
     THEN UNCHANGED <<budget, silent>>
     ELSE /\ budget' \in 0 .. Budget
          /\ budget' < budget \/ budget' = 0
          /\ silent' = IF budget' = 0 THEN 0 ELSE silent

\* Time passes; it never runs backwards.
Wait ==
  /\ silent' >= silent
  /\ UNCHANGED <<budget, inFlight>>

Next == Begin \/ Answered \/ Lost \/ Wait

Spec == Init /\ [][Next]_vars
===============================================================================
