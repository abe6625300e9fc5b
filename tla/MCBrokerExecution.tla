-------------------------- MODULE MCBrokerExecution --------------------------
(* A small instance of BrokerExecution for TLC: one packet of one leg that  *)
(* is delivered twice; callbacks carry no client tag.                       *)
EXTENDS BrokerExecution

CONSTANTS i1, board, q1, q2

MCIntents   == {i1}
MCLegs      == {board}
MCRequests  == {q1, q2}
MCIntentOf  == [l \in Legs |-> i1]
MCIntentFor == [r \in Requests |-> i1]
MCUntagged  == {FALSE}
=============================================================================
