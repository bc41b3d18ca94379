-------------------------- MODULE MCSessionClient --------------------------
(* An instance of SessionClient: a connect with a disconnect, a drop and two losses, or
   two connects, the first of which may be cancelled, with a loss or an expired token.
   Connects are alike: c1 is the first. *)
EXTENDS SessionClient

CONSTANTS c1, c2, d1, n1

Used(S) == {c \in S : task[c] # Idle}

Scenario ==
    Used({c2}) # {} =>
        /\ Used({c1}) # {}
        /\ Used({d1, n1}) = {}
        /\ c2 \notin cancelled
        /\ losses + Cardinality(old) <= 1

(* Only calls, losses and expiries can leave the scenario. *)
MCNext == ClientStep \/ (AppStep /\ Scenario') \/ (Outside /\ Scenario')
MCSpec == Init /\ [][MCNext]_vars /\ WF_vars(ClientStep)
=============================================================================
