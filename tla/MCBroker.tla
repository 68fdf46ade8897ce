------------------------------ MODULE MCBroker ------------------------------
(* Envelopes for the broker: three the boundary accepts, two of them for   *)
(* one subject, and one it refuses.                                        *)
EXTENDS Broker

CONSTANTS i1, i2, i3, i4, alice

MCEvents == {[id |-> i1, subject |-> alice],
             [id |-> i2, subject |-> NoSubject],
             [id |-> i3, subject |-> alice],
             [id |-> i4, subject |-> alice]}

MCRefused == {e \in MCEvents : e.id = i4}
=============================================================================
