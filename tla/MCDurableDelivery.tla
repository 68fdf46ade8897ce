-------------------------- MODULE MCDurableDelivery --------------------------
(* Envelopes in the order they are published, one of another subject than  *)
(* the consumer's.                                                         *)
EXTENDS DurableDelivery

CONSTANTS alice, bob

MCEvents == {[id |-> i, subject |-> IF i = 3 THEN bob ELSE alice] :
               i \in 1..MaxCursor}
=============================================================================
