---------------------------- MODULE MCSupervisor ----------------------------
(* A CORE daemon with an endpoint (1), a CORE daemon without one, as       *)
(* gateway_d (2), and an AUX daemon (3).                                   *)
EXTENDS Supervisor
MCDaemon == 1..3
MCCore == {1, 2}
MCSock == {1, 3}
=============================================================================
