------------------------------- MODULE MCFanout -------------------------------
(* One bus.echo and the three services bound to it, two of which claim in the  *)
(* jobs table of the data service.                                             *)
EXTENDS BusFanout, TLC

CONSTANTS c1, api, queue, ai


MCKey == [c \in {c1} |-> "bus.echo"]
MCBound == [q \in {api, queue, ai} |-> {"bus.echo"}]
===============================================================================
