------------------------------ MODULE MCTunnel ------------------------------
EXTENDS Tunnel

One == [hub |-> "h1", endpoint |-> "e1", net |-> "n1"]
OtherEndpoint == [One EXCEPT !.endpoint = "e2"]
OtherNet == [One EXCEPT !.endpoint = "e2", !.net = "n2"]
OtherHub == [One EXCEPT !.hub = "h2"]

OneEntry == {One}
SameHub == {One, OtherEndpoint, OtherNet}
Rotating == {One, OtherHub}
=============================================================================
