-------------------------- MODULE MCPortForwarding --------------------------
EXTENDS PortForwarding, TLC
CONSTANTS s1, s2
Req(a, o, ports) == [attached |-> a, auto |-> o, ports |-> ports]
Fwd(t, c, h) == [t |-> t, c |-> c, h |-> h]
\* Detached; only automatic forwards; two that want the last port, in two
\* containers; and one that leaves a port to the loop.
Detached == Req(FALSE, TRUE, <<Fwd(1, 3, 3)>>)
AllRequests == {Detached,
                Req(TRUE, TRUE, <<>>),
                Req(TRUE, TRUE, <<Fwd(1, 2, 4), Fwd(2, 3, 4)>>),
                Req(TRUE, TRUE, <<Fwd(1, 3, 4)>>)}
OneForward == {Detached, Req(TRUE, TRUE, <<Fwd(1, 3, 3)>>)}
=============================================================================
