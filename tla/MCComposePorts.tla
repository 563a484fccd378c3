--------------------------- MODULE MCComposePorts ---------------------------
EXTENDS ComposePorts, TLC
CONSTANTS app, db
\* The application publishes a privileged port and one that the database wants
\* on the loopback interface as well.
Entries3 == 1..3
ServiceOf == 1 :> app @@ 2 :> app @@ 3 :> db
TargetOf == 1 :> 80 @@ 2 :> 443 @@ 3 :> 90
RequestedOf == 1 :> [ip |-> Omitted, port |-> 2] @@ 2 :> [ip |-> Omitted, port |-> 1]
               @@ 3 :> [ip |-> "127.0.0.1", port |-> 2]
Req(rebuild, auto, forward, maps) ==
    [rebuild |-> rebuild, auto |-> auto, forward |-> forward, maps |-> maps]
Mapping == 3 :> [ip |-> "127.0.0.1", port |-> 4]
SomeRequests ==
    {Req(FALSE, TRUE, 0, <<>>), Req(TRUE, TRUE, 0, <<>>), Req(FALSE, TRUE, 1, <<>>),
     Req(FALSE, TRUE, 3, <<>>),
     Req(FALSE, TRUE, 0, Mapping), Req(TRUE, TRUE, 0, Mapping),
     Req(FALSE, FALSE, 0, <<>>), Req(TRUE, FALSE, 0, Mapping)}
Listener(ip, port, byDocker) == [ip |-> ip, port |-> port, docker |-> byDocker]
SomePrograms ==
    {Listener("0.0.0.0", 2, FALSE), Listener("127.0.0.1", 3, TRUE),
     Listener("::", 2, FALSE), Listener("0.0.0.0", 1, FALSE)}
\* One entry, and nobody else about.
Entries1 == {1}
OnlyService == 1 :> app
OnlyTarget == 1 :> 80
OnlyRequested == 1 :> [ip |-> "127.0.0.1", port |-> 2]
Relocating == {Req(FALSE, TRUE, 0, <<>>), Req(TRUE, TRUE, 0, <<>>)}
=============================================================================
