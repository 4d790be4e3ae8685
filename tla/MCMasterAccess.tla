---------------------------- MODULE MCMasterAccess ----------------------------
(* MasterAccess with an administrator behind a reverse proxy on the same   *)
(* host and a second client that shares its address.                       *)
EXTENDS MasterAccess
CONSTANTS k1, k2, ip, proxy
TwoClients == {k1, k2}
RemoteOf == [c \in TwoClients |-> IF c = k1 THEN proxy ELSE ip]
BehindProxy == {k1}
ForwardedFor == [c \in TwoClients |-> IF c = k1 THEN ip ELSE None]
OnlyIp == {ip}
Addresses == {ip, proxy}
==============================================================================
