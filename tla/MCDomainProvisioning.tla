------------------------ MODULE MCDomainProvisioning ------------------------
(* Domains foo.com and foo.net, which map to one system user, and bar.com,  *)
(* on a Debian server.                                                     *)
EXTENDS DomainProvisioning, TLC

CONSTANTS foo, foonet, bar, fooUser, barUser, r1, r2, v1, v2

Users == foo :> fooUser @@ foonet :> fooUser @@ bar :> barUser

AllOps == {"create", "update", "suspend", "unsuspend", "delete"}
=============================================================================
