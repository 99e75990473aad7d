-------------------------- MODULE MCTenantResolver --------------------------
(***************************************************************************)
(* Instances of TenantResolver for TLC.                                    *)
(***************************************************************************)
EXTENDS TenantResolver, TLC

CONSTANTS alice, acme, plain, wild, platform

\* A user with a limit of one domain, an organisation without a limit.
OneAndUnlimited == alice :> 1 @@ acme :> 0

\* The service was configured with a port, and with a name that somebody may
\* register as a domain, but with a dot at its end.
OwnHosts ==
  {[name |-> platform, rough |-> FALSE, dotted |-> FALSE, port |-> "port"],
   [name |-> plain, rough |-> FALSE, dotted |-> TRUE, port |-> "none"]}

=============================================================================
