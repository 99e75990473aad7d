--------------------------- MODULE TenantResolver ---------------------------
(***************************************************************************)
(* Which tenant a request's host leads to (service/tenancy.go), over the   *)
(* records that CustomDomains keeps.                                       *)
(*                                                                         *)
(* A resolver is built from one list of all records and does not look at   *)
(* the store again.  The list comes from a walk over a Go map, so of two   *)
(* records of one name either may be the last, which wins.                 *)
(*                                                                         *)
(* A host is text that a client, or the operator's configuration, spelled. *)
(* The resolver and the domain tables bring it to a normal form each in a  *)
(* way of its own, and the two ways differ.                                *)
(***************************************************************************)
EXTENDS CustomDomains

CONSTANTS
  HostName,          \* the names hosts are written with, domains' or not
  PlatformHost       \* the hosts of the service itself, as configured

\* A spelling of a name: rough if it has capitals or blanks around it, dotted
\* if the name ends with a dot, and with a port, or with colons that
\* net.SplitHostPort cannot make sense of.
Host ==
  [name: HostName, rough: BOOLEAN, dotted: BOOLEAN, port: {"none", "port", "unsplit"}]

ASSUME HostAssumption ==
  /\ Name \subseteq HostName
  /\ PlatformHost \subseteq Host

\* A name of Name as it is stored: already in the normal form of both.
Spelled(n) == [name |-> n, rough |-> FALSE, dotted |-> FALSE, port |-> "none"]

\* net.SplitHostPort, or the host as it is when that reports an error.
WithoutPort(host) == IF host.port = "port" THEN [host EXCEPT !.port = "none"] ELSE host

\* The resolver's normal form keeps the dot at the end.
normalizeHost(host) == [WithoutPort(host) EXCEPT !.rough = FALSE]

\* The tables' normal form keeps the port, and a dot that the port hides.
NormalizeDomainName(host) ==
  [host EXCEPT !.rough = FALSE, !.dotted = host.dotted /\ host.port # "none"]

Resolution ==
  [kind: {"platform", "unknown", "inactive"}] \cup [kind: {"tenant"}, owner: Owner]

\* NewTenantResolver: the two maps have normal forms for keys.
PlatformHostKeys == {normalizeHost(host) : host \in PlatformHost}

BindingKey(id) == normalizeHost(Spelled(domainsByID[id].name))

\* NewTenantResolverFromStore: the bindings that may be built from the records
\* as they are now, a record for each key.
Bindings ==
  LET keys == {BindingKey(id) : id \in DOMAIN domainsByID}
  IN  {b \in [keys -> DOMAIN domainsByID] : \A key \in keys : BindingKey(b[key]) = key}

\* What a record says of the tenant: only an active domain leads there.
TenantOf(d) ==
  IF d.status # "active" THEN [kind |-> "inactive"]
  ELSE [kind |-> "tenant", owner |-> d.owner]

\* Resolve: the hosts of the service itself come first.
Resolve(b, host) ==
  LET key == normalizeHost(host)
  IN  IF key \in PlatformHostKeys THEN [kind |-> "platform"]
      ELSE IF key \notin DOMAIN b THEN [kind |-> "unknown"]
      ELSE TenantOf(domainsByID[b[key]])

-----------------------------------------------------------------------------
\* Two spellings of one host to a client: capitals, blanks and a port apart.
SameHost(g, h) ==
  /\ g.name = h.name /\ g.dotted = h.dotted
  /\ (g.port = "unsplit" <=> h.port = "unsplit")

\* A resolver built at any moment at which requests have run one at a time knows
\* the hosts of the service, whatever domains somebody registers, and sends every
\* other host where the name index sends the administrator: to a domain's owner
\* once the domain is active, and not before.  It is built from the records, not
\* from the index, so a name registered twice would be resolved by luck.  Where
\* the two normal forms differ, the resolver knows less: a name with a dot at its
\* end is found by the index and has no tenant (tenancy.go:102, model/domain.go:108).
ResolverFollowsIndex ==
  \A b \in Bindings, host \in Host :
    LET found == {n \in DOMAIN domainIDsByName :
                    NormalizeDomainName(WithoutPort(host)) = Spelled(n)}
    IN  Resolve(b, host) =
          IF \E own \in PlatformHost : SameHost(host, own) THEN [kind |-> "platform"]
          ELSE IF host.dotted \/ found = {} THEN [kind |-> "unknown"]
          ELSE TenantOf(FindCustomDomainByDomain(host.name))

=============================================================================
