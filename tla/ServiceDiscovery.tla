--------------------------- MODULE ServiceDiscovery ---------------------------
(***************************************************************************)
(* The service discovery service: its registry and its configuration. They *)
(* share a database and a Redis, but no row and no key, so a behaviour     *)
(* exercises one of them: the other's state stays as it is.                *)
(***************************************************************************)
EXTENDS ServiceRegistry, ConfigurationStore

VARIABLE side   \* what the behaviour exercises

discoveryVars == <<registryVars, configVars, side>>

DiscoveryInit == RegistryInit /\ ConfigInit /\ side \in {"registry", "configuration"}

DiscoveryNext ==
  \/ side = "registry" /\ RegistryNext /\ UNCHANGED <<configVars, side>>
  \/ side = "configuration" /\ ConfigNext /\ UNCHANGED <<registryVars, side>>

DiscoverySpec == DiscoveryInit /\ [][DiscoveryNext]_discoveryVars

DiscoveryTypeOK == RegistryTypeOK /\ ConfigTypeOK
=============================================================================
