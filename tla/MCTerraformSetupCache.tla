----------------------- MODULE MCTerraformSetupCache -----------------------
(* Instances of TerraformSetupCache.                                      *)
EXTENDS TerraformSetupCache, TLC

CONSTANTS c1, c2, c3, p1, p2, n1, n2

\* c1 and c2 use the same ProviderConfig, c3 another one.
MCConfigOf == c1 :> p1 @@ c2 :> p1 @@ c3 :> p2

\* The cluster manager: a name identifies a ProviderConfig.
UniqueNames == p1 :> n1 @@ p2 :> n2

\* The namespaced manager: ProviderConfigs of two namespaces share a name.
SharedNames == p1 :> n1 @@ p2 :> n1
=============================================================================
