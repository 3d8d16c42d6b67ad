----------------------------- MODULE Registries -----------------------------
(***************************************************************************)
(* InMemoryNetworkRegistry and InMemoryAssetRegistry                       *)
(* (packages/core/src/network-registry.ts, asset-registry.ts).             *)
(*                                                                         *)
(* What registerAsset and registerRepresentation await never disappears    *)
(* and does not change, so each is one step; discoverCapabilities reads    *)
(* the representation, awaits the discoverer, and writes the               *)
(* representation back in a later step.  Values that the type-specific     *)
(* validations refuse are left out.                                        *)
(***************************************************************************)
EXTENDS Undefined, FiniteSets

CONSTANTS
  NetworkIds, AssetIds, RepresentationIds,
  ChainIds,      \* of EVM networks; a Canton network has none
  Capabilities,
  Discoveries    \* concurrent calls of discoverCapabilities

\* A representation of an asset on a network.
Representation ==
  [ assetId : AssetIds, chainId : ChainIds \cup {None}, enabled : BOOLEAN,
    discoveredCapabilities : SUBSET Capabilities ]

ASSUME RegistriesConstants == None \notin ChainIds \cup Representation

VARIABLES
  networks,         \* type, chain and enablement of the registered networks
  assets,           \* status and declared capabilities
  representations,  \* asset, network, enablement and discovered capabilities
  evidence,         \* the stored evidence, as the capabilities it is for
  discovering       \* the representation that a discovery holds

registryVars == <<networks, assets, representations, evidence, discovering>>

RegistriesInit ==
  /\ networks = [n \in NetworkIds |-> None]
  /\ assets = [a \in AssetIds |-> None]
  /\ representations = [r \in RepresentationIds |-> None]
  /\ evidence = [r \in RepresentationIds |-> None]
  /\ discovering = [d \in Discoveries |-> None]
-----------------------------------------------------------------------------
\* register: an EVM chain has one network.
RegisterNetwork(n, chainId, enabled) ==
  /\ networks[n] = None
  /\ chainId # None =>
       \A m \in NetworkIds : networks[m] # None => networks[m].chainId # chainId
  /\ networks' = [networks EXCEPT ![n] = [chainId |-> chainId, enabled |-> enabled]]
  /\ UNCHANGED <<assets, representations, evidence, discovering>>

SetNetworkEnabled(n, enabled) ==
  /\ networks[n] # None
  /\ networks' = [networks EXCEPT ![n].enabled = enabled]
  /\ UNCHANGED <<assets, representations, evidence, discovering>>

\* registerAsset, with the canonical network it may have.
RegisterAsset(a, status, capabilities, canonical) ==
  /\ assets[a] = None
  /\ canonical # None => networks[canonical] # None
  /\ assets' = [assets EXCEPT ![a] =
                  [status |-> status, capabilities |-> capabilities]]
  /\ UNCHANGED <<networks, representations, evidence, discovering>>

\* registerRepresentation, with a locator of the network's type and chain.
RegisterRepresentation(r, a, n, chainId, enabled, discovered) ==
  /\ representations[r] = None
  /\ assets[a] # None
  /\ networks[n] # None /\ networks[n].chainId = chainId
  /\ representations' = [representations EXCEPT ![r] =
       [assetId |-> a, chainId |-> chainId, enabled |-> enabled,
        discoveredCapabilities |-> discovered]]
  /\ UNCHANGED <<networks, assets, evidence, discovering>>
-----------------------------------------------------------------------------
\* discoverCapabilities up to the await.
Discover(d, r) ==
  /\ discovering[d] = None
  /\ representations[r] # None
  /\ discovering' = [discovering EXCEPT ![d] =
       [id |-> r, representation |-> representations[r]]]
  /\ UNCHANGED <<networks, assets, representations, evidence>>

\* Mutant: the representation keeps the capabilities of before.
DiscoveredEvidenceOnly(d, found) ==
  /\ discovering[d] # None
  /\ evidence' = [evidence EXCEPT ![discovering[d].id] = found]
  /\ discovering' = [discovering EXCEPT ![d] = None]
  /\ UNCHANGED <<networks, assets, representations>>

\* External: what the discoverer found.  The representation read before the
\* await is written back with it.
Discovered(d, found) ==
  /\ discovering[d] # None
  /\ representations' = [representations EXCEPT ![discovering[d].id] =
       [discovering[d].representation EXCEPT !.discoveredCapabilities = found]]
  /\ evidence' = [evidence EXCEPT ![discovering[d].id] = found]
  /\ discovering' = [discovering EXCEPT ![d] = None]
  /\ UNCHANGED <<networks, assets>>

\* The discoverer fails, or finds a capability twice.
DiscoveryFails(d) ==
  /\ discovering[d] # None
  /\ discovering' = [discovering EXCEPT ![d] = None]
  /\ UNCHANGED <<networks, assets, representations, evidence>>

effectiveCapabilities(r) ==
  IF representations[r] = None \/ evidence[r] = None THEN {}
  ELSE LET asset == assets[representations[r].assetId]
       IN  IF representations[r].enabled /\ asset.status = "ACTIVE"
             THEN asset.capabilities \cap representations[r].discoveredCapabilities
             ELSE {}

RegistriesNext ==
  \/ \E n \in NetworkIds, c \in ChainIds \cup {None}, e \in BOOLEAN :
       RegisterNetwork(n, c, e)
  \/ \E n \in NetworkIds, e \in BOOLEAN : SetNetworkEnabled(n, e)
  \/ \E a \in AssetIds, s \in {"ACTIVE", "PAUSED"}, k \in SUBSET Capabilities,
        n \in NetworkIds \cup {None} : RegisterAsset(a, s, k, n)
  \/ \E r \in RepresentationIds, a \in AssetIds, n \in NetworkIds,
        c \in ChainIds \cup {None}, e \in BOOLEAN, k \in SUBSET Capabilities :
       RegisterRepresentation(r, a, n, c, e, k)
  \/ \E d \in Discoveries, r \in RepresentationIds : Discover(d, r)
  \/ \E d \in Discoveries, k \in SUBSET Capabilities : Discovered(d, k)
  \/ \E d \in Discoveries : DiscoveryFails(d)

RegistriesSpec == RegistriesInit /\ [][RegistriesNext]_registryVars
-----------------------------------------------------------------------------
\* "Effective capabilities are their intersection and are empty before
\* discovery, while an asset is not active, or while its representation is
\* disabled" (ADR 0004): no overlap of discoveries grants a capability that
\* the stored evidence lacks or the asset does not declare, not even one the
\* representation was registered with.
EffectiveIsEvidenced ==
  \A r \in RepresentationIds : \A k \in effectiveCapabilities(r) :
    /\ evidence[r] # None /\ k \in evidence[r]
    /\ assets[representations[r].assetId].status = "ACTIVE"
    /\ k \in assets[representations[r].assetId].capabilities
    /\ representations[r].enabled
=============================================================================
