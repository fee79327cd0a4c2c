------------------------- MODULE MCProviderRegistry -------------------------
(* Small instances of ProviderRegistry.                                    *)
EXTENDS ProviderRegistry

Capability(resource, algorithm) == [resource |-> resource, algorithm |-> algorithm]
MCOneCapability == {Capability("posts", "trending")}
=============================================================================
