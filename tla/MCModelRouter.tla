--------------------------- MODULE MCModelRouter ---------------------------
EXTENDS ModelRouter, TLC
CONSTANTS r1, r2, ollama, demo, local, cloud

\* The two providers of the agent, one more that is local, and one of the cloud,
\* which is registered first.
FourProviders == <<cloud, local, demo, ollama>>
FourKinds == (ollama :> "ollama") @@ (demo :> "demo-local") @@ (local :> "local") @@ (cloud :> "cloud")
FourModes == (ollama :> PrivacyModes) @@ (demo :> PrivacyModes)
  @@ (local :> PrivacyModes \ {"balanced"}) @@ (cloud :> PrivacyModes \ {"local_only"})
SomeAbilities == {{ollama, demo, local, cloud}, {local, cloud}, {cloud}}
Symmetry == Permutations(Requests)
=============================================================================
