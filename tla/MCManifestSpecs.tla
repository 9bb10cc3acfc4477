-------------------------- MODULE MCManifestSpecs --------------------------
(* Every spec of baras/manifest.go.                                          *)
EXTENDS ManifestSpecs

const_Scenarios == Specs
=============================================================================
