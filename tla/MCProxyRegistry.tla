-------------------------- MODULE MCProxyRegistry --------------------------
(* Several clients using the same container ids, for TLC. *)
EXTENDS ProxyRegistry, TLC

RegistrySymmetry == Permutations(Clients) \cup Permutations(VMs)
=============================================================================
