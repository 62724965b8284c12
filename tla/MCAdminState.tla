---------------------------- MODULE MCAdminState ----------------------------
EXTENDS AdminState, TLC

Symmetric == Permutations(ResourceIds) \cup Permutations(Tokens) \cup Permutations(Subdomains)
=============================================================================
