--------------------------- MODULE MCProjectStore ---------------------------
EXTENDS ProjectStore

ClientSymmetry == Permutations(Clients)

AllOps == DOMAIN ApiOps \union {"add_project"}
Depth == 3       \* an environment, its keys, the vaults of those keys
=============================================================================
