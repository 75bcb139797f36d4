------------------------------ MODULE MCGateway ------------------------------
(* Instances of Gateway for TLC. *)
EXTENDS Gateway, TLC

CONSTANTS a1, a2, a3, a4, p1, p2

\* One request, four accounts: a1 has two proxies, a2 shares one of them, a3
\* has none and no key; a4 may be created meanwhile.
SoloBindings == {<<a1, p1>>, <<a1, p2>>, <<a2, p1>>}

\* Two requests meeting on an account with one proxy.
PairBindings == {<<a1, p1>>}

\* One account with two proxies and nothing else.
DirectBindings == {<<a1, p1>>, <<a1, p2>>}

RequestSymmetry == Permutations(Requests)

=============================================================================
