----------------------------- MODULE MCCommands -----------------------------
(* One run of each command, two of add.  Three codes of other machines: two  *)
(* of this network, one without an address, and one of another network.     *)
EXTENDS Commands

CONSTANTS i1, a1, a2, s1, c1, v1, n1, n2, p1, p2

MCMyName   == <<17, 0, 255, 128>>
MCMySecret == <<1, 2, 4, 8>>

MCCode(ip, port, secret, token) ==
  [ip |-> ip, port |-> port, name |-> MCMyName, secret |-> secret, token |-> token]

MCCodes == {MCCode(<<192, 168, 1, 100>>, 11010, MCMySecret, <<222, 173, 190, 239>>),
            MCCode(<<0, 0, 0, 0>>, 65535, MCMySecret, <<0, 31, 32, 255>>),
            MCCode(<<10, 0, 0, 1>>, 255, <<1, 2, 4, 9>>, <<0, 0, 0, 0>>)}

\* A mixture that no command would make.
MCMixtures == {[peers |-> {}, pairs |-> Pairs]}

MCSymmetry == Permutations(Nodes) \cup Permutations(Adds) \cup Permutations(Ids)
=============================================================================
