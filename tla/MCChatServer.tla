---------------------------- MODULE MCChatServer ----------------------------
(* Instances of ChatServer for TLC.                                        *)
EXTENDS ChatProperties, TLC

CONSTANTS a, b, c,        \* peers
          Ann, Bob, Cyd,  \* user names
          Tea, Go         \* chatroom names

TwoPeers == {a, b}
ThreePeers == {a, b, c}
TwoUsernames == {Ann, Bob}
ThreeUsernames == {Ann, Bob, Cyd}
AnyUsername == [p \in Peers |-> Usernames]
Own == [p \in ThreePeers |-> CASE p = a -> Ann [] p = b -> Bob [] p = c -> Cyd]
OwnUsername == [p \in Peers |-> {Own[p]}]
OneName == {Tea}
TwoNames == {Tea, Go}
Nobody == {}
JustA == {a}

\* The peers are interchangeable, and so are the names of each kind.
TwoPeersSymmetry == Permutations(TwoPeers) \cup Permutations(TwoUsernames)
TwoNamesSymmetry == TwoPeersSymmetry \cup Permutations(TwoNames)

\* Peers that have a user name of their own change places together with it.
WithOwnUsername(perm) ==
  perm @@ [u \in ThreeUsernames |-> Own[perm[CHOOSE p \in ThreePeers : Own[p] = u]]]
ThreePeersSymmetry == {WithOwnUsername(perm) : perm \in Permutations(ThreePeers)}

=============================================================================
