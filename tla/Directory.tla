----------------------------- MODULE Directory ------------------------------
(***************************************************************************)
(* What the chat server promises its users: one directory that says who is *)
(* online, under which user name and in which chatroom, and that changes   *)
(* in one step.  A chatroom is its name, open as long as somebody is in    *)
(* it.  Ids, counts, maps, tasks and channels do not appear.               *)
(***************************************************************************)
EXTENDS Naturals, FiniteSets

CONSTANTS Peers, Names, Usernames, Capacity, None

VARIABLES
  serving,   \* the server runs
  online,    \* who is connected
  user,      \* the user name of each peer, or None
  room       \* the name of the chatroom each peer is in, or None

vars == <<serving, online, user, room>>

Occupants(name) == {p \in online : room[p] = name}

Init ==
  /\ serving = TRUE
  /\ online = {}
  /\ user = [p \in Peers |-> None]
  /\ room = [p \in Peers |-> None]

Connect(p) ==
  /\ p \notin online
  /\ online' = online \cup {p}
  /\ UNCHANGED <<serving, user, room>>

\* A peer takes its user name once, and nobody else has it.
Register(p, u) ==
  /\ p \in online /\ user[p] = None
  /\ \A q \in online : user[q] # u
  /\ user' = [user EXCEPT ![p] = u]
  /\ UNCHANGED <<serving, online, room>>

InLobby(p) == p \in online /\ user[p] # None /\ room[p] = None

\* A chatroom is opened under a name that no open chatroom has.
Open(p, name) ==
  /\ InLobby(p)
  /\ Occupants(name) = {}
  /\ room' = [room EXCEPT ![p] = name]
  /\ UNCHANGED <<serving, online, user>>

\* A capacity of 0 limits nothing.
HasPlace(name) == Capacity = 0 \/ Cardinality(Occupants(name)) < Capacity

\* Only an open chatroom with a free place can be entered.
Enter(p, name) ==
  /\ InLobby(p)
  /\ Occupants(name) # {}
  /\ HasPlace(name)
  /\ room' = [room EXCEPT ![p] = name]
  /\ UNCHANGED <<serving, online, user>>

Leave(p) ==
  /\ p \in online /\ room[p] # None
  /\ room' = [room EXCEPT ![p] = None]
  /\ UNCHANGED <<serving, online, user>>

Disconnect(p) ==
  /\ p \in online
  /\ online' = online \ {p}
  /\ user' = [user EXCEPT ![p] = None]
  /\ room' = [room EXCEPT ![p] = None]
  /\ UNCHANGED serving

\* The server ends: everybody is cut off.
Stop ==
  /\ serving' = FALSE
  /\ online' = {}
  /\ user' = [p \in Peers |-> None]
  /\ room' = [p \in Peers |-> None]

Next ==
  /\ serving
  /\ \/ Stop
     \/ \E p \in Peers :
          \/ Connect(p) \/ Leave(p) \/ Disconnect(p)
          \/ \E u \in Usernames : Register(p, u)
          \/ \E name \in Names : Open(p, name) \/ Enter(p, name)

Spec == Init /\ [][Next]_vars

=============================================================================
