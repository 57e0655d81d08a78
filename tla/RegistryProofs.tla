--------------------------- MODULE RegistryProofs ---------------------------
(***************************************************************************)
(* What the main broker's maps promise, for every value of the constants:  *)
(* they agree with each other and no chatroom is over its capacity; a      *)
(* listed client's write task still holds the receivers of its channels;   *)
(* and the server implements the directory of users and chatrooms.  The    *)
(* steps that matter are the broker's; the other tasks leave the maps      *)
(* alone.                                                                  *)
(***************************************************************************)
EXTENDS TypeProofs, FiniteSetTheorems

(***************************************************************************)
(* The maps agree                                                          *)
(***************************************************************************)

\* A chatroom id that is not minted yet is in no map.
UnbornUnlisted == \A r \in Rooms : room_pc[r] = "unborn" => r \notin chatroom_brokers

\* The inductive invariant: RegistryInv needs the types, and needs to know that
\* a new chatroom's id is in no map yet.
RegistryIInv == TypeOK /\ RegistryInv /\ UnbornUnlisted

\* What RegistryInv reads.
registry_vars ==
  <<clients, username, client_usernames, chatroom_broker_id, chatroom_brokers,
    chatroom_name, num_clients, chatroom_name_to_id>>

-----------------------------------------------------------------------------
(* Counting                                                                *)

\* The members of a chatroom can be counted.
LEMMA MembersFinite ==
  ASSUME TypeOK, NEW r
  PROVE  IsFiniteSet(Members(r)) /\ Cardinality(Members(r)) \in Nat
<1>1. Members(r) \in SUBSET Peers
  BY DEF Members, TypeOK
<1>2. IsFiniteSet(Members(r))
  BY <1>1, PeersAssumption, FS_Subset
<1> QED
  BY <1>2, FS_CardinalityType

\* A chatroom is listed exactly if it has a member.
LEMMA ListedHasMember ==
  ASSUME TypeOK, CountsAgree, NEW r \in Rooms
  PROVE  r \in chatroom_brokers <=> Members(r) # {}
<1>1. num_clients[r] = Cardinality(Members(r)) /\ IsFiniteSet(Members(r))
      /\ Cardinality(Members(r)) \in Nat
  BY MembersFinite DEF CountsAgree
<1>2. Cardinality(Members(r)) = 0 <=> Members(r) = {}
  BY <1>1, FS_EmptySet
<1> QED
  BY <1>1, <1>2 DEF CountsAgree

-----------------------------------------------------------------------------
(* Leaving and entering a chatroom                                         *)

\* Client p leaves its chatroom r: counts and names agree again.
LEMMA LeaveRoomAgrees ==
  ASSUME TypeOK, CountsAgree, NamesAgree, NEW p \in clients, NEW r \in Rooms,
         chatroom_broker_id[p] = r, LeaveRoom(r),
         \A s \in Rooms : Members(s)' = Members(s) \ {p}
  PROVE  CountsAgree' /\ NamesAgree'
<1>1. ASSUME NEW s \in Rooms
      PROVE  Cardinality(Members(s)') =
               IF s = r THEN Cardinality(Members(s)) - 1 ELSE Cardinality(Members(s))
  <2>1. p \in Members(s) <=> s = r
    BY DEF Members
  <2> QED
    BY <2>1, MembersFinite, FS_RemoveElement
<1>2. CountsAgree'
  <2>1. ASSUME NEW s \in Rooms
        PROVE  num_clients'[s] = Cardinality(Members(s)')
    BY <1>1 DEF LeaveRoom, CountsAgree, TypeOK
  <2>2. ASSUME NEW s \in Rooms
        PROVE  s \in chatroom_brokers' <=> num_clients'[s] > 0
    <3>1. num_clients[s] \in Nat /\ (s \in chatroom_brokers <=> num_clients[s] > 0)
      BY DEF CountsAgree, TypeOK
    <3>2. r \in chatroom_brokers
      <4>1. p \in Members(r)
        BY DEF Members
      <4> QED
        BY <4>1, ListedHasMember
    <3>3. num_clients[r] \in Nat /\ num_clients[r] > 0
      BY <3>2 DEF CountsAgree, TypeOK
    <3>4. num_clients'[s] = IF s = r THEN num_clients[s] - 1 ELSE num_clients[s]
      BY DEF LeaveRoom, TypeOK
    <3> QED
      BY <3>1, <3>3, <3>4 DEF LeaveRoom
  <2> QED
    BY <2>1, <2>2 DEF CountsAgree
<1>3. NamesAgree'
  <2>1. CASE num_clients[r] # 1
    BY <2>1 DEF LeaveRoom, NamesAgree
  <2>2. CASE num_clients[r] = 1
    <3>1. \A s \in chatroom_brokers \ {r} : chatroom_name[s] # chatroom_name[r]
      <4>1. r \in chatroom_brokers
        BY <2>2 DEF CountsAgree
      <4> QED
        BY <4>1 DEF NamesAgree
    <3>2. /\ chatroom_brokers' = chatroom_brokers \ {r}
          /\ chatroom_name_to_id' =
               [chatroom_name_to_id EXCEPT ![chatroom_name[r]] = NoRoom]
          /\ chatroom_name' = chatroom_name
      BY <2>2 DEF LeaveRoom
    <3> QED
      BY <3>1, <3>2 DEF NamesAgree, TypeOK
  <2> QED
    BY <2>1, <2>2
<1> QED
  BY <1>2, <1>3

\* Client p, in the lobby so far, is put in chatroom r.
LEMMA MembersEnter ==
  ASSUME TypeOK, NEW p \in clients, chatroom_broker_id[p] = NoRoom, NEW r \in Rooms,
         clients' = clients,
         chatroom_broker_id' = [chatroom_broker_id EXCEPT ![p] = r],
         NEW s \in Rooms
  PROVE  Cardinality(Members(s)') =
           IF s = r THEN Cardinality(Members(s)) + 1 ELSE Cardinality(Members(s))
<1>1. p \notin Members(s)
  BY DEF Members, NoRoom, Rooms
<1>2. Members(s)' = IF s = r THEN Members(s) \cup {p} ELSE Members(s)
  <2>1. /\ p \in Peers /\ clients \subseteq Peers /\ r # NoRoom
        /\ \A q \in Peers :
             chatroom_broker_id'[q] = IF q = p THEN r ELSE chatroom_broker_id[q]
    BY DEF TypeOK, NoRoom, Rooms
  <2>2. \A q \in clients :
          chatroom_broker_id'[q] = s <=> chatroom_broker_id[q] = s \/ (q = p /\ s = r)
    BY <2>1 DEF NoRoom, Rooms
  <2> QED
    BY <2>2 DEF Members
<1> QED
  BY <1>1, <1>2, MembersFinite, FS_AddElement

-----------------------------------------------------------------------------
(* The broker's actions                                                    *)

\* A broker that ends drops its maps: empty maps agree.
LEMMA BrokerFailsAgrees ==
  ASSUME TypeOK, UnbornUnlisted, NEW reason, BrokerFails(reason)
  PROVE  RegistryInv' /\ UnbornUnlisted'
<1>1. CountsAgree'
  <2>1. ASSUME NEW r \in Rooms
        PROVE  Members(r)' = {} /\ num_clients'[r] = 0 /\ r \notin chatroom_brokers'
    BY DEF Members, BrokerFails
  <2> QED
    BY <2>1, FS_EmptySet DEF CountsAgree
<1>2. NamesAgree'
  BY DEF BrokerFails, NamesAgree
<1>3. UsernamesAgree'
  BY DEF BrokerFails, UsernamesAgree
<1> QED
  BY <1>1, <1>2, <1>3 DEF RegistryInv, UnbornUnlisted, BrokerFails

\* A step that leaves the maps alone and mints no chatroom keeps the invariant.
LEMMA UntouchedAgrees ==
  ASSUME RegistryInv, UnbornUnlisted, UNCHANGED registry_vars,
         \A r \in Rooms : room_pc'[r] = "unborn" => room_pc[r] = "unborn"
  PROVE  RegistryInv' /\ UnbornUnlisted'
  BY DEF registry_vars, RegistryInv, CountsAgree, NamesAgree, UsernamesAgree,
     UnbornUnlisted, Members

\* Forgetting client p, its name and its place keeps the names apart.
LEMMA ForgetUsername ==
  ASSUME TypeOK, UsernamesAgree, NEW p \in clients,
         clients' = clients \ {p},
         username' = [username EXCEPT ![p] = None],
         client_usernames' = client_usernames \ {username[p]},
         chatroom_broker_id' = [chatroom_broker_id EXCEPT ![p] = NoRoom]
  PROVE  UsernamesAgree'
<1>1. p \in Peers /\ \A q \in Peers : q # p => username'[q] = username[q]
  BY DEF TypeOK
<1>2. client_usernames' = {username'[q] : q \in clients'} \ {None}
  <2>1. ASSUME NEW u
        PROVE  u \in client_usernames' <=> u \in {username'[q] : q \in clients'} \ {None}
    <3>1. ASSUME u \in client_usernames'
          PROVE  \E q \in clients' : u = username'[q] /\ u # None
      <4>1. PICK q \in clients : u = username[q] /\ u # None /\ u # username[p]
        BY <3>1 DEF UsernamesAgree
      <4> QED
        BY <1>1, <4>1 DEF TypeOK
    <3>2. ASSUME NEW q \in clients', u = username'[q], u # None
          PROVE  u \in client_usernames'
      <4>1. q \in clients /\ q # p /\ u = username[q]
        BY <1>1, <3>2 DEF TypeOK
      <4>2. u # username[p]
        BY <3>2, <4>1 DEF UsernamesAgree
      <4> QED
        BY <3>2, <4>1, <4>2 DEF UsernamesAgree
    <3> QED
      BY <3>1, <3>2
  <2> QED
    BY <2>1
<1>3. \A q, q2 \in clients' :
        username'[q] # None /\ username'[q] = username'[q2] => q = q2
  BY <1>1 DEF UsernamesAgree, TypeOK
<1>4. \A q \in Peers :
        /\ q \notin clients' => username'[q] = None /\ chatroom_broker_id'[q] = NoRoom
        /\ chatroom_broker_id'[q] # NoRoom => username'[q] # None
  BY <1>1 DEF UsernamesAgree, TypeOK
<1> QED
  BY <1>2, <1>3, <1>4 DEF UsernamesAgree

\* Harvesting and the exit of a client.
LEMMA HarvestAgrees ==
  ASSUME RegistryIInv, HarvestClient \/ HarvestRoom \/ ClientExit
  PROVE  RegistryInv' /\ UnbornUnlisted'
<1> USE DEF RegistryIInv, RegistryInv
<1>1. CASE HarvestClient
  <2> DEFINE p == Head(client_disconnection)
             r == chatroom_broker_id[p]
  <2>1. CASE ~ClientIsListed(p)
    BY <1>1, <2>1, BrokerFailsAgrees DEF HarvestClient
  <2>2. CASE ClientIsListed(p)
    <3>1. /\ p \in clients /\ p \in Peers
          /\ clients' = clients \ {p}
          /\ username' = [username EXCEPT ![p] = None]
          /\ client_usernames' = client_usernames \ {username[p]}
          /\ chatroom_broker_id' = [chatroom_broker_id EXCEPT ![p] = NoRoom]
          /\ UNCHANGED room_pc
          /\ IF r = NoRoom THEN UNCHANGED room_vars ELSE LeaveRoom(r)
      BY <1>1, <2>2 DEF HarvestClient, ClientIsListed, TypeOK
    <3>2. r \in RoomOrNone
      BY <3>1 DEF TypeOK
    <3> HIDE DEF p
    <3>3. UsernamesAgree'
      BY <3>1, ForgetUsername
    <3>4. \A s \in Rooms : Members(s)' = Members(s) \ {p}
      BY <3>1 DEF Members, TypeOK
    <3>5. CountsAgree' /\ NamesAgree'
      <4>1. CASE r = NoRoom
        <5>1. \A s \in Rooms : Members(s)' = Members(s)
          BY <3>4, <4>1 DEF Members, Rooms, NoRoom
        <5>2. UNCHANGED room_vars
          BY <3>1, <4>1
        <5> QED
          BY <5>1, <5>2 DEF room_vars, CountsAgree, NamesAgree
      <4>2. CASE r # NoRoom
        <5>1. r \in Rooms /\ LeaveRoom(r)
          BY <3>1, <3>2, <4>2 DEF RoomOrNone
        <5> QED
          BY <3>1, <3>4, <5>1, LeaveRoomAgrees
      <4> QED
        BY <4>1, <4>2
    <3>6. chatroom_brokers' \subseteq chatroom_brokers
      BY <3>1 DEF LeaveRoom, room_vars
    <3> QED
      BY <3>1, <3>3, <3>5, <3>6 DEF UnbornUnlisted
  <2> QED
    BY <2>1, <2>2
<1>2. CASE HarvestRoom
  <2> DEFINE r == Head(disconnected_sub_broker)
  <2>1. CASE r \in chatroom_brokers
    BY <1>2, <2>1, BrokerFailsAgrees DEF HarvestRoom
  <2>2. CASE r \notin chatroom_brokers
    <3>1. /\ UNCHANGED registry_vars
          /\ room_pc' = [room_pc EXCEPT ![r] = "harvested"]
      BY <1>2, <2>2 DEF HarvestRoom, registry, client_vars, room_vars, registry_vars
    <3>2. \A s \in Rooms : room_pc'[s] = "unborn" => room_pc[s] = "unborn"
      BY <3>1 DEF TypeOK
    <3> QED
      BY <3>1, <3>2, UntouchedAgrees
  <2> QED
    BY <2>1, <2>2
<1>3. CASE ClientExit
  <2> DEFINE p == Head(client_exit)
             r == chatroom_broker_id[p]
  <2>1. CASE p \notin clients
    BY <1>3, <2>1, BrokerFailsAgrees DEF ClientExit
  <2>2. CASE p \in clients /\ (r = NoRoom \/ ~RoomIsListed(r))
    BY <1>3, <2>2, BrokerFailsAgrees DEF ClientExit
  <2>3. CASE p \in clients /\ ~(r = NoRoom \/ ~RoomIsListed(r))
    <3>1. /\ p \in clients /\ p \in Peers /\ r \in Rooms
          /\ UNCHANGED <<clients, username, client_usernames, room_pc>>
          /\ chatroom_broker_id' = [chatroom_broker_id EXCEPT ![p] = NoRoom]
          /\ LeaveRoom(r)
      BY <1>3, <2>3 DEF ClientExit, client_vars, RoomOrNone, TypeOK
    <3> HIDE DEF p
    <3>2. UsernamesAgree'
      BY <3>1 DEF UsernamesAgree, TypeOK
    <3>3. \A s \in Rooms : Members(s)' = Members(s) \ {p}
      <4>1. \A s \in Rooms : s # NoRoom
        BY DEF Rooms, NoRoom
      <4>2. ASSUME NEW s \in Rooms, NEW q \in clients
            PROVE  chatroom_broker_id'[q] = s <=> chatroom_broker_id[q] = s /\ q # p
        BY <3>1, <4>1 DEF TypeOK
      <4> QED
        BY <3>1, <4>2 DEF Members
    <3>4. CountsAgree' /\ NamesAgree'
      BY <3>1, <3>3, LeaveRoomAgrees
    <3>5. chatroom_brokers' \subseteq chatroom_brokers
      BY <3>1 DEF LeaveRoom
    <3> QED
      BY <3>1, <3>2, <3>4, <3>5 DEF UnbornUnlisted
  <2> QED
    BY <2>1, <2>2, <2>3
<1> QED
  BY <1>1, <1>2, <1>3

\* The handlers of the lobby's events: a new client, a new user name.
LEMMA AnswerAgrees ==
  ASSUME RegistryIInv, NewClient \/ QuitEvent \/ Lobby \/ ReadSync \/ Username
  PROVE  RegistryInv' /\ UnbornUnlisted'
<1> USE DEF RegistryIInv
<1>1. CASE NewClient
  <2> DEFINE p == Head(events).peer_id
  <2>1. /\ p \notin clients
        /\ clients' = clients \cup {p}
        /\ UNCHANGED <<username, client_usernames, chatroom_broker_id, room_vars, room_pc>>
    BY <1>1 DEF NewClient, Takes, Acceptable
  <2> HIDE DEF p
  <2>2. p \in Peers
    <3>1. Head(events) \in Event
      BY <1>1 DEF NewClient, Takes, TypeOK
    <3> QED
      BY <3>1, EventParts DEF p
  <2>3. username[p] = None /\ chatroom_broker_id[p] = NoRoom
    BY <2>1, <2>2 DEF RegistryInv, UsernamesAgree
  <2>4. UsernamesAgree'
    <3>1. {username[q] : q \in clients'} \ {None} = {username[q] : q \in clients} \ {None}
      BY <2>1, <2>3
    <3> QED
      BY <2>1, <2>3, <3>1 DEF RegistryInv, UsernamesAgree
  <2>5. \A r \in Rooms : Members(r)' = Members(r)
    BY <2>1, <2>3 DEF Members, Rooms, NoRoom
  <2>6. CountsAgree' /\ NamesAgree'
    BY <2>1, <2>5 DEF RegistryInv, room_vars, CountsAgree, NamesAgree
  <2> QED
    BY <2>1, <2>4, <2>6 DEF RegistryInv, room_vars, UnbornUnlisted
<1>2. CASE Username
  <2> DEFINE p == Head(events).peer_id
             new_username == Head(events).arg
  <2>1. /\ p \in clients /\ username[p] = None /\ chatroom_broker_id[p] = NoRoom
        /\ UNCHANGED <<clients, chatroom_broker_id, room_vars, room_pc>>
    BY <1>2 DEF Username, Takes, Acceptable, MayTakeUsername, OnlyAnswers
  <2>2. new_username \in Usernames
    <3>1. Head(events) \in Event
      BY <1>2 DEF Username, Takes, TypeOK
    <3> QED
      BY <1>2, <3>1, EventParts DEF Username, Takes
  <2>3. CASE new_username \in client_usernames
    <3>1. UNCHANGED registry_vars /\ UNCHANGED room_pc
      BY <1>2, <2>1, <2>3 DEF Username, room_vars, registry_vars
    <3> QED
      BY <3>1, UntouchedAgrees
  <2>4. CASE new_username \notin client_usernames
    <3>1. /\ username' = [username EXCEPT ![p] = new_username]
          /\ client_usernames' = client_usernames \cup {new_username}
      BY <1>2, <2>4 DEF Username
    <3> HIDE DEF p, new_username
    <3>2. /\ p \in Peers /\ username'[p] = new_username /\ new_username # None
          /\ \A q \in Peers : q # p => username'[q] = username[q]
      BY <2>1, <2>2, <3>1, NoneAssumption DEF TypeOK
    <3>3. client_usernames' = {username'[q] : q \in clients'} \ {None}
      <4>1. ASSUME NEW u \in client_usernames'
            PROVE  u # None /\ \E q \in clients' : u = username'[q]
        BY <2>1, <3>1, <3>2 DEF RegistryInv, UsernamesAgree, TypeOK
      <4>2. ASSUME NEW q \in clients', username'[q] # None
            PROVE  username'[q] \in client_usernames'
        BY <2>1, <3>1, <3>2, <4>2 DEF RegistryInv, UsernamesAgree, TypeOK
      <4> QED
        BY <4>1, <4>2
    <3>4. \A q \in clients : q # p => username[q] # new_username
      BY <2>4, <3>2 DEF RegistryInv, UsernamesAgree
    <3>5. UsernamesAgree'
      <4>1. ASSUME NEW q \in clients', NEW q2 \in clients',
                   username'[q] # None, username'[q] = username'[q2]
            PROVE  q = q2
        <5>1. q \in clients /\ q2 \in clients /\ q \in Peers /\ q2 \in Peers
          BY <2>1 DEF TypeOK
        <5>2. CASE q # p /\ q2 # p
          BY <3>2, <4>1, <5>1, <5>2 DEF RegistryInv, UsernamesAgree
        <5>3. CASE q = p \/ q2 = p
          BY <3>2, <3>4, <4>1, <5>1, <5>3
        <5> QED
          BY <5>2, <5>3
      <4>2. \A q \in Peers :
              /\ q \notin clients' => username'[q] = None /\ chatroom_broker_id'[q] = NoRoom
              /\ chatroom_broker_id'[q] # NoRoom => username'[q] # None
        BY <2>1, <3>2 DEF RegistryInv, UsernamesAgree
      <4> QED
        BY <3>3, <4>1, <4>2 DEF UsernamesAgree
    <3>6. CountsAgree' /\ NamesAgree'
      BY <2>1 DEF RegistryInv, room_vars, CountsAgree, NamesAgree, Members
    <3> QED
      BY <2>1, <3>5, <3>6 DEF RegistryInv, room_vars, UnbornUnlisted
  <2> QED
    BY <2>3, <2>4
<1>3. CASE QuitEvent \/ Lobby \/ ReadSync
  <2>1. UNCHANGED registry_vars /\ UNCHANGED room_pc
    BY <1>3 DEF QuitEvent, Lobby, ReadSync, OnlyAnswers, client_vars, room_vars,
       registry_vars
  <2> QED
    BY <2>1, UntouchedAgrees
<1> QED
  BY <1>1, <1>2, <1>3

\* Client p enters chatroom r: with the room's count one higher, the counts
\* agree, and so do the user names.
LEMMA EnterAgrees ==
  ASSUME RegistryIInv, NEW p \in clients, username[p] # None,
         chatroom_broker_id[p] = NoRoom, NEW r \in Rooms,
         chatroom_broker_id' = [chatroom_broker_id EXCEPT ![p] = r],
         UNCHANGED client_vars,
         num_clients' = [num_clients EXCEPT ![r] = num_clients[r] + 1],
         chatroom_brokers' = chatroom_brokers \cup {r}
  PROVE  CountsAgree' /\ UsernamesAgree'
<1>1. clients' = clients /\ p \in Peers
  BY DEF client_vars, RegistryIInv, TypeOK
<1>2. CountsAgree'
  <2>1. ASSUME NEW s \in Rooms
        PROVE  /\ num_clients'[s] = Cardinality(Members(s)')
               /\ s \in chatroom_brokers' <=> num_clients'[s] > 0
    <3>1. Cardinality(Members(s)') =
            IF s = r THEN Cardinality(Members(s)) + 1 ELSE Cardinality(Members(s))
      BY <1>1, MembersEnter DEF RegistryIInv
    <3>2. /\ num_clients[s] \in Nat
          /\ num_clients[s] = Cardinality(Members(s))
          /\ s \in chatroom_brokers <=> num_clients[s] > 0
      BY DEF RegistryIInv, RegistryInv, CountsAgree, TypeOK
    <3>3. num_clients'[s] = IF s = r THEN num_clients[s] + 1 ELSE num_clients[s]
      BY DEF RegistryIInv, TypeOK
    <3> QED
      BY <3>1, <3>2, <3>3
  <2> QED
    BY <2>1 DEF CountsAgree
<1>3. UsernamesAgree'
  BY <1>1 DEF client_vars, RegistryIInv, RegistryInv, UsernamesAgree, TypeOK
<1> QED
  BY <1>2, <1>3

\* Creating and joining a chatroom.
LEMMA ChatroomAgrees ==
  ASSUME RegistryIInv, Create \/ Join
  PROVE  RegistryInv' /\ UnbornUnlisted'
<1> USE DEF RegistryIInv
<1> DEFINE p == Head(events).peer_id
           name == Head(events).arg
<1>1. /\ p \in clients /\ username[p] # None /\ chatroom_broker_id[p] = NoRoom
      /\ name \in Names
  <2>1. Head(events) \in Event /\ Head(events).kind \in {"Create", "Join"}
    BY DEF Create, Join, Takes, TypeOK
  <2>2. Acceptable(Head(events))
    BY DEF Create, Join, Takes
  <2> QED
    BY <2>1, <2>2, EventParts DEF Acceptable, MayEnter
<1>2. ASSUME NEW kind, Refuse(kind)
      PROVE  RegistryInv' /\ UnbornUnlisted'
  <2>1. UNCHANGED registry_vars /\ UNCHANGED room_pc
    BY <1>2 DEF Refuse, OnlyAnswers, client_vars, room_vars, registry_vars
  <2> QED
    BY <2>1, UntouchedAgrees
<1>3. ASSUME NEW reason, BrokerFails(reason)
      PROVE  RegistryInv' /\ UnbornUnlisted'
  BY <1>3, BrokerFailsAgrees
<1>4. CASE Create
  <2>1. ASSUME chatroom_name_to_id[name] = NoRoom,
               NEW r \in Rooms, IsFresh(r),
               room_pc' = [room_pc EXCEPT ![r] = "running"],
               chatroom_brokers' = chatroom_brokers \cup {r},
               chatroom_name' = [chatroom_name EXCEPT ![r] = name],
               num_clients' = [num_clients EXCEPT ![r] = 1],
               chatroom_name_to_id' = [chatroom_name_to_id EXCEPT ![name] = r],
               Admit(p, r, Plain("ChatroomCreated"))
        PROVE  RegistryInv' /\ UnbornUnlisted'
    <3> HIDE DEF p, name
    <3>1. r \notin chatroom_brokers
      BY <2>1 DEF IsFresh, UnbornUnlisted
    <3>2. num_clients[r] = 0
      BY <3>1 DEF RegistryInv, CountsAgree, TypeOK
    <3>3. CountsAgree' /\ UsernamesAgree'
      <4>1. num_clients' = [num_clients EXCEPT ![r] = num_clients[r] + 1]
        BY <2>1, <3>2
      <4> QED
        BY <1>1, <2>1, <4>1, EnterAgrees DEF Admit
    <3>4. NamesAgree'
      <4>1. r # NoRoom
        BY DEF Rooms, NoRoom
      <4>2. \A s \in chatroom_brokers : s # r /\ chatroom_name[s] # name
        BY <2>1, <3>1 DEF RegistryInv, NamesAgree, NoRoom, Rooms, TypeOK
      <4>3. ASSUME NEW s \in chatroom_brokers'
            PROVE  /\ chatroom_name'[s] \in Names
                   /\ chatroom_name_to_id'[chatroom_name'[s]] = s
        BY <1>1, <2>1, <4>2 DEF RegistryInv, NamesAgree, TypeOK
      <4>4. ASSUME NEW n \in Names, chatroom_name_to_id'[n] # NoRoom
            PROVE  /\ chatroom_name_to_id'[n] \in chatroom_brokers'
                   /\ chatroom_name'[chatroom_name_to_id'[n]] = n
        BY <1>1, <2>1, <4>2, <4>4 DEF RegistryInv, NamesAgree, TypeOK
      <4> QED
        BY <4>3, <4>4 DEF NamesAgree
    <3>5. UnbornUnlisted'
      BY <2>1 DEF UnbornUnlisted, TypeOK
    <3> QED
      BY <3>3, <3>4, <3>5 DEF RegistryInv
  <2> QED
    BY <1>2, <1>3, <1>4, <2>1 DEF Create
<1>5. CASE Join
  <2> DEFINE r == chatroom_name_to_id[name]
  <2>1. ASSUME r # NoRoom,
               num_clients' = [num_clients EXCEPT ![r] = @ + 1],
               Admit(p, r, Plain("Subscribed")),
               UNCHANGED <<room_pc, chatroom_brokers, chatroom_name,
                           chatroom_name_to_id>>
        PROVE  RegistryInv' /\ UnbornUnlisted'
    <3>1. r \in chatroom_brokers /\ r \in Rooms
      BY <1>1, <2>1 DEF RegistryInv, NamesAgree, TypeOK
    <3> HIDE DEF p, r
    <3>2. CountsAgree' /\ UsernamesAgree'
      <4>1. chatroom_brokers' = chatroom_brokers \cup {r}
        BY <2>1, <3>1
      <4> QED
        BY <1>1, <2>1, <3>1, <4>1, EnterAgrees DEF Admit
    <3> QED
      BY <2>1, <3>2 DEF RegistryInv, NamesAgree, UnbornUnlisted
  <2> QED
    BY <1>2, <1>3, <1>5, <2>1 DEF Join
<1> QED
  BY <1>4, <1>5

-----------------------------------------------------------------------------
(* The theorems                                                            *)

\* The initial maps are empty, and empty maps agree.
LEMMA InitAgrees == Init => RegistryIInv
<1> SUFFICES ASSUME Init PROVE RegistryIInv
  OBVIOUS
<1>1. \A r \in Rooms : Members(r) = {}
  BY DEF Init, Members
<1>2. CountsAgree
  <2>1. ASSUME NEW r \in Rooms
        PROVE  Cardinality(Members(r)) = 0 /\ num_clients[r] = 0 /\ r \notin chatroom_brokers
    BY <1>1, FS_EmptySet DEF Init
  <2> QED
    BY <2>1 DEF CountsAgree
<1>3. NamesAgree
  BY DEF Init, NamesAgree
<1>4. UsernamesAgree
  BY DEF Init, UsernamesAgree
<1> QED
  BY <1>2, <1>3, <1>4, InitTypes DEF Init, RegistryIInv, RegistryInv, UnbornUnlisted

\* The steps of the other tasks neither touch the maps nor mint a chatroom.
LEMMA OthersUntouched ==
  ASSUME TypeOK,
         \/ \E p \in Peers : ReadNext(p) \/ WriteNext(p) \/ UserNext(p) \/ ProgramNext(p)
         \/ \E r \in Rooms : RoomNext(r)
         \/ UNCHANGED vars
  PROVE  /\ UNCHANGED registry
         /\ \A r \in Rooms : room_pc'[r] = "unborn" => room_pc[r] = "unborn"
<1>1. ASSUME NEW p \in Peers, ReadNext(p)
      PROVE  UNCHANGED <<registry, room_pc>>
  BY <1>1 DEF ReadNext, AcceptConnection, ResumeSend, FrameNext, ReadFrame, ReadFails,
     ChannelNext, NewChatroomChannel, ChatroomChannelClosed, ReadTaskOnly
<1>2. ASSUME NEW p \in Peers, WriteNext(p)
      PROVE  UNCHANGED <<registry, room_pc>>
  BY <1>2 DEF WriteNext, Shutdown, MainResponse, Subscription, BroadcastNext,
     ChatMessage, Lagged, WriteFails, WriteTaskOnly
<1>3. ASSUME NEW p \in Peers, UserNext(p)
      PROVE  UNCHANGED <<registry, room_pc>>
  BY <1>3 DEF UserNext, RequestUsername, RequestChatroom, RequestQuit, SendMessage,
     QuitChatroom, Kill, Request, UIOnly
<1>4. ASSUME NEW p \in Peers, ProgramNext(p)
      PROVE  UNCHANGED <<registry, room_pc>>
  BY <1>4 DEF ProgramNext, AskUsername, ShowLobby, AwaitConfirmation, EnterChatroom,
     ShowMessage, LeaveChatroom, SayGoodbye, RefreshLobby, UnexpectedResponse,
     ConnectionFails, Request, UIOnly
<1>5. ASSUME NEW r \in Rooms, RoomNext(r)
      PROVE  /\ UNCHANGED registry
             /\ \/ UNCHANGED room_pc
                \/ room_pc' = [room_pc EXCEPT ![r] = "ended"]
                \/ room_pc' = [room_pc EXCEPT ![r] = "harvested"]
  BY <1>5 DEF RoomNext, RoomEventNext, RoomMessage, RoomQuit, RoomShutdown, EndRoom,
     RoomOnly
<1>6. CASE UNCHANGED vars
  BY <1>6 DEF vars
<1> QED
  BY <1>1, <1>2, <1>3, <1>4, <1>5, <1>6 DEF TypeOK

\* Every step keeps the inductive invariant.
LEMMA NextAgrees == RegistryIInv /\ [Next]_vars => RegistryIInv'
<1> SUFFICES ASSUME RegistryIInv, [Next]_vars PROVE RegistryIInv'
  OBVIOUS
<1>1. TypeOK'
  BY NextTypes DEF RegistryIInv, RegistryInv
<1>2. CASE BrokerNext
  <2>1. ASSUME RejectEvent
        PROVE  RegistryInv' /\ UnbornUnlisted'
    BY <2>1, BrokerFailsAgrees DEF RejectEvent, RegistryIInv
  <2>2. RegistryInv' /\ UnbornUnlisted'
    BY <1>2, <2>1, HarvestAgrees, AnswerAgrees, ChatroomAgrees DEF BrokerNext, EventNext
  <2> QED
    BY <1>1, <2>2 DEF RegistryIInv
<1>3. CASE ~BrokerNext
  <2>1. /\ UNCHANGED registry
        /\ \A r \in Rooms : room_pc'[r] = "unborn" => room_pc[r] = "unborn"
    BY <1>3, OthersUntouched DEF Next, RegistryIInv
  <2>2. UNCHANGED registry_vars
    BY <2>1 DEF registry, client_vars, room_vars, registry_vars
  <2>3. RegistryInv' /\ UnbornUnlisted'
    BY <2>1, <2>2, UntouchedAgrees DEF RegistryIInv
  <2> QED
    BY <1>1, <2>3 DEF RegistryIInv
<1> QED
  BY <1>2, <1>3

\* The inductive invariant holds.
THEOREM RegistryInductive == Spec => []RegistryIInv
  BY InitAgrees, NextAgrees, PTL DEF Spec

\* Every variable of the system keeps its type (every task of server.rs and of
\* the client program).
THEOREM TypeCorrect == Spec => []TypeOK
<1>1. RegistryIInv => TypeOK
  BY DEF RegistryIInv
<1> QED
  BY <1>1, RegistryInductive, PTL

\* The main broker's five maps agree with one another after every event,
\* whatever the clients do and however their connections end (broker and the
\* handlers in server_handlers/mod.rs).
THEOREM RegistryAgrees == Spec => []RegistryInv
<1>1. RegistryIInv => RegistryInv
  BY DEF RegistryIInv
<1> QED
  BY <1>1, RegistryInductive, PTL

-----------------------------------------------------------------------------
(* Capacity                                                                *)

\* No step takes a chatroom over its capacity.  A chatroom whose count is below
\* the capacity may take one client, and a new one has one.
LEMMA NextCapacity ==
  ASSUME RegistryIInv, CapacityRespected, [Next]_vars
  PROVE  CapacityRespected'
<1> SUFFICES ASSUME Capacity # 0
             PROVE  CapacityRespected'
  BY DEF CapacityRespected
<1>1. /\ Capacity \in Nat /\ Capacity > 0
      /\ num_clients \in [Rooms -> Nat]
      /\ \A r \in Rooms : num_clients[r] <= Capacity
  BY CapacityAssumption DEF RegistryIInv, TypeOK, CapacityRespected
<1>2. ASSUME NEW reason, BrokerFails(reason)
      PROVE  CapacityRespected'
  BY <1>1, <1>2 DEF BrokerFails, CapacityRespected
<1>3. ASSUME UNCHANGED num_clients
      PROVE  CapacityRespected'
  BY <1>1, <1>3 DEF CapacityRespected
<1>4. ASSUME NEW r, LeaveRoom(r)
      PROVE  CapacityRespected'
  BY <1>1, <1>4 DEF LeaveRoom, CapacityRespected
<1>5. CASE HarvestClient \/ HarvestRoom \/ ClientExit
  BY <1>2, <1>3, <1>4, <1>5
     DEF HarvestClient, HarvestRoom, ClientExit, registry, room_vars
<1>6. CASE NewClient \/ QuitEvent \/ Lobby \/ ReadSync \/ Username \/ RejectEvent
  BY <1>2, <1>3, <1>6
     DEF NewClient, QuitEvent, Lobby, ReadSync, Username, RejectEvent, room_vars
<1>7. CASE Create
  <2>1. ASSUME NEW r \in Rooms, num_clients' = [num_clients EXCEPT ![r] = 1]
        PROVE  CapacityRespected'
    BY <1>1, <2>1 DEF CapacityRespected
  <2> QED
    BY <1>2, <1>3, <1>7, <2>1 DEF Create, Refuse, room_vars
<1>8. CASE Join
  <2>1. ASSUME NEW r, num_clients[r] # Capacity,
               num_clients' = [num_clients EXCEPT ![r] = @ + 1]
        PROVE  CapacityRespected'
    BY <1>1, <2>1 DEF CapacityRespected
  <2> QED
    BY <1>2, <1>3, <1>8, <2>1 DEF Join, Refuse, room_vars
<1>9. CASE ~BrokerNext
  <2>1. UNCHANGED registry
    BY <1>9, OthersUntouched DEF Next, RegistryIInv
  <2> QED
    BY <1>3, <2>1 DEF registry, room_vars
<1> QED
  BY <1>5, <1>6, <1>7, <1>8, <1>9 DEF BrokerNext, EventNext

\* No chatroom ever holds more clients than its capacity, if that is not 0
\* (handle_join_event tests for equality only).
THEOREM NeverOverCapacity == Spec => []CapacityRespected
<1>1. Init => CapacityRespected
  BY CapacityAssumption DEF Init, CapacityRespected
<1>2. RegistryIInv /\ CapacityRespected /\ [Next]_vars => CapacityRespected'
  BY NextCapacity
<1> QED
  BY <1>1, <1>2, RegistryInductive, PTL DEF Spec

-----------------------------------------------------------------------------
(***************************************************************************)
(* Who outlives whom: a client in the main broker's map has a write task   *)
(* that holds the receivers of its channels, or the notice with them is    *)
(* waiting to be harvested, exactly once.                                  *)
(***************************************************************************)

\* A write task runs for a client in the map only; a broker that has ended
\* holds no client and no notice.
WritersListed ==
  /\ BrokerRunning => \A p \in Peers : write_pc[p] = "running" => p \in clients
  /\ ~BrokerRunning => clients = {} /\ client_disconnection = <<>>

\* The inductive invariant: with ClientsOutlived alone a write task might end
\* whose client the broker has forgotten, and leave a second notice.
TasksIInv == ClientsOutlived /\ WritersListed

\* What TasksIInv reads.
task_vars == <<broker_pc, clients, write_pc, client_disconnection>>

-----------------------------------------------------------------------------

\* A step that leaves the map, the tasks and the notices alone keeps it.
LEMMA UntouchedOutlived ==
  ASSUME TasksIInv, UNCHANGED task_vars
  PROVE  TasksIInv'
  BY DEF TasksIInv, ClientsOutlived, WritersListed, BrokerRunning, task_vars

\* So does a broker that ends: no client is left.
LEMMA BrokerFailsOutlived ==
  ASSUME TypeOK, TasksIInv, NEW reason \in BrokerErrors, BrokerFails(reason)
  PROVE  TasksIInv'
<1>1. /\ clients' = {} /\ client_disconnection' = <<>>
      /\ broker_pc' # "running"
  BY DEF BrokerFails, BrokerErrors
<1>2. ClientsOutlived'
  BY <1>1 DEF ClientsOutlived
<1>3. WritersListed'
  BY <1>1 DEF WritersListed, BrokerRunning
<1> QED
  BY <1>2, <1>3 DEF TasksIInv

\* A write task that ends leaves the one notice of its client.
LEMMA EndWriteOutlived ==
  ASSUME TypeOK, TasksIInv, NEW p \in Peers, Writing(p), EndWrite(p),
         UNCHANGED <<broker_pc, clients>>
  PROVE  TasksIInv'
<1>1. /\ write_pc' = [write_pc EXCEPT ![p] = "done"]
      /\ write_pc[p] = "running"
      /\ \A q \in Peers : q # p => write_pc'[q] = write_pc[q]
  BY DEF EndWrite, Writing, TypeOK
<1>2. CASE BrokerRunning
  <2> DEFINE q == client_disconnection
             n == Len(q)
  <2>1. q \in Seq(Peers) /\ q' = Append(q, p) /\ p \in clients
    BY <1>1, <1>2 DEF EndWrite, TasksIInv, WritersListed, TypeOK
  <2>2. /\ n \in Nat /\ DOMAIN q = 1 .. n
        /\ DOMAIN q' = 1 .. n + 1
        /\ q'[n + 1] = p
        /\ \A i \in 1 .. n : q'[i] = q[i]
    BY <2>1
  <2>3. \A i \in 1 .. n : q[i] \in clients /\ q[i] # p /\ write_pc[q[i]] = "done"
    BY <1>1, <2>2 DEF TasksIInv, ClientsOutlived
  <2>4. ASSUME NEW c \in clients'
        PROVE  write_pc'[c] = "running" \/ \E i \in DOMAIN q' : q'[i] = c
    <3>1. c \in Peers /\ c \in clients
      BY <2>4 DEF TypeOK
    <3>2. CASE c = p
      BY <2>2, <3>2
    <3>3. CASE c # p /\ write_pc[c] = "running"
      BY <1>1, <3>1, <3>3
    <3>4. CASE \E i \in DOMAIN q : q[i] = c
      BY <2>2, <3>4
    <3> QED
      BY <3>1, <3>2, <3>3, <3>4 DEF TasksIInv, ClientsOutlived
  <2>5. ASSUME NEW i \in DOMAIN q'
        PROVE  /\ q'[i] \in clients' /\ write_pc'[q'[i]] = "done"
               /\ \A j \in DOMAIN q' : q'[i] = q'[j] => i = j
    <3>1. CASE i = n + 1
      <4>1. q'[i] = p /\ p \in clients' /\ write_pc'[p] = "done"
        BY <1>1, <2>1, <2>2, <3>1 DEF TypeOK
      <4>2. \A j \in 1 .. n + 1 : j # n + 1 => q'[j] # p
        BY <2>2, <2>3
      <4> QED
        BY <2>2, <3>1, <4>1, <4>2
    <3>2. CASE i \in 1 .. n
      <4>1. q'[i] = q[i] /\ q[i] \in clients /\ q[i] \in Peers /\ q[i] # p
        BY <2>2, <2>3, <3>2 DEF TypeOK
      <4>2. \A j \in 1 .. n : q[i] = q[j] => i = j
        BY <2>2, <3>2 DEF TasksIInv, ClientsOutlived
      <4> QED
        BY <1>1, <2>2, <2>3, <3>2, <4>1, <4>2
    <3> QED
      BY <2>2, <3>1, <3>2
  <2>6. ClientsOutlived'
    BY <2>4, <2>5 DEF ClientsOutlived
  <2>7. WritersListed'
    BY <1>1, <1>2 DEF TasksIInv, WritersListed, BrokerRunning
  <2> QED
    BY <2>6, <2>7 DEF TasksIInv
<1>3. CASE ~BrokerRunning
  <2>1. clients' = {} /\ client_disconnection' = <<>>
    BY <1>3 DEF EndWrite, TasksIInv, WritersListed
  <2>2. ClientsOutlived'
    BY <2>1 DEF ClientsOutlived
  <2>3. WritersListed'
    BY <1>3, <2>1 DEF WritersListed, BrokerRunning
  <2> QED
    BY <2>2, <2>3 DEF TasksIInv
<1> QED
  BY <1>2, <1>3

\* The broker harvests the first notice, and with it the client: no other
\* notice is of the same client.
LEMMA HarvestOutlived ==
  ASSUME TypeOK, TasksIInv, HarvestClient
  PROVE  TasksIInv'
<1> DEFINE q == client_disconnection
           n == Len(q)
           p == Head(q)
<1>1. CASE ~ClientIsListed(p)
  BY <1>1, BrokerFailsOutlived DEF HarvestClient, BrokerErrors
<1>2. CASE ClientIsListed(p)
  <2>1. /\ BrokerRunning /\ q # <<>> /\ q \in Seq(Peers) /\ q' = Tail(q)
        /\ clients' = clients \ {p}
        /\ UNCHANGED <<write_pc, broker_pc>>
    BY <1>2 DEF HarvestClient, write_vars, TypeOK
  <2>2. /\ n \in Nat /\ n > 0 /\ p = q[1] /\ DOMAIN q = 1 .. n
        /\ DOMAIN q' = 1 .. n - 1
        /\ \A i \in 1 .. n - 1 : q'[i] = q[i + 1]
    BY <2>1
  <2>3. \A i \in 1 .. n : i # 1 => q[i] # p
    BY <2>2 DEF TasksIInv, ClientsOutlived
  <2>4. write_pc[p] = "done"
    BY <2>2 DEF TasksIInv, ClientsOutlived
  <2>5. ASSUME NEW c \in clients', write_pc'[c] # "running"
        PROVE  \E i \in DOMAIN q' : q'[i] = c
    <3>1. PICK i \in DOMAIN q : q[i] = c
      BY <2>1, <2>5 DEF TasksIInv, ClientsOutlived
    <3>2. i # 1
      BY <2>1, <2>2, <2>5, <3>1
    <3>3. i - 1 \in 1 .. n - 1 /\ q'[i - 1] = c
      BY <2>2, <3>1, <3>2
    <3> QED
      BY <2>2, <3>3
  <2>6. ASSUME NEW i \in DOMAIN q'
        PROVE  /\ q'[i] \in clients' /\ write_pc'[q'[i]] = "done"
               /\ \A j \in DOMAIN q' : q'[i] = q'[j] => i = j
    <3>1. i + 1 \in 1 .. n /\ i + 1 # 1 /\ q'[i] = q[i + 1]
      BY <2>2
    <3>2. /\ q[i + 1] \in clients /\ write_pc[q[i + 1]] = "done"
          /\ \A j \in 1 .. n : q[i + 1] = q[j] => i + 1 = j
      BY <2>2, <3>1 DEF TasksIInv, ClientsOutlived
    <3>3. ASSUME NEW j \in DOMAIN q', q'[i] = q'[j]
          PROVE  i = j
      <4>1. j + 1 \in 1 .. n /\ q'[j] = q[j + 1] /\ j \in Nat /\ i \in Nat
        BY <2>2
      <4> QED
        BY <3>1, <3>2, <3>3, <4>1
    <3> QED
      BY <2>1, <2>3, <3>1, <3>2, <3>3
  <2>7. ClientsOutlived'
    BY <2>5, <2>6 DEF ClientsOutlived
  <2>8. WritersListed'
    BY <2>1, <2>4 DEF TasksIInv, WritersListed, BrokerRunning
  <2> QED
    BY <2>7, <2>8 DEF TasksIInv
<1> QED
  BY <1>1, <1>2

\* A new client gets its write task.
LEMMA NewClientOutlived ==
  ASSUME TypeOK, TasksIInv, NewClient
  PROVE  TasksIInv'
<1> DEFINE p == Head(events).peer_id
<1>1. /\ p \notin clients /\ BrokerRunning
      /\ clients' = clients \cup {p}
      /\ write_pc' = [write_pc EXCEPT ![p] = "running"]
      /\ UNCHANGED <<broker_pc, client_disconnection>>
  BY DEF NewClient, Takes, Acceptable, harvest_channels
<1> HIDE DEF p
<1>2. p \in Peers
  <2>1. Head(events) \in Event
    BY DEF NewClient, Takes, TypeOK
  <2> QED
    BY <2>1, EventParts DEF p
<1>3. /\ write_pc'[p] = "running"
      /\ \A c \in Peers : c # p => write_pc'[c] = write_pc[c]
  BY <1>1, <1>2 DEF TypeOK
<1>4. ClientsOutlived'
  <2>1. ASSUME NEW c \in clients'
        PROVE  write_pc'[c] = "running" \/ \E i \in DOMAIN client_disconnection' :
                                              client_disconnection'[i] = c
    BY <1>1, <1>2, <1>3 DEF TasksIInv, ClientsOutlived, TypeOK
  <2>2. ASSUME NEW i \in DOMAIN client_disconnection
        PROVE  /\ client_disconnection[i] \in clients'
               /\ write_pc'[client_disconnection[i]] = "done"
               /\ \A j \in DOMAIN client_disconnection :
                    client_disconnection[i] = client_disconnection[j] => i = j
    <3>1. /\ client_disconnection[i] \in clients
          /\ write_pc[client_disconnection[i]] = "done"
          /\ \A j \in DOMAIN client_disconnection :
               client_disconnection[i] = client_disconnection[j] => i = j
      BY DEF TasksIInv, ClientsOutlived
    <3>2. client_disconnection[i] # p /\ client_disconnection[i] \in Peers
      BY <1>1, <3>1 DEF TypeOK
    <3> QED
      BY <1>1, <1>3, <3>1, <3>2
  <2> QED
    BY <1>1, <2>1, <2>2 DEF ClientsOutlived
<1>5. WritersListed'
  BY <1>1, <1>3 DEF TasksIInv, WritersListed, BrokerRunning
<1> QED
  BY <1>4, <1>5 DEF TasksIInv

\* Every step keeps the inductive invariant.
LEMMA NextOutlived ==
  ASSUME TypeOK, TasksIInv, [Next]_vars
  PROVE  TasksIInv'
<1>1. ASSUME NEW reason \in BrokerErrors, BrokerFails(reason)
      PROVE  TasksIInv'
  BY <1>1, BrokerFailsOutlived
<1>2. ASSUME UNCHANGED task_vars
      PROVE  TasksIInv'
  BY <1>2, UntouchedOutlived
<1>3. /\ {"ExitOfUnknownClient", "Corrupt", "RoomStillInMap", "NoSuchClient",
          "IllegalEvent", "ReadTaskGone"} \subseteq BrokerErrors
  BY DEF BrokerErrors
<1> USE DEF registry, client_vars, write_vars, harvest_channels, task_vars
<1>4. CASE HarvestRoom \/ ClientExit \/ RejectEvent
  BY <1>1, <1>2, <1>3, <1>4 DEF HarvestRoom, ClientExit, RejectEvent
<1>5. CASE QuitEvent \/ Lobby \/ ReadSync \/ Username
  BY <1>2, <1>5 DEF QuitEvent, Lobby, ReadSync, Username, OnlyAnswers
<1>6. CASE Create
  BY <1>1, <1>2, <1>3, <1>6 DEF Create, Refuse, OnlyAnswers, Admit
<1>7. CASE Join
  BY <1>1, <1>2, <1>3, <1>7 DEF Join, Refuse, OnlyAnswers, Admit
<1>8. ASSUME NEW p \in Peers, WriteNext(p)
      PROVE  TasksIInv'
  <2>1. CASE Shutdown(p) \/ WriteFails(p)
    BY <2>1, EndWriteOutlived DEF Shutdown, WriteFails, WriteTaskOnly
  <2>2. CASE MainResponse(p) \/ Subscription(p) \/ BroadcastNext(p)
    BY <1>2, <2>2 DEF MainResponse, Subscription, BroadcastNext, ChatMessage, Lagged,
       WriteTaskOnly
  <2> QED
    BY <1>8, <2>1, <2>2 DEF WriteNext
<1>9. ASSUME NEW p \in Peers, ReadNext(p)
      PROVE  UNCHANGED task_vars
  BY <1>9 DEF ReadNext, AcceptConnection, ResumeSend, FrameNext, ReadFrame, ReadFails,
     ChannelNext, NewChatroomChannel, ChatroomChannelClosed, ReadTaskOnly
<1>10. ASSUME NEW p \in Peers, UserNext(p)
       PROVE  UNCHANGED task_vars
  BY <1>10 DEF UserNext, RequestUsername, RequestChatroom, RequestQuit, SendMessage,
     QuitChatroom, Kill, Request, UIOnly, channels
<1>11. ASSUME NEW p \in Peers, ProgramNext(p)
       PROVE  UNCHANGED task_vars
  BY <1>11 DEF ProgramNext, AskUsername, ShowLobby, AwaitConfirmation, EnterChatroom,
     ShowMessage, LeaveChatroom, SayGoodbye, RefreshLobby, UnexpectedResponse,
     ConnectionFails, Request, UIOnly, channels
<1>12. ASSUME NEW r \in Rooms, RoomNext(r)
       PROVE  UNCHANGED task_vars
  BY <1>12 DEF RoomNext, RoomEventNext, RoomMessage, RoomQuit, RoomShutdown, RoomOnly
<1>13. CASE UNCHANGED vars
  BY <1>2, <1>13 DEF vars, channels
<1> QED
  BY <1>2, <1>4, <1>5, <1>6, <1>7, <1>8, <1>9, <1>10, <1>11, <1>12, <1>13,
     HarvestOutlived, NewClientOutlived DEF Next, BrokerNext, EventNext

\* Whatever the tasks do, the map, the write tasks and the notices agree.
THEOREM TasksInductive == Spec => []TasksIInv
<1>1. Init => TasksIInv
  BY DEF Init, TasksIInv, ClientsOutlived, WritersListed, BrokerRunning
<1>2. TypeOK /\ TasksIInv /\ [Next]_vars => TasksIInv'
  BY NextOutlived
<1> QED
  BY <1>1, <1>2, TypeCorrect, PTL DEF Spec

\* A client in the map has a running write task or one waiting notice
\* (handle_new_client_event, broker): a send of the main broker to a client in
\* its map cannot find the channel closed.
THEOREM SendersNeverDangle == Spec => []ClientsOutlived
<1>1. TasksIInv => ClientsOutlived
  BY DEF TasksIInv
<1> QED
  BY <1>1, TasksInductive, PTL

-----------------------------------------------------------------------------
(***************************************************************************)
(* The server implements the directory of users and chatrooms, for every   *)
(* value of the constants.  Each step of the main broker is one step of    *)
(* the directory; the steps of the other tasks do not change it.           *)
(***************************************************************************)

\* What the steps below start from.
DirectoryIInv == RegistryIInv /\ CapacityRespected

\* What the directory reads.
dir_vars == <<broker_pc, registry_vars>>

\* The directory's rooms, as the main broker's maps give them.
RoomNames == [p \in Peers |-> RoomNameOf(p)]

-----------------------------------------------------------------------------
(* Reading the maps                                                        *)

\* A client in a chatroom is in one that has a name.
LEMMA MemberNamed ==
  ASSUME TypeOK, RegistryInv, NEW p \in clients, chatroom_broker_id[p] # NoRoom
  PROVE  /\ chatroom_broker_id[p] \in chatroom_brokers
         /\ RoomNameOf(p) \in Names
         /\ chatroom_name_to_id[RoomNameOf(p)] = chatroom_broker_id[p]
<1> DEFINE r == chatroom_broker_id[p]
<1>1. r \in Rooms /\ p \in Members(r)
  BY DEF TypeOK, RoomOrNone, Members
<1>2. r \in chatroom_brokers
  BY <1>1, ListedHasMember DEF RegistryInv
<1> QED
  BY <1>2 DEF RegistryInv, NamesAgree, RoomNameOf

\* Whom the directory counts in a chatroom are the members of the chatroom
\* that has this name.
LEMMA OccupantsAreMembers ==
  ASSUME TypeOK, RegistryInv, NEW n \in Names
  PROVE  Dir!Occupants(n) = IF chatroom_name_to_id[n] = NoRoom THEN {}
                            ELSE Members(chatroom_name_to_id[n])
<1> DEFINE id == chatroom_name_to_id[n]
<1>1. ASSUME NEW p \in clients
      PROVE  RoomNameOf(p) = n <=> id # NoRoom /\ chatroom_broker_id[p] = id
  <2>1. CASE chatroom_broker_id[p] = NoRoom
    BY <2>1, NoneAssumption DEF RoomNameOf
  <2>2. CASE chatroom_broker_id[p] # NoRoom
    <3>1. RoomNameOf(p) = n => chatroom_broker_id[p] = id
      BY <2>2, MemberNamed
    <3>2. id # NoRoom => chatroom_name[id] = n
      BY DEF RegistryInv, NamesAgree
    <3> QED
      BY <2>2, <3>1, <3>2 DEF RoomNameOf
  <2> QED
    BY <2>1, <2>2
<1>2. Dir!Occupants(n) = {p \in clients : RoomNameOf(p) = n}
  BY DEF Dir!Occupants, TypeOK
<1> QED
  BY <1>1, <1>2 DEF Members

\* A step that leaves the maps alone leaves the directory alone.
LEMMA DirectoryUntouched ==
  ASSUME UNCHANGED dir_vars
  PROVE  UNCHANGED Dir!vars
  BY DEF dir_vars, registry_vars, Dir!vars, BrokerRunning, RoomNameOf

-----------------------------------------------------------------------------
(* The broker's steps                                                      *)

\* A broker that ends is the end of the directory.
LEMMA BrokerFailsStops ==
  ASSUME BrokerRunning, NEW reason \in BrokerErrors, BrokerFails(reason)
  PROVE  Dir!Next
<1>1. /\ BrokerRunning' = FALSE
      /\ clients' = {}
      /\ username' = [p \in Peers |-> None]
      /\ \A p \in Peers : RoomNameOf(p)' = None
  BY DEF BrokerFails, BrokerErrors, BrokerRunning, RoomNameOf
<1>2. Dir!Stop
  BY <1>1 DEF Dir!Stop
<1> QED
  BY <1>2 DEF Dir!Next

\* A new client connects.
LEMMA NewClientConnects ==
  ASSUME DirectoryIInv, NewClient
  PROVE  Dir!Next
<1> DEFINE p == Head(events).peer_id
<1>1. /\ BrokerRunning /\ p \notin clients
      /\ clients' = clients \cup {p}
      /\ UNCHANGED <<broker_pc, username, chatroom_broker_id, chatroom_name>>
  BY DEF NewClient, Takes, Acceptable, room_vars
<1>2. p \in Peers
  <2>1. Head(events) \in Event
    BY DEF NewClient, Takes, DirectoryIInv, RegistryIInv, TypeOK
  <2> QED
    BY <2>1, EventParts
<1> HIDE DEF p
<1>3. Dir!Connect(p)
  BY <1>1 DEF Dir!Connect, BrokerRunning, RoomNameOf
<1> QED
  BY <1>1, <1>2, <1>3 DEF Dir!Next

\* A client that is harvested disconnects.
LEMMA HarvestDisconnects ==
  ASSUME DirectoryIInv, HarvestClient
  PROVE  Dir!Next
<1> DEFINE p == Head(client_disconnection)
<1>1. BrokerRunning
  BY DEF HarvestClient
<1>2. CASE ~ClientIsListed(p)
  BY <1>1, <1>2, BrokerFailsStops DEF HarvestClient, BrokerErrors
<1>3. CASE ClientIsListed(p)
  <2>1. /\ p \in clients /\ p \in Peers
        /\ clients' = clients \ {p}
        /\ username' = [username EXCEPT ![p] = None]
        /\ chatroom_broker_id' = [chatroom_broker_id EXCEPT ![p] = NoRoom]
        /\ UNCHANGED <<broker_pc, chatroom_name>>
    BY <1>3 DEF HarvestClient, ClientIsListed, LeaveRoom, room_vars,
       DirectoryIInv, RegistryIInv, TypeOK
  <2> HIDE DEF p
  <2>2. RoomNames' = [RoomNames EXCEPT ![p] = None]
    BY <2>1 DEF RoomNames, RoomNameOf, DirectoryIInv, RegistryIInv, TypeOK
  <2>3. Dir!Disconnect(p)
    BY <1>1, <2>1, <2>2 DEF Dir!Disconnect, BrokerRunning, RoomNames
  <2> QED
    BY <1>1, <2>1, <2>3 DEF Dir!Next
<1> QED
  BY <1>2, <1>3

\* The notice of a client's exit: it leaves its chatroom.
LEMMA ExitLeaves ==
  ASSUME DirectoryIInv, ClientExit
  PROVE  Dir!Next
<1> DEFINE p == Head(client_exit)
           r == chatroom_broker_id[p]
<1>1. BrokerRunning
  BY DEF ClientExit
<1>2. CASE p \notin clients
  BY <1>1, <1>2, BrokerFailsStops DEF ClientExit, BrokerErrors
<1>3. CASE p \in clients /\ (r = NoRoom \/ ~RoomIsListed(r))
  BY <1>1, <1>3, BrokerFailsStops DEF ClientExit, BrokerErrors
<1>4. CASE p \in clients /\ ~(r = NoRoom \/ ~RoomIsListed(r))
  <2>1. /\ p \in clients /\ p \in Peers /\ r # NoRoom
        /\ chatroom_broker_id' = [chatroom_broker_id EXCEPT ![p] = NoRoom]
        /\ UNCHANGED <<broker_pc, clients, username, chatroom_name>>
    BY <1>4 DEF ClientExit, LeaveRoom, client_vars, DirectoryIInv, RegistryIInv, TypeOK
  <2>2. RoomNameOf(p) # None
    BY <2>1, MemberNamed, NoneAssumption DEF DirectoryIInv, RegistryIInv
  <2> HIDE DEF p, r
  <2>3. RoomNames' = [RoomNames EXCEPT ![p] = None]
    BY <2>1 DEF RoomNames, RoomNameOf, DirectoryIInv, RegistryIInv, TypeOK
  <2>4. Dir!Leave(p)
    BY <2>1, <2>2, <2>3 DEF Dir!Leave, BrokerRunning, RoomNames
  <2> QED
    BY <1>1, <2>1, <2>4 DEF Dir!Next
<1> QED
  BY <1>2, <1>3, <1>4

\* A user name that is granted is registered.
LEMMA UsernameRegisters ==
  ASSUME DirectoryIInv, Username
  PROVE  Dir!Next \/ UNCHANGED Dir!vars
<1> DEFINE p == Head(events).peer_id
           new_username == Head(events).arg
<1>1. /\ BrokerRunning /\ p \in clients /\ username[p] = None
      /\ UNCHANGED <<broker_pc, clients, chatroom_broker_id, room_vars>>
  BY DEF Username, Takes, Acceptable, MayTakeUsername, OnlyAnswers
<1>2. new_username \in Usernames /\ new_username # None
  <2>1. Head(events) \in Event
    BY DEF Username, Takes, DirectoryIInv, RegistryIInv, TypeOK
  <2> QED
    BY <2>1, EventParts, NoneAssumption DEF Username, Takes
<1>3. CASE new_username \in client_usernames
  <2>1. UNCHANGED dir_vars
    BY <1>1, <1>3 DEF Username, dir_vars, registry_vars, room_vars
  <2> QED
    BY <2>1, DirectoryUntouched
<1>4. CASE new_username \notin client_usernames
  <2>1. username' = [username EXCEPT ![p] = new_username]
    BY <1>4 DEF Username
  <2>2. \A q \in clients : username[q] # new_username
    BY <1>2, <1>4 DEF DirectoryIInv, RegistryIInv, RegistryInv, UsernamesAgree
  <2> HIDE DEF p, new_username
  <2>3. Dir!Register(p, new_username)
    BY <1>1, <2>1, <2>2 DEF Dir!Register, BrokerRunning, RoomNameOf, room_vars
  <2>4. p \in Peers
    BY <1>1 DEF DirectoryIInv, RegistryIInv, TypeOK
  <2> QED
    BY <1>1, <1>2, <2>3, <2>4 DEF Dir!Next
<1> QED
  BY <1>3, <1>4

\* What the broker knows of a client that may create or join a chatroom: the
\* directory has it in the lobby.
LEMMA EntrantInLobby ==
  ASSUME DirectoryIInv, Create \/ Join
  PROVE  /\ BrokerRunning
         /\ Head(events).peer_id \in clients /\ Head(events).peer_id \in Peers
         /\ Head(events).arg \in Names
         /\ chatroom_broker_id[Head(events).peer_id] = NoRoom
         /\ Dir!InLobby(Head(events).peer_id)
<1> DEFINE p == Head(events).peer_id
<1>1. /\ BrokerRunning /\ MayEnter(p)
      /\ Head(events) \in Event /\ Head(events).kind \in {"Create", "Join"}
  BY DEF Create, Join, Takes, Acceptable, DirectoryIInv, RegistryIInv, TypeOK
<1>2. p \in Peers /\ Head(events).arg \in Names
  BY <1>1, EventParts
<1> HIDE DEF p
<1>3. Dir!InLobby(p)
  BY <1>1, <1>2 DEF Dir!InLobby, MayEnter, RoomNameOf
<1> QED
  BY <1>1, <1>2, <1>3 DEF MayEnter, p

\* A client that creates a chatroom opens it.
LEMMA CreateOpens ==
  ASSUME DirectoryIInv, Create
  PROVE  Dir!Next \/ UNCHANGED Dir!vars
<1> DEFINE p == Head(events).peer_id
           name == Head(events).arg
<1>1. /\ BrokerRunning /\ p \in clients /\ p \in Peers /\ name \in Names
      /\ chatroom_broker_id[p] = NoRoom /\ Dir!InLobby(p)
  BY EntrantInLobby
<1>2. ASSUME NEW kind, Refuse(kind)
      PROVE  UNCHANGED Dir!vars
  <2>1. UNCHANGED dir_vars
    BY <1>2 DEF Refuse, OnlyAnswers, dir_vars, registry_vars, client_vars, room_vars
  <2> QED
    BY <2>1, DirectoryUntouched
<1>3. ASSUME BrokerFails("ReadTaskGone")
      PROVE  Dir!Next
  BY <1>1, <1>3, BrokerFailsStops DEF BrokerErrors
<1>4. ASSUME chatroom_name_to_id[name] = NoRoom,
             NEW r \in Rooms, IsFresh(r),
             chatroom_name' = [chatroom_name EXCEPT ![r] = name],
             Admit(p, r, Plain("ChatroomCreated"))
      PROVE  Dir!Next
  <2> HIDE DEF p, name
  <2>1. /\ chatroom_broker_id' = [chatroom_broker_id EXCEPT ![p] = r]
        /\ UNCHANGED <<broker_pc, clients, username>>
    BY <1>4 DEF Admit, client_vars
  <2>2. ASSUME NEW q \in Peers
        PROVE  chatroom_broker_id[q] # r
    <3>1. CASE q \in clients
      BY <1>4, <3>1, MemberNamed
         DEF IsFresh, DirectoryIInv, RegistryIInv, UnbornUnlisted, Rooms, NoRoom
    <3>2. CASE q \notin clients
      BY <3>2 DEF DirectoryIInv, RegistryIInv, RegistryInv, UsernamesAgree, Rooms, NoRoom
    <3> QED
      BY <3>1, <3>2
  <2>3. RoomNames' = [RoomNames EXCEPT ![p] = name]
    <3>1. r # NoRoom
      BY DEF Rooms, NoRoom
    <3>2. ASSUME NEW q \in Peers
          PROVE  RoomNameOf(q)' = IF q = p THEN name ELSE RoomNameOf(q)
      <4>1. CASE q = p
        BY <1>1, <1>4, <2>1, <3>1, <4>1 DEF RoomNameOf, DirectoryIInv, RegistryIInv, TypeOK
      <4>2. CASE q # p
        <5>1. chatroom_broker_id'[q] = chatroom_broker_id[q]
          BY <2>1, <4>2 DEF DirectoryIInv, RegistryIInv, TypeOK
        <5>2. \/ chatroom_broker_id[q] \in Rooms /\ chatroom_broker_id[q] # r
              \/ chatroom_broker_id[q] = NoRoom
          BY <2>2 DEF DirectoryIInv, RegistryIInv, TypeOK, RoomOrNone
        <5> QED
          BY <1>4, <4>2, <5>1, <5>2 DEF RoomNameOf, DirectoryIInv, RegistryIInv, TypeOK
      <4> QED
        BY <4>1, <4>2
    <3> QED
      BY <1>1, <3>2 DEF RoomNames
  <2>4. Dir!Occupants(name) = {}
    BY <1>1, <1>4, OccupantsAreMembers DEF DirectoryIInv, RegistryIInv
  <2>5. Dir!Open(p, name)
    BY <1>1, <2>1, <2>3, <2>4 DEF Dir!Open, BrokerRunning, RoomNames
  <2> QED
    BY <1>1, <2>5 DEF Dir!Next
<1> QED
  BY <1>2, <1>3, <1>4 DEF Create

\* A client that joins a chatroom enters it, and there was room.
LEMMA JoinEnters ==
  ASSUME DirectoryIInv, Join
  PROVE  Dir!Next \/ UNCHANGED Dir!vars
<1> DEFINE p == Head(events).peer_id
           name == Head(events).arg
           r == chatroom_name_to_id[name]
<1>1. /\ BrokerRunning /\ p \in clients /\ p \in Peers /\ name \in Names
      /\ chatroom_broker_id[p] = NoRoom /\ Dir!InLobby(p)
  BY EntrantInLobby
<1>2. ASSUME NEW kind, Refuse(kind)
      PROVE  UNCHANGED Dir!vars
  <2>1. UNCHANGED dir_vars
    BY <1>2 DEF Refuse, OnlyAnswers, dir_vars, registry_vars, client_vars, room_vars
  <2> QED
    BY <2>1, DirectoryUntouched
<1>3. ASSUME NEW reason \in {"Corrupt", "ReadTaskGone"}, BrokerFails(reason)
      PROVE  Dir!Next
  BY <1>1, <1>3, BrokerFailsStops DEF BrokerErrors
<1>4. ASSUME r # NoRoom, num_clients[r] # Capacity, chatroom_name' = chatroom_name,
             Admit(p, r, Plain("Subscribed"))
      PROVE  Dir!Next
  <2>1. r \in Rooms /\ r \in chatroom_brokers /\ chatroom_name[r] = name
    BY <1>1, <1>4 DEF DirectoryIInv, RegistryIInv, RegistryInv, NamesAgree, TypeOK, RoomOrNone
  <2>2. Dir!Occupants(name) = Members(r)
    BY <1>1, <1>4, OccupantsAreMembers DEF DirectoryIInv, RegistryIInv
  <2> HIDE DEF p, name, r
  <2>3. /\ chatroom_broker_id' = [chatroom_broker_id EXCEPT ![p] = r]
        /\ UNCHANGED <<broker_pc, clients, username>>
    BY <1>4 DEF Admit, client_vars
  <2>4. RoomNames' = [RoomNames EXCEPT ![p] = name]
    <3>1. r # NoRoom
      BY <2>1 DEF Rooms, NoRoom
    <3> QED
      BY <1>1, <1>4, <2>1, <2>3, <3>1
         DEF RoomNames, RoomNameOf, DirectoryIInv, RegistryIInv, TypeOK
  <2>5. Members(r) # {}
    BY <2>1, ListedHasMember DEF DirectoryIInv, RegistryIInv, RegistryInv
  <2>6. Capacity = 0 \/ Cardinality(Members(r)) < Capacity
    <3>1. num_clients[r] = Cardinality(Members(r)) /\ num_clients[r] \in Nat
      BY <2>1 DEF DirectoryIInv, RegistryIInv, RegistryInv, CountsAgree, TypeOK
    <3>2. Capacity # 0 => num_clients[r] <= Capacity
      BY <2>1 DEF DirectoryIInv, CapacityRespected
    <3> QED
      BY <1>4, <3>1, <3>2, CapacityAssumption
  <2>7. Dir!Enter(p, name)
    <3>1. Dir!Occupants(name) # {} /\ Dir!HasPlace(name)
      BY <2>2, <2>5, <2>6 DEF Dir!HasPlace, Dir!Cardinality, Cardinality
    <3> QED
      BY <1>1, <2>3, <2>4, <3>1 DEF Dir!Enter, BrokerRunning, RoomNames
  <2> QED
    BY <1>1, <2>7 DEF Dir!Next
<1> QED
  BY <1>2, <1>3, <1>4 DEF Join

-----------------------------------------------------------------------------
(* The theorem                                                             *)

\* The empty maps are the empty directory.
LEMMA InitDirectory == Init => Dir!Init
  BY DEF Init, Dir!Init, BrokerRunning, RoomNameOf

\* Every step is one change of the directory, or none.
LEMMA NextDirectory == DirectoryIInv /\ [Next]_vars => [Dir!Next]_Dir!vars
<1> SUFFICES ASSUME DirectoryIInv, [Next]_vars
             PROVE  Dir!Next \/ UNCHANGED Dir!vars
  OBVIOUS
<1>1. CASE HarvestRoom
  <2>1. CASE Head(disconnected_sub_broker) \in chatroom_brokers
    BY <1>1, <2>1, BrokerFailsStops DEF HarvestRoom, BrokerErrors
  <2>2. CASE Head(disconnected_sub_broker) \notin chatroom_brokers
    <3>1. UNCHANGED dir_vars
      BY <1>1, <2>2
         DEF HarvestRoom, registry, client_vars, room_vars, dir_vars, registry_vars
    <3> QED
      BY <3>1, DirectoryUntouched
  <2> QED
    BY <2>1, <2>2
<1>2. CASE QuitEvent \/ Lobby \/ ReadSync
  <2>1. UNCHANGED dir_vars
    BY <1>2 DEF QuitEvent, Lobby, ReadSync, OnlyAnswers, client_vars, room_vars,
       dir_vars, registry_vars
  <2> QED
    BY <2>1, DirectoryUntouched
<1>3. CASE RejectEvent
  BY <1>3, BrokerFailsStops DEF RejectEvent, BrokerErrors
<1>4. CASE ~BrokerNext
  <2>1. UNCHANGED registry
    BY <1>4, OthersUntouched DEF Next, DirectoryIInv, RegistryIInv
  <2>2. UNCHANGED dir_vars
    BY <2>1 DEF registry, client_vars, room_vars, dir_vars, registry_vars
  <2> QED
    BY <2>2, DirectoryUntouched
<1> QED
  BY <1>1, <1>2, <1>3, <1>4, NewClientConnects, HarvestDisconnects, ExitLeaves,
     UsernameRegisters, CreateOpens, JoinEnters DEF BrokerNext, EventNext

\* The server implements the directory: a user name and a chatroom name have
\* one owner at a time, and nobody enters a chatroom that is closed or full
\* (broker and its handlers in server_handlers/mod.rs).
THEOREM DirectoryImplemented == Spec => ImplementsDirectory
<1>1. Init => Dir!Init
  BY InitDirectory
<1>2. RegistryIInv /\ CapacityRespected /\ [Next]_vars => [Dir!Next]_Dir!vars
  BY NextDirectory DEF DirectoryIInv
<1> QED
  BY <1>1, <1>2, RegistryInductive, NeverOverCapacity, PTL
     DEF Spec, ImplementsDirectory, Dir!Spec

=============================================================================
