------------------------------ MODULE Sockets ------------------------------
(***************************************************************************)
(* RealtimeGateway: who is in the room of a workspace, for handshakes that *)
(* race the removal of a member or of the workspace.  Each API process     *)
(* keeps its own rooms (no adapter joins them), and a removal closes the   *)
(* sockets of the process that serves it, after its commit.                *)
(***************************************************************************)
EXTENDS FiniteSets

CONSTANTS
  Person, Socket, Process,
  Remover,             \* concurrent requests that remove members
  NoPerson, NoProcess

ASSUME SocketsAssumption == NoPerson \notin Person /\ NoProcess \notin Process

VARIABLES
  inside,   \* workspace_members
  badge,    \* people who have an access token for the workspace
  socket,   \* handshakes and connections
  remover,  \* the people removed and the process that will close their sockets
  late      \* history: sockets a removal could not reach

socketVars == <<inside, badge, socket, remover, late>>

NoSocket == [pc |-> "closed", person |-> NoPerson, process |-> NoProcess]
NoRemoval == [people |-> {}, process |-> NoProcess]

AddPerson(p) ==
  /\ p \notin inside
  /\ inside' = inside \cup {p}
  /\ UNCHANGED <<badge, socket, remover, late>>

IssueToken(p) ==
  /\ p \in inside
  /\ badge' = badge \cup {p}
  /\ UNCHANGED <<inside, socket, remover, late>>

\* An expired token is one that is not presented, or forgotten here.
TokenExpires(p) ==
  /\ badge' = badge \ {p}
  /\ UNCHANGED <<inside, socket, remover, late>>

\* handleConnection verifies the token and awaits the membership query.
Connect(s, p, n) ==
  /\ socket[s].pc = "closed" /\ p \in badge
  /\ socket' = [socket EXCEPT ![s] = [pc |-> "verified", person |-> p, process |-> n]]
  /\ late' = late \ {s}
  /\ UNCHANGED <<inside, badge, remover>>

\* Mutant: a valid token is enough.
AdmitsAnyBadge(p) == TRUE

Admits(p) == p \in inside

\* The query is answered.
ReadMembership(s) ==
  /\ socket[s].pc = "verified"
  /\ socket' = [socket EXCEPT ![s] =
       IF Admits(socket[s].person) THEN [@ EXCEPT !.pc = "admitted"] ELSE NoSocket]
  /\ UNCHANGED <<inside, badge, remover, late>>

\* Both rooms are joined when the handler runs again.
JoinRooms(s) ==
  /\ socket[s].pc = "admitted"
  /\ socket' = [socket EXCEPT ![s].pc = "joined"]
  /\ UNCHANGED <<inside, badge, remover, late>>

SocketCloses(s) ==
  /\ socket[s].pc # "closed"
  /\ socket' = [socket EXCEPT ![s] = NoSocket]
  /\ UNCHANGED <<inside, badge, remover, late>>

Targets(s, r) ==
  /\ socket[s].pc = "joined" /\ socket[s].person \in remover[r].people
  /\ socket[s].process = remover[r].process

\* The membership is gone: one person's (removed or left), or everybody's
\* with the workspace.
CommitRemoval(r, people, n) ==
  /\ remover[r] = NoRemoval
  /\ people # {} /\ people \subseteq inside
  /\ inside' = inside \ people
  /\ remover' = [remover EXCEPT ![r] = [people |-> people, process |-> n]]
  /\ late' = late \cup {s \in Socket : /\ socket[s].person \in people
                                        /\ \/ socket[s].pc = "admitted"
                                           \/ socket[s].pc = "joined" /\ socket[s].process # n}
  /\ UNCHANGED <<badge, socket>>

\* disconnectMember, disconnectWorkspace: synchronous; a failure is swallowed
\* and misses some of the sockets.
CloseSockets(r) ==
  /\ remover[r] # NoRemoval
  /\ \E missed \in SUBSET {s \in Socket : Targets(s, r)} :
       /\ socket' = [s \in Socket |->
            IF Targets(s, r) /\ s \notin missed THEN NoSocket ELSE socket[s]]
       /\ late' = late \cup missed
  /\ remover' = [remover EXCEPT ![r] = NoRemoval]
  /\ UNCHANGED <<inside, badge>>

\* A process dies between the commit and the call: its sockets die with it,
\* and with them the reason to close them.
ProcessDies(n) ==
  /\ socket' = [s \in Socket |-> IF socket[s].process = n THEN NoSocket ELSE socket[s]]
  /\ remover' = [r \in Remover |-> IF remover[r].process = n THEN NoRemoval ELSE remover[r]]
  /\ UNCHANGED <<inside, badge, late>>

SocketsInit ==
  /\ inside = {} /\ badge = {} /\ late = {}
  /\ socket = [s \in Socket |-> NoSocket]
  /\ remover = [r \in Remover |-> NoRemoval]

SocketsNext ==
  \/ \E p \in Person : \/ AddPerson(p) \/ IssueToken(p) \/ TokenExpires(p)
                       \/ \E s \in Socket, n \in Process : Connect(s, p, n)
  \/ \E s \in Socket : ReadMembership(s) \/ JoinRooms(s) \/ SocketCloses(s)
  \/ \E r \in Remover :
       \/ CloseSockets(r)
       \/ \E n \in Process, people \in {{p} : p \in inside} \cup {inside} :
            CommitRemoval(r, people, n)
  \/ \E n \in Process : ProcessDies(n)

SocketsSpec == SocketsInit /\ [][SocketsNext]_socketVars

----------------------------------------------------------------------------
\* A connection in the rooms belongs to a member, or to somebody whose removal
\* is about to close it, unless the handshake had read the membership before
\* the removal and joined after it, the socket is on another process than the
\* removal, or closing it failed (handleConnection, disconnectMember,
\* disconnectWorkspace).
RoomsOfMembers ==
  \A s \in Socket : socket[s].pc = "joined" =>
    \/ socket[s].person \in inside
    \/ s \in late
    \/ \E r \in Remover : Targets(s, r)
=============================================================================
