------------------------------ MODULE Gateway ------------------------------
(***************************************************************************)
(* The Discord gateway of one linked account: DiscordGatewayManagerService *)
(* (onModuleInit, start, stop) in one API process, its map of handles, and *)
(* connectDiscordGateway, whose sockets come and go under it.              *)
(*                                                                         *)
(* A socket is the client's variable ws, or an older one nothing refers to *)
(* any more but whose listeners still run.                                 *)
(***************************************************************************)
EXTENDS Naturals

CONSTANTS
  Start,                   \* concurrent calls of start()
  MaxClients, MaxSockets   \* bounds on clients, and on a client's older
                           \* sockets and timers

ASSUME GatewayAssumption == {MaxClients, MaxSockets} \subseteq Nat

VARIABLES
  account,   \* the row: "none", "active", "disconnecting" or "disconnected"
  secret,    \* the credential is stored
  handle,    \* the entry of handles, 0 without one
  client,    \* the gateway clients there have been, by number
  start,     \* calls of start()
  overtaken, \* history: a call of start was overtaken by another or by stop
  unsound    \* history: clients whose session was declared invalid

gatewayVars == <<account, secret, handle, client, start, overtaken, unsound>>

Client == 1..MaxClients

\* ws: the latest socket, "open", "greeted" (after HELLO), "closing" (close()
\* was called, its listeners still run) or "closed"; older: earlier sockets
\* whose listeners still run;
\* timers: scheduled reconnects; beating: the heartbeat timer, which the
\* sockets share.  (Whether a new socket resumes the session is left out: it
\* changes what is sent, not which sockets there are.)
NoClient == [made |-> FALSE, stopped |-> FALSE, ws |-> "closed", older |-> 0,
             timers |-> 0, beating |-> FALSE]

Running(c) == client[c].made /\ ~client[c].stopped

\* Its listeners run: until the close event every message is handled, and what
\* Discord dispatches is published, whether the client is stopped or not.
OpenWs(c) == client[c].ws # "closed"

----------------------------------------------------------------------------
\* connectDiscordGateway.

\* Mutant: a closed connection is not reopened.
GivesUp(c) == client[c].timers

Rescheduled(c) == IF client[c].stopped THEN client[c].timers ELSE client[c].timers + 1

MaySchedule(c) == client[c].timers < MaxSockets

TimerFires(c) ==
  /\ client[c].timers > 0
  /\ client[c].older < MaxSockets
  /\ client' = [client EXCEPT ![c] =
       IF client[c].stopped THEN [client[c] EXCEPT !.timers = @ - 1]
       ELSE [client[c] EXCEPT !.timers = @ - 1, !.ws = "open",
                              !.older = IF OpenWs(c) THEN @ + 1 ELSE @]]
  /\ UNCHANGED <<account, secret, handle, start, overtaken, unsound>>

\* HELLO, on the latest or an older socket.
Hello(c) ==
  /\ \/ /\ client[c].ws \in {"open", "closing"}
        /\ client' = [client EXCEPT ![c].beating = TRUE,
                                    ![c].ws = IF @ = "open" THEN "greeted" ELSE @]
     \/ /\ client[c].older > 0
        /\ client' = [client EXCEPT ![c].beating = TRUE]
  /\ UNCHANGED <<account, secret, handle, start, overtaken, unsound>>

\* Mutant: close() is not called.
StaysOpen(s) == s

\* ws.close() only begins the closing handshake.
ClosedBy(s) == IF s = "closed" THEN s ELSE "closing"

\* RECONNECT, on the latest or an older socket, closes the latest.
Reconnect(c) ==
  /\ OpenWs(c) \/ client[c].older > 0
  /\ client' = [client EXCEPT ![c].ws = ClosedBy(@)]
  /\ UNCHANGED <<account, secret, handle, start, overtaken, unsound>>

\* The latest socket's close event: the closing handshake ended, the network,
\* the server, or a heartbeat without an answer (ws.terminate).
WsCloses(c) ==
  /\ OpenWs(c) /\ MaySchedule(c)
  /\ client' = [client EXCEPT ![c] =
       [client[c] EXCEPT !.ws = "closed", !.beating = FALSE, !.timers = Rescheduled(c)]]
  /\ UNCHANGED <<account, secret, handle, start, overtaken, unsound>>

\* An older one closes, with the same listener.
OlderCloses(c) ==
  /\ client[c].older > 0 /\ MaySchedule(c)
  /\ client' = [client EXCEPT ![c] =
       [client[c] EXCEPT !.older = @ - 1, !.beating = FALSE, !.timers = Rescheduled(c)]]
  /\ UNCHANGED <<account, secret, handle, start, overtaken, unsound>>

\* INVALID_SESSION on an open socket reconnects and leaves the socket open.
InvalidSession(c) ==
  /\ OpenWs(c) \/ client[c].older > 0
  /\ MaySchedule(c)
  /\ client' = [client EXCEPT ![c] =
       [client[c] EXCEPT !.timers = Rescheduled(c), !.beating = @ /\ client[c].stopped]]
  /\ unsound' = unsound \cup {c}
  /\ UNCHANGED <<account, secret, handle, start, overtaken>>

\* The handle's stop: the connection begins to close, and listens until it has.
Stopped(c) ==
  [client EXCEPT ![c] = [client[c] EXCEPT !.stopped = TRUE, !.beating = FALSE, !.ws = ClosedBy(@)]]

----------------------------------------------------------------------------
\* DiscordGatewayManagerService and its callers.

\* The callback has stored the secret and made the row active.
Connected ==
  /\ account = "none"
  /\ account' = "active" /\ secret' = TRUE
  /\ UNCHANGED <<handle, client, start, overtaken, unsound>>

\* The callback, or onModuleInit with the row among those it has read.
CallStart(s) ==
  /\ account = "active" /\ start[s] = "idle"
  /\ start' = [start EXCEPT ![s] = "called"]
  /\ overtaken' = (overtaken \/ \E p \in Start : start[p] # "idle")
  /\ UNCHANGED <<account, secret, handle, client, unsound>>

EnterStart(s) ==
  /\ start[s] = "called"
  /\ start' = [start EXCEPT ![s] = IF handle = 0 THEN "secret" ELSE "idle"]
  /\ UNCHANGED <<account, secret, handle, client, overtaken, unsound>>

GetSecret(s) ==
  /\ start[s] = "secret"
  /\ start' = [start EXCEPT ![s] = IF secret THEN "listen" ELSE "idle"]
  /\ UNCHANGED <<account, secret, handle, client, overtaken, unsound>>

\* startListening and handles.set.
Listen(s) ==
  /\ start[s] = "listen"
  /\ \E c \in Client :
       /\ ~client[c].made /\ \A b \in 1..(c - 1) : client[b].made
       /\ client' = [client EXCEPT ![c] = [NoClient EXCEPT !.made = TRUE, !.ws = "open"]]
       /\ handle' = c
  /\ start' = [start EXCEPT ![s] = "idle"]
  /\ UNCHANGED <<account, secret, overtaken, unsound>>

\* disconnect, and the cleanup of a deleted workspace: stop the gateway, ...
StopGateway ==
  /\ account = "active"
  /\ account' = "disconnecting"
  /\ client' = IF handle = 0 THEN client ELSE Stopped(handle)
  /\ handle' = 0
  /\ overtaken' = (overtaken \/ \E s \in Start : start[s] # "idle")
  /\ UNCHANGED <<secret, start, unsound>>

\* ... then delete the secret and update the row.
DeleteSecret ==
  /\ account = "disconnecting"
  /\ account' = "disconnected" /\ secret' = FALSE
  /\ UNCHANGED <<handle, client, start, overtaken, unsound>>

\* The deletion of a workspace may be refused after the cleanup.
DeletionRefused ==
  /\ account = "disconnecting"
  /\ account' = "active"
  /\ UNCHANGED <<secret, handle, client, start, overtaken, unsound>>

\* The process restarts: onModuleInit starts the accounts that are active,
\* and a disconnect it was busy with is to be asked for again.
Restart ==
  /\ account' = IF account = "disconnecting" THEN "active" ELSE account
  /\ handle' = 0
  /\ client' = [c \in Client |-> [client[c] EXCEPT !.stopped = client[c].made,
                 !.ws = "closed", !.older = 0, !.timers = 0, !.beating = FALSE]]
  /\ start' = [s \in Start |-> "idle"]
  /\ UNCHANGED <<secret, overtaken, unsound>>

GatewayInit ==
  /\ account = "none" /\ secret = FALSE
  /\ handle = 0 /\ client = [c \in Client |-> NoClient]
  /\ start = [s \in Start |-> "idle"]
  /\ overtaken = FALSE /\ unsound = {}

GatewayNext ==
  \/ \E c \in Client : TimerFires(c) \/ Hello(c) \/ Reconnect(c) \/ WsCloses(c)
                       \/ OlderCloses(c) \/ InvalidSession(c)
  \/ \E s \in Start : CallStart(s) \/ EnterStart(s) \/ GetSecret(s) \/ Listen(s)
  \/ Connected \/ StopGateway \/ DeleteSecret \/ DeletionRefused \/ Restart

GatewaySpec == GatewayInit /\ [][GatewayNext]_gatewayVars

----------------------------------------------------------------------------
\* A client that has not been stopped always has a socket or a reconnect to
\* come: no sequence of closes, invalid sessions and timers strands it
\* (scheduleReconnect, connect).
NeverStranded ==
  \A c \in Client : Running(c) =>
    OpenWs(c) \/ client[c].older > 0 \/ client[c].timers > 0

\* A greeted connection has its heartbeat, the only way a dead connection is
\* noticed, unless the client's session had been declared invalid.
GreetedIsBeating ==
  \A c \in Client : Running(c) /\ client[c].ws = "greeted" =>
    client[c].beating \/ c \in unsound

\* After stop the account has no connection but one that is closing, and none is
\* opened again: not by a reconnect already scheduled, a close event or an older
\* socket, unless a start was under way or the client had been given an invalid
\* session.  (Until that connection has closed its messages are still published:
\* the message listener does not look at stopped.)
StopSilences ==
  \A c \in Client :
    account \in {"disconnecting", "disconnected"} /\ client[c].made =>
      \/ overtaken \/ c \in unsound
      \/ /\ client[c].stopped /\ client[c].ws \in {"closing", "closed"}
         /\ client[c].older = 0

\* A gateway that was not stopped listens or is about to, and notices a dead
\* connection.
GatewayListens == NeverStranded /\ GreetedIsBeating
=============================================================================
