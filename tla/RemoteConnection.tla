-------------------------- MODULE RemoteConnection --------------------------
(* One RemoteClient (src/remote/client.ts) and the server it talks to: the   *)
(* connections and authentication of src/remote/server.ts and the tokens of  *)
(* src/remote/token.ts.  The two ends learn of a lost connection each at its *)
(* own time.  A socket, with the clientId the server gives it, and a token   *)
(* value are used again once nothing refers to them, so behaviours are as    *)
(* long as one likes.                                                        *)
EXTENDS Naturals, Sequences, FiniteSets

CONSTANTS
    Socket,
    Token,              \* values of connection tokens
    NoSocket, NoToken,
    Request,            \* requests that wait for an answer, by their id
    MaxRetries,         \* reconnectConfig.maxRetries
    MaxFaults           \* bound: broken connections, failed sockets, restarts

ASSUME RemoteConnectionAssumption ==
    /\ NoSocket \notin Socket /\ NoToken \notin Token
    /\ Request \cap {"auth_server", "auth_connection", "auth_ok", "auth_failed",
                     "refresh", "refresh_ok", "refresh_failed"} = {}
    /\ MaxRetries \in Nat \ {0} /\ MaxFaults \in Nat

VARIABLES
    client,     \* the fields of the RemoteClient
    link,       \* per socket: its phase and the messages on their way
    peer,       \* per socket: the server's ClientState, while it is in clients
    active,     \* activeConnectionTokens: [value, owner]
    rotated,    \* the server token in the client's configuration is no longer valid
    faults      \* number of faults so far

vars == <<client, link, peer, active, rotated, faults>>

NoPeer == [in |-> FALSE, auth |-> FALSE, token |-> NoToken, validating |-> FALSE]

\* What the two ends send each other.
Message(type, token) == [type |-> type, token |-> token]
Messages == [type : Request \cup {"auth_server", "auth_connection", "auth_ok", "auth_failed",
                                  "refresh", "refresh_ok", "refresh_failed"},
             token : Token \cup {NoToken}]
Accepted(token)  == Message("auth_ok", token)
Refused          == Message("auth_failed", NoToken)
Refreshed(token) == Message("refresh_ok", token)
NotRefreshed     == Message("refresh_failed", NoToken)

TypeOK ==
    /\ client \in
        [status : {"disconnected", "connecting", "connected", "reconnecting"},
         ws : Socket \cup {NoSocket},
         handlers : [Socket -> {"none", "connect", "reconnect"}],
         attempts : 0 .. MaxRetries, timer : BOOLEAN, intentional : BOOLEAN,
         token : Token \cup {NoToken}, refreshTimer : BOOLEAN,
         pending : SUBSET Request]
    /\ link \in [Socket -> [phase : {"closed", "opening", "open"},
                            up : Seq(Messages), down : Seq(Messages)]]
    /\ peer \in [Socket -> [in : BOOLEAN, auth : BOOLEAN,
                            token : Token \cup {NoToken}, validating : BOOLEAN]]
    /\ active \subseteq [value : Token, owner : Socket]
    /\ rotated \in BOOLEAN
    /\ faults \in 0 .. MaxFaults

Init ==
    /\ client = [status |-> "disconnected", ws |-> NoSocket,
                 handlers |-> [s \in Socket |-> "none"],
                 attempts |-> 0, timer |-> FALSE, intentional |-> FALSE,
                 token |-> NoToken, refreshTimer |-> FALSE, pending |-> {}]
    /\ link = [s \in Socket |-> [phase |-> "closed", up |-> <<>>, down |-> <<>>]]
    /\ peer = [s \in Socket |-> NoPeer]
    /\ active = {}
    /\ rotated = FALSE
    /\ faults = 0

-----------------------------------------------------------------------------
(* Sockets and tokens that nothing refers to.                                *)

OneOf(S) == CHOOSE x \in S : TRUE

UnusedSockets ==
    {s \in Socket : /\ client.handlers[s] = "none" /\ client.ws # s
                    /\ ~peer[s].in /\ ~peer[s].validating
                    /\ \A t \in active : t.owner # s}

TokensIn(messages) == {messages[i].token : i \in DOMAIN messages}

UnusedTokens ==
    Token \ ({client.token} \cup {t.value : t \in active}
             \cup UNION {{peer[s].token} \cup TokensIn(link[s].up)
                                         \cup TokensIn(link[s].down) : s \in Socket})

-----------------------------------------------------------------------------
(* The client's helpers, as functions of its fields.                         *)

CleanupKeepingHandlers(c) == [c EXCEPT !.ws = NoSocket, !.refreshTimer = FALSE, !.pending = {}]

\* The handlers of this.ws are taken off, it is closed, and every pending
\* request is rejected.  The connection token stays.
CleanupConnection(c) ==
    [c EXCEPT !.ws = NoSocket,
              !.handlers = [s \in Socket |-> IF s = c.ws THEN "none" ELSE @[s]],
              !.refreshTimer = FALSE,
              !.pending = {}]

Cleanup(c) == [CleanupConnection(c) EXCEPT !.timer = FALSE, !.attempts = 0]

ScheduleNothing(c) == [c EXCEPT !.status = "reconnecting"]

ScheduleReconnect(c) ==
    IF c.attempts >= MaxRetries
    THEN [c EXCEPT !.status = "disconnected", !.attempts = 0]
    ELSE [c EXCEPT !.status = "reconnecting", !.attempts = @ + 1, !.timer = TRUE]

\* A new socket with the handlers of connect() or of attemptReconnect().
OpenSocket(c, kind) ==
    /\ UnusedSockets # {}
    /\ LET s == OneOf(UnusedSockets)
       IN  /\ client' = [c EXCEPT !.ws = s, !.handlers[s] = kind]
           /\ link' = [link EXCEPT ![s] = [phase |-> "opening", up |-> <<>>, down |-> <<>>]]

StoreFirstToken(c, token) ==
    IF token = NoToken \/ c.token # NoToken THEN c
    ELSE [c EXCEPT !.token = token, !.refreshTimer = TRUE]

\* A token in an answer is kept and its refresh is scheduled.
StoreToken(c, token) ==
    IF token = NoToken THEN c ELSE [c EXCEPT !.token = token, !.refreshTimer = TRUE]

KeepToken(c) == c
DropToken(c) == [c EXCEPT !.token = NoToken]

Sent(s, message) == [link EXCEPT ![s].up = Append(@, message)]

\* this.ws.close() of a client that lets go of its socket; what it sent before
\* still arrives.
LetGo(c) ==
    [s \in Socket |-> IF link[s].phase # "closed" /\ c.handlers[s] = "none"
                      THEN [link[s] EXCEPT !.phase = "closed", !.down = <<>>]
                      ELSE link[s]]

-----------------------------------------------------------------------------
(* Calls of the client's owner.                                              *)

\* connect() returns at once while connecting or connected, and goes on while
\* reconnecting: there its owner calls it only for the second of two tabs with
\* one alias, which is left out here (InstanceManager has such tabs).
Connect ==
    /\ client.status = "disconnected"
    /\ OpenSocket([client EXCEPT !.status = "connecting", !.timer = FALSE,
                                 !.intentional = FALSE], "connect")
    /\ UNCHANGED <<peer, active, rotated, faults>>

Disconnect ==
    /\ client' = [Cleanup(client) EXCEPT !.status = "disconnected", !.intentional = TRUE]
    /\ link' = LetGo(client')
    /\ UNCHANGED <<peer, active, rotated, faults>>

\* request() of a connected client, and its timer.
SendRequest(r) ==
    /\ client.status = "connected" /\ client.ws # NoSocket
    /\ r \notin client.pending
    /\ \A s \in Socket : /\ Message(r, NoToken) \notin {link[s].up[i] : i \in DOMAIN link[s].up}
                         /\ Message(r, NoToken) \notin {link[s].down[i] : i \in DOMAIN link[s].down}
    /\ client' = [client EXCEPT !.pending = @ \cup {r}]
    /\ link' = Sent(client.ws, Message(r, NoToken))
    /\ UNCHANGED <<peer, active, rotated, faults>>

RequestTimeout(r) ==
    /\ r \in client.pending
    /\ client' = [client EXCEPT !.pending = @ \ {r}]
    /\ UNCHANGED <<link, peer, active, rotated, faults>>

-----------------------------------------------------------------------------
(* Timers of the client.                                                     *)

AttemptReconnect ==
    /\ client.timer
    /\ OpenSocket([client EXCEPT !.timer = FALSE], "reconnect")
    /\ UNCHANGED <<peer, active, rotated, faults>>

RequestTokenRefresh ==
    /\ client.refreshTimer
    /\ client' = [client EXCEPT !.refreshTimer = FALSE]
    /\ link' = IF client.token # NoToken /\ client.status = "connected" /\ client.ws # NoSocket
               THEN Sent(client.ws, Message("refresh", client.token)) ELSE link
    /\ UNCHANGED <<peer, active, rotated, faults>>

-----------------------------------------------------------------------------
(* Events of a socket at the client.                                         *)

\* The server's open() and the client's onopen, which authenticates with the
\* connection token if it has one.
SocketOpens(s) ==
    /\ link[s].phase = "opening" /\ client.handlers[s] # "none"
    /\ peer' = [peer EXCEPT ![s] = [NoPeer EXCEPT !.in = TRUE]]
    /\ link' = [link EXCEPT
                   ![s] = [phase |-> "open",
                           up |-> <<IF client.token = NoToken
                                    THEN Message("auth_server", NoToken)
                                    ELSE Message("auth_connection", client.token)>>,
                           down |-> <<>>]]
    /\ UNCHANGED <<client, active, rotated, faults>>

\* onclose (after an onerror if the socket failed).
OnClose(s) ==
    CASE client.handlers[s] = "connect" ->
            IF client.status = "connected" /\ ~client.intentional
            THEN ScheduleReconnect(CleanupConnection(client))
            ELSE IF client.status # "reconnecting"
            THEN [CleanupConnection(client) EXCEPT !.status = "disconnected"]
            ELSE CleanupConnection(client)
      [] client.handlers[s] = "reconnect" ->
            IF \/ client.status = "connected" /\ ~client.intentional
               \/ client.status = "reconnecting"
            THEN ScheduleReconnect(CleanupConnection(client))
            ELSE client

\* The socket cannot be opened.
SocketFails(s) ==
    /\ link[s].phase = "opening" /\ client.handlers[s] # "none"
    /\ faults < MaxFaults
    /\ faults' = faults + 1
    /\ client' = OnClose(s)
    /\ link' = LetGo(client')
    /\ UNCHANGED <<peer, active, rotated>>

\* The client learns that its connection is closed.
NoticesClose(s) ==
    /\ link[s].phase = "closed" /\ client.handlers[s] # "none"
    /\ client' = OnClose(s)
    /\ link' = LetGo(client')
    /\ UNCHANGED <<peer, active, rotated, faults>>

-----------------------------------------------------------------------------
(* Answers of the server at the client.                                      *)

Receives(s, message) ==
    /\ link[s].phase = "open" /\ client.handlers[s] # "none"
    /\ link[s].down # <<>> /\ Head(link[s].down) = message

Read(s) == [link EXCEPT ![s].down = Tail(@)]

\* auth_response with success: both handlers keep the token and end the retries.
AuthAccepted(s) ==
    /\ \E token \in Token \cup {NoToken} :
        /\ Receives(s, Accepted(token))
        /\ client' =
            [StoreToken(client, token) EXCEPT
                !.status = "connected",
                !.attempts = IF client.handlers[s] = "reconnect" \/ client.status = "reconnecting"
                             THEN 0 ELSE @]
    /\ link' = Read(s)
    /\ UNCHANGED <<peer, active, rotated, faults>>

\* auth_response without success: a connection token is dropped; connect() gives
\* up, a reconnection takes its next attempt.
AuthRefused(s) ==
    /\ Receives(s, Refused)
    /\ LET c == DropToken(client)
       IN  client' = IF client.handlers[s] = "connect"
                     THEN [Cleanup(c) EXCEPT !.status = "disconnected"]
                     ELSE ScheduleReconnect(CleanupConnection(c))
    /\ link' = LetGo(client')
    /\ UNCHANGED <<peer, active, rotated, faults>>

\* token_refresh_response: only the handler of connect() has a case for it.
RefreshAnswered(s) ==
    /\ \E token \in Token :
        \/ /\ Receives(s, Refreshed(token))
           /\ client' = IF client.handlers[s] = "connect" THEN StoreToken(client, token)
                        ELSE client
        \/ /\ Receives(s, NotRefreshed)
           /\ UNCHANGED client
    /\ link' = Read(s)
    /\ UNCHANGED <<peer, active, rotated, faults>>

RequestAnswered(s) ==
    /\ \E r \in Request :
        /\ Receives(s, Message(r, NoToken))
        /\ client' = [client EXCEPT !.pending = @ \ {r}]
    /\ link' = Read(s)
    /\ UNCHANGED <<peer, active, rotated, faults>>

-----------------------------------------------------------------------------
(* The server.                                                               *)

IsActive(token) == \E t \in active : t.value = token
OwnerOf(token)  == (CHOOSE t \in active : t.value = token).owner

\* issueConnectionToken: the tokens the client had are deleted.
Issue(tokens, owner, value) ==
    {t \in tokens : t.owner # owner} \cup {[value |-> value, owner |-> owner]}

\* Takes a message of an accepted connection and answers unless its client left.
Takes(s, message) ==
    /\ peer[s].in
    /\ link[s].up # <<>> /\ Head(link[s].up) = message

Taken(s) == [link EXCEPT ![s].up = Tail(@)]

Answered(l, s, message) ==
    IF l[s].phase = "open" THEN [l EXCEPT ![s].down = Append(@, message)] ELSE l

AuthenticatedBy(p, token) == [p EXCEPT !.auth = TRUE, !.token = token]

\* handleAuth with a connection token, whoever it was issued to.
HandleConnectionToken(s) ==
    /\ \E token \in Token :
        /\ Takes(s, Message("auth_connection", token))
        /\ IF IsActive(token)
           THEN /\ peer' = [peer EXCEPT ![s] = AuthenticatedBy(@, token)]
                /\ link' = Answered(Taken(s), s, Accepted(NoToken))
           ELSE /\ link' = Answered(Taken(s), s, Refused)
                /\ UNCHANGED peer
    /\ UNCHANGED <<client, active, rotated, faults>>

\* handleAuth with the server token: the configuration is read from its file.
HandleServerToken(s) ==
    /\ Takes(s, Message("auth_server", NoToken))
    /\ peer' = [peer EXCEPT ![s].validating = TRUE]
    /\ link' = Taken(s)
    /\ UNCHANGED <<client, active, rotated, faults>>

\* The rest of handleAuth after that await, whether or not the client is still there.
ServerTokenValidated(s) ==
    /\ peer[s].validating
    /\ IF rotated
       THEN /\ peer' = [peer EXCEPT ![s].validating = FALSE]
            /\ link' = Answered(link, s, Refused)
            /\ UNCHANGED active
       ELSE /\ UnusedTokens # {}
            /\ LET token == OneOf(UnusedTokens)
               IN  /\ peer' = [peer EXCEPT
                                 ![s] = [@ EXCEPT !.validating = FALSE, !.auth = peer[s].in,
                                                  !.token = IF peer[s].in THEN token ELSE NoToken]]
                   /\ active' = Issue(active, s, token)
                   /\ link' = Answered(link, s, Accepted(token))
    /\ UNCHANGED <<client, rotated, faults>>

\* handleTokenRefresh of an authenticated client: the new token is issued to the owner of the old one.
HandleTokenRefresh(s) ==
    /\ \E old \in Token :
        /\ Takes(s, Message("refresh", old))
        /\ IF peer[s].auth /\ old = peer[s].token /\ IsActive(old)
           THEN /\ UnusedTokens # {}
                /\ LET new == OneOf(UnusedTokens)
                   IN  /\ active' = Issue({t \in active : t.value # old}, OwnerOf(old), new)
                       /\ peer' = [peer EXCEPT ![s].token = new]
                       /\ link' = Answered(Taken(s), s, Refreshed(new))
           ELSE /\ link' = Answered(Taken(s), s, NotRefreshed)
                /\ UNCHANGED <<active, peer>>
    /\ UNCHANGED <<client, rotated, faults>>

\* A request before authentication gets an error that answers no request.
HandleRequest(s) ==
    /\ \E r \in Request :
        /\ Takes(s, Message(r, NoToken))
        /\ link' = IF peer[s].auth THEN Answered(Taken(s), s, Message(r, NoToken)) ELSE Taken(s)
    /\ UNCHANGED <<client, peer, active, rotated, faults>>

\* The close handler, once what the client sent has been read.
ServerCloses(s) ==
    /\ peer[s].in /\ link[s].phase = "closed" /\ link[s].up = <<>>
    /\ active' = {t \in active : t.owner # s}
    /\ peer' = [peer EXCEPT ![s] = [NoPeer EXCEPT !.validating = peer[s].validating]]
    /\ UNCHANGED <<client, link, rotated, faults>>

-----------------------------------------------------------------------------
(* The environment.                                                          *)

\* A connection breaks: what is on its way is lost.
Breaks(s) ==
    /\ link[s].phase = "open"
    /\ faults < MaxFaults
    /\ faults' = faults + 1
    /\ link' = [link EXCEPT ![s] = [phase |-> "closed", up |-> <<>>, down |-> <<>>]]
    /\ UNCHANGED <<client, peer, active, rotated>>

\* The server's process ends and another starts: connections and tokens are lost.
ServerRestarts ==
    /\ faults < MaxFaults
    /\ faults' = faults + 1
    /\ link' = [s \in Socket |->
                    IF link[s].phase = "opening" THEN link[s]
                    ELSE [phase |-> "closed", up |-> <<>>, down |-> <<>>]]
    /\ peer' = [s \in Socket |-> NoPeer]
    /\ active' = {}
    /\ UNCHANGED <<client, rotated>>

\* A token reaches its expiry and counts as unknown.
Expires ==
    /\ \E t \in active : active' = active \ {t}
    /\ UNCHANGED <<client, link, peer, rotated, faults>>

\* The server token is rotated while the client keeps the one of its configuration.
Rotate ==
    /\ ~rotated /\ rotated' = TRUE
    /\ UNCHANGED <<client, link, peer, active, faults>>

-----------------------------------------------------------------------------
OwnerCalls == Connect \/ Disconnect \/ \E r \in Request : SendRequest(r)

ClientTimers == AttemptReconnect \/ RequestTokenRefresh \/ \E r \in Request : RequestTimeout(r)

ClientReads(s) == AuthAccepted(s) \/ AuthRefused(s) \/ RefreshAnswered(s) \/ RequestAnswered(s)

ServerReads(s) ==
    \/ HandleConnectionToken(s) \/ HandleServerToken(s)
    \/ HandleTokenRefresh(s) \/ HandleRequest(s)

Environment == (\E s \in Socket : Breaks(s)) \/ ServerRestarts \/ Expires \/ Rotate

Next ==
    \/ OwnerCalls \/ ClientTimers \/ Environment
    \/ \E s \in Socket : \/ SocketOpens(s) \/ SocketFails(s) \/ NoticesClose(s)
                         \/ ClientReads(s) \/ ServerReads(s)
                         \/ ServerTokenValidated(s) \/ ServerCloses(s)

Spec == Init /\ [][Next]_vars

\* Timers fire, events are delivered, the server answers; tokens expire.  Calls
\* of the owner and faults need not happen.
Fairness ==
    /\ WF_vars(AttemptReconnect) /\ WF_vars(Expires)
    /\ \A s \in Socket :
        /\ WF_vars(SocketOpens(s)) /\ WF_vars(NoticesClose(s))
        /\ WF_vars(ClientReads(s)) /\ WF_vars(ServerReads(s))
        /\ WF_vars(ServerTokenValidated(s)) /\ WF_vars(ServerCloses(s))

FairSpec == Spec /\ Fairness

-----------------------------------------------------------------------------
(* Properties.                                                               *)

\* Whatever is lost, refused or given up, the client has handlers on the socket
\* it uses and on no other: an earlier connection cannot act on a later one.
OneSocketAlive ==
    \A s \in Socket : client.handlers[s] # "none" <=> client.ws = s

\* A client that is reconnecting has a timer that will make the next attempt or
\* a socket on which one is under way, never both and never neither; no other
\* client has such a timer.
OneReconnection ==
    /\ client.timer => client.status = "reconnecting"
    /\ client.status = "reconnecting" => (client.timer <=> client.ws = NoSocket)

\* Attempts are counted since the last successful connection: a client that is
\* not reconnecting starts its next series at zero.
AttemptsOfThisSeries ==
    client.attempts > 0 <=> client.status = "reconnecting"

\* No request waits for an answer on a connection that is gone.
RequestsHaveAConnection ==
    client.pending # {} => client.status = "connected"

\* The client's own state is in order whatever happens to its connections.
ConnectionInOrder ==
    /\ TypeOK /\ OneSocketAlive /\ OneReconnection
    /\ AttemptsOfThisSeries /\ RequestsHaveAConnection

\* A client that believes it is connected is not one whose requests the server
\* would refuse, whichever of its tokens it used and whoever noticed a loss first.
ConnectedIsAuthenticated ==
    \A s \in Socket :
        (client.ws = s /\ client.status = "connected" /\ link[s].phase = "open")
        => peer[s].auth

\* The two ends of a connection in order agree on its token, once the answers on
\* their way are read.  Of a connection opened by connect().
TokenAgreed ==
    \A s \in Socket :
        (/\ client.ws = s /\ client.status = "connected" /\ client.handlers[s] = "connect"
         /\ link[s].phase = "open"
         /\ \A t \in Token : Refreshed(t) \notin {link[s].down[i] : i \in DOMAIN link[s].down})
        => client.token = peer[s].token

\* What the two ends take for granted of each other holds.
EndsAgree == ConnectedIsAuthenticated /\ TokenAgreed

\* A client gives up only after as many faults as it may retry: the retry it
\* wastes on a token the server no longer knows is never one too many.  Unless
\* its server token is no longer valid either.  The faults are those of the
\* whole behaviour, not those since the last connection.
GivesUpOnlyAfterFaults ==
    [][(/\ client.status = "reconnecting" /\ client'.status = "disconnected"
        /\ ~client'.intentional)
       => rotated \/ faults' >= MaxRetries]_vars

\* What the client promises its owner, liveness included.
Lifecycle == INSTANCE ClientLifecycle WITH status <- client.status
ImplementsLifecycle == Lifecycle!Spec
=============================================================================
