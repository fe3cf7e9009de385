----------------------- MODULE RemoteConnection_proofs -----------------------
(***************************************************************************)
(* What a remote client and its server keep to, for any number of sockets,   *)
(* tokens, requests, retries and faults; and that the client takes the steps *)
(* of ClientLifecycle.                                                       *)
(*                                                                         *)
(* The invariant has three parts: the client's own fields, whatever its      *)
(* connections do; the stage of the connection it uses, from the socket that *)
(* is opened to the requests that are served, with the messages that may be  *)
(* on their way at each; and the faults that the failed attempts have cost.  *)
(***************************************************************************)
EXTENDS RemoteConnection, TLAPS

(* Which handlers a status goes with; a client that is disconnected has no    *)
(* socket, and only such a client was disconnected by its owner.             *)
HandlersInv ==
    /\ client.status = "disconnected" => client.ws = NoSocket
    /\ client.intentional => client.status = "disconnected"
    /\ \A s \in Socket : /\ client.handlers[s] = "connect" => client.status # "reconnecting"
                         /\ client.handlers[s] = "reconnect" => client.status # "connecting"

ClientInv ==
    /\ OneSocketAlive /\ OneReconnection /\ AttemptsOfThisSeries /\ RequestsHaveAConnection
    /\ HandlersInv

-----------------------------------------------------------------------------
(* The stages of the connection a client uses.                               *)

AuthRequest == IF client.token = NoToken THEN Message("auth_server", NoToken)
               ELSE Message("auth_connection", client.token)

Opening(s) ==
    /\ link[s] = [phase |-> "opening", up |-> <<>>, down |-> <<>>]
    /\ ~peer[s].validating /\ client.status # "connected"

Asking(s) ==
    /\ link[s] = [phase |-> "open", up |-> <<AuthRequest>>, down |-> <<>>]
    /\ peer[s].in /\ ~peer[s].validating /\ client.status # "connected"

Validating(s) ==
    /\ link[s] = [phase |-> "open", up |-> <<>>, down |-> <<>>]
    /\ peer[s].in /\ peer[s].validating /\ client.status # "connected"
    /\ client.token = NoToken

(* A server token is refused only after its rotation. *)
Answering(s) ==
    /\ link[s].phase = "open" /\ link[s].up = <<>>
    /\ peer[s].in /\ ~peer[s].validating /\ client.status # "connected"
    /\ \/ link[s].down = <<Refused>> /\ (client.token # NoToken \/ rotated)
       \/ /\ peer[s].auth
          /\ \/ \E t \in Token : link[s].down = <<Accepted(t)>> /\ peer[s].token = t
             \/ link[s].down = <<Accepted(NoToken)>> /\ peer[s].token = client.token

(* The last new token on its way to the client, or the one it has, is the     *)
(* server's.                                                                 *)
NewToken(m) == m.type = "refresh_ok"
LastTokenIsServers(down, known, token) ==
    /\ (\A i \in DOMAIN down : ~NewToken(down[i])) => known = token
    /\ \A i \in DOMAIN down :
          NewToken(down[i]) /\ (\A j \in DOMAIN down : j > i => ~NewToken(down[j]))
          => down[i].token = token

Serving(s) ==
    /\ link[s].phase = "open" /\ client.status = "connected"
    /\ peer[s].in /\ peer[s].auth /\ ~peer[s].validating
    /\ \A i \in DOMAIN link[s].up : link[s].up[i].type \in Request \cup {"refresh"}
    /\ \A i \in DOMAIN link[s].down :
          /\ link[s].down[i].type \in Request \cup {"refresh_ok", "refresh_failed"}
          /\ NewToken(link[s].down[i]) => link[s].down[i].token \in Token
    /\ client.handlers[s] = "connect" =>
          LastTokenIsServers(link[s].down, client.token, peer[s].token)

Stage(s) ==
    \/ link[s].phase = "closed"
    \/ Opening(s) \/ Asking(s) \/ Validating(s) \/ Answering(s) \/ Serving(s)

StageInv == \A s \in Socket : client.ws = s => Stage(s)

(* An attempt has cost a fault, save one that was refused with an old token.  *)
Broken == client.ws \in Socket /\ link[client.ws].phase = "closed"

FaultsCounted ==
    rotated \/ client.attempts + (IF Broken THEN 1 ELSE 0)
               <= faults + (IF client.token = NoToken THEN 1 ELSE 0)

IInv == TypeOK /\ ClientInv /\ StageInv /\ FaultsCounted

-----------------------------------------------------------------------------
(* The client's fields.                                                      *)

Fields ==
    [status : {"disconnected", "connecting", "connected", "reconnecting"},
     ws : Socket \cup {NoSocket},
     handlers : [Socket -> {"none", "connect", "reconnect"}],
     attempts : 0 .. MaxRetries, timer : BOOLEAN, intentional : BOOLEAN,
     token : Token \cup {NoToken}, refreshTimer : BOOLEAN,
     pending : SUBSET Request]

(* A client that has let go of its connection. *)
Free(c) ==
    /\ c \in Fields /\ c.ws = NoSocket /\ ~c.timer /\ c.pending = {}
    /\ \A s \in Socket : c.handlers[s] = "none"

(* cleanupConnection lets go of the socket and keeps status and attempts.    *)
LEMMA CleanedUp ==
    ASSUME TypeOK, ClientInv, NEW s \in Socket, client.handlers[s] # "none",
           NEW c \in {client, DropToken(client)}
    PROVE  /\ Free(CleanupConnection(c))
           /\ CleanupConnection(c).status = client.status
           /\ CleanupConnection(c).attempts = client.attempts
           /\ CleanupConnection(c).token = c.token
           /\ ~CleanupConnection(c).intentional
           /\ client.ws = s /\ client.status # "disconnected" /\ ~client.intentional
           /\ c.token \in {client.token, NoToken}
<1>. USE RemoteConnectionAssumption
<1>1. client \in Fields
  BY DEF TypeOK, Fields
<1>2. client.ws = s /\ client.status # "disconnected" /\ ~client.intentional /\ ~client.timer
  BY <1>1 DEF ClientInv, OneSocketAlive, HandlersInv, OneReconnection, Fields
<1>3. /\ c \in Fields /\ c.handlers = client.handlers /\ c.ws = s /\ ~c.timer /\ ~c.intentional
      /\ c.status = client.status /\ c.attempts = client.attempts
      /\ c.token \in {client.token, NoToken}
  BY <1>1, <1>2 DEF DropToken, Fields
<1>4. \A t \in Socket : t # s => c.handlers[t] = "none"
  BY <1>2, <1>3 DEF ClientInv, OneSocketAlive
<1>5. Free(CleanupConnection(c))
  BY <1>3, <1>4 DEF Free, CleanupConnection, Fields
<1>. QED
  BY <1>2, <1>3, <1>5 DEF CleanupConnection, Fields

(* scheduleReconnect starts a timer, or gives up at the last attempt.        *)
LEMMA Rescheduled ==
    ASSUME NEW c, Free(c), ~c.intentional
    PROVE  LET d == ScheduleReconnect(c)
           IN  /\ d \in Fields /\ d.ws = NoSocket /\ d.pending = {} /\ ~d.intentional
               /\ d.handlers = c.handlers /\ d.token = c.token
               /\ \/ /\ c.attempts = MaxRetries
                     /\ d.status = "disconnected" /\ d.attempts = 0 /\ ~d.timer
                  \/ /\ c.attempts < MaxRetries
                     /\ d.status = "reconnecting" /\ d.attempts = c.attempts + 1 /\ d.timer
<1>. USE RemoteConnectionAssumption
<1>1. c \in Fields /\ c.attempts \in 0 .. MaxRetries /\ ~c.timer /\ c.ws = NoSocket /\ c.pending = {}
  BY DEF Free, Fields
<1>2. CASE c.attempts >= MaxRetries
  <2>1. ScheduleReconnect(c) = [c EXCEPT !.status = "disconnected", !.attempts = 0]
    BY <1>2 DEF ScheduleReconnect
  <2>2. c.attempts = MaxRetries
    BY <1>1, <1>2
  <2>3. 0 \in 0 .. MaxRetries
    OBVIOUS
  <2>4. [c EXCEPT !.status = "disconnected", !.attempts = 0] \in Fields
    BY <1>1, <2>3 DEF Fields
  <2>. QED
    BY <1>1, <2>1, <2>2, <2>4 DEF Fields
<1>3. CASE ~(c.attempts >= MaxRetries)
  <2>1. ScheduleReconnect(c) =
          [c EXCEPT !.status = "reconnecting", !.attempts = c.attempts + 1, !.timer = TRUE]
    BY <1>3 DEF ScheduleReconnect
  <2>2. c.attempts < MaxRetries /\ c.attempts + 1 \in 0 .. MaxRetries
    BY <1>1, <1>3
  <2>. QED
    BY <1>1, <2>1, <2>2 DEF Fields
<1>. QED
  BY <1>2, <1>3

(* After letting go the client's state is in order, whatever its status, if    *)
(* its timer and its attempts fit that.                                      *)
LEMMA FreeClient ==
    ASSUME client' \in Fields, client'.ws = NoSocket, client'.pending = {},
           \A s \in Socket : client'.handlers[s] = "none",
           \/ client'.status = "disconnected" /\ client'.attempts = 0 /\ ~client'.timer
           \/ /\ client'.status = "reconnecting" /\ client'.attempts > 0 /\ client'.timer
              /\ ~client'.intentional
    PROVE  ClientInv' /\ StageInv' /\ ~Broken'
BY RemoteConnectionAssumption
   DEF ClientInv, OneSocketAlive, OneReconnection, AttemptsOfThisSeries, RequestsHaveAConnection,
       HandlersInv, StageInv, Broken, Fields

(* The steps of the life cycle. *)
LifecycleStep == Lifecycle!Next \/ client'.status = client.status

(* Changes of status that the abstract lifecycle knows.                      *)
LEMMA LifecycleSteps ==
    ASSUME client.status = "disconnected" => client'.status \in {"disconnected", "connecting"},
           client.status = "connecting" =>
               client'.status \in {"connecting", "connected", "disconnected"},
           client.status = "connected" =>
               client'.status \in {"connected", "reconnecting", "disconnected"},
           client.status = "reconnecting" =>
               client'.status \in {"reconnecting", "connected", "disconnected"},
           client.status \in {"disconnected", "connecting", "connected", "reconnecting"}
    PROVE  LifecycleStep
BY DEF LifecycleStep, Lifecycle!Next, Lifecycle!Connect, Lifecycle!OwnStep, Lifecycle!Established,
       Lifecycle!Refused, Lifecycle!Lost, Lifecycle!Recovered, Lifecycle!GaveUp,
       Lifecycle!Disconnect

(* A client gives up after its last attempt, for a fault or a refusal. *)
LEMMA OnCloseKeeps ==
    ASSUME TypeOK, ClientInv, NEW s \in Socket, client.handlers[s] # "none",
           client' = OnClose(s)
    PROVE  /\ client' \in Fields /\ ClientInv' /\ StageInv' /\ ~Broken'
           /\ client'.token = client.token /\ client.ws = s
           /\ client'.attempts \in {0, client.attempts + 1}
           /\ client.status = "reconnecting" /\ client'.status = "disconnected"
              => client.attempts = MaxRetries
           /\ LifecycleStep
<1>. DEFINE c == CleanupConnection(client)
<1>1. /\ Free(c) /\ c.status = client.status /\ c.attempts = client.attempts
      /\ c.token = client.token /\ ~c.intentional
      /\ client.ws = s /\ client.status # "disconnected" /\ ~client.intentional
  BY CleanedUp
<1>2. client.attempts > 0 <=> client.status = "reconnecting"
  BY DEF ClientInv, AttemptsOfThisSeries
<1>3. client \in Fields
  BY DEF TypeOK, Fields
<1>4. \/ client' = [c EXCEPT !.status = "disconnected"] /\ client.status = "connecting"
      \/ client' = ScheduleReconnect(c) /\ client.status \in {"connected", "reconnecting"}
  BY <1>1, <1>3 DEF OnClose, ClientInv, HandlersInv, Fields
<1>. HIDE DEF c
<1>5. CASE client' = [c EXCEPT !.status = "disconnected"] /\ client.status = "connecting"
  <2>1. /\ client' \in Fields /\ client'.ws = NoSocket /\ client'.pending = {}
        /\ \A t \in Socket : client'.handlers[t] = "none"
        /\ client'.status = "disconnected" /\ client'.attempts = 0 /\ ~client'.timer
        /\ client'.token = client.token
    BY <1>1, <1>2, <1>3, <1>5, RemoteConnectionAssumption DEF Free, Fields
  <2>. QED
    BY <1>1, <1>5, <2>1, FreeClient, LifecycleSteps
<1>6. CASE client' = ScheduleReconnect(c) /\ client.status \in {"connected", "reconnecting"}
  <2>1. /\ client' \in Fields /\ client'.ws = NoSocket /\ client'.pending = {} /\ ~client'.intentional
        /\ client'.handlers = c.handlers /\ client'.token = c.token
        /\ \/ /\ client.attempts = MaxRetries
              /\ client'.status = "disconnected" /\ client'.attempts = 0 /\ ~client'.timer
           \/ /\ client.attempts < MaxRetries
              /\ client'.status = "reconnecting" /\ client'.attempts = client.attempts + 1
              /\ client'.timer
    BY <1>1, <1>6, Rescheduled
  <2>2. \A t \in Socket : client'.handlers[t] = "none"
    BY <1>1, <2>1 DEF Free
  <2>3. client.attempts \in Nat /\ MaxRetries \in Nat
    BY <1>3, RemoteConnectionAssumption DEF Fields
  <2>4. ClientInv' /\ StageInv' /\ ~Broken'
    BY <2>1, <2>2, <2>3, FreeClient
  <2>5. LifecycleStep
    BY <1>6, <2>1, LifecycleSteps
  <2>. QED
    BY <1>1, <2>1, <2>4, <2>5
<1>. QED
  BY <1>4, <1>5, <1>6

-----------------------------------------------------------------------------
(* Links and messages.                                                       *)

Links == [Socket -> [phase : {"closed", "opening", "open"},
                     up : Seq(Messages), down : Seq(Messages)]]

(* Every message that is built is one of Messages.                           *)
LEMMA MessagesTyped ==
    /\ \A t \in Token \cup {NoToken} :
          /\ Accepted(t) \in Messages /\ Refreshed(t) \in Messages
          /\ Message("auth_connection", t) \in Messages /\ Message("refresh", t) \in Messages
    /\ Refused \in Messages /\ NotRefreshed \in Messages
    /\ Message("auth_server", NoToken) \in Messages
    /\ \A r \in Request : Message(r, NoToken) \in Messages
BY DEF Messages, Message, Accepted, Refused, Refreshed, NotRefreshed

(* A message sent changes one direction of one link.                         *)
LEMMA Links1 ==
    ASSUME NEW l \in Links, NEW s \in Socket, NEW m \in Messages
    PROVE  /\ [l EXCEPT ![s].up = Append(@, m)] \in Links
           /\ Answered(l, s, m) \in Links
           /\ \A t \in Socket : /\ Answered(l, s, m)[t].phase = l[t].phase
                                /\ Answered(l, s, m)[t].up = l[t].up
                                /\ t # s => Answered(l, s, m)[t] = l[t]
           /\ l[s].phase = "open" => Answered(l, s, m)[s].down = Append(l[s].down, m)
<1>1. l[s].up \in Seq(Messages) /\ l[s].down \in Seq(Messages)
  BY DEF Links
<1>2. Append(l[s].up, m) \in Seq(Messages) /\ Append(l[s].down, m) \in Seq(Messages)
  BY <1>1
<1>3. [l EXCEPT ![s].up = Append(@, m)] \in Links
  BY <1>2 DEF Links
<1>4. CASE l[s].phase = "open"
  <2>1. Answered(l, s, m) = [l EXCEPT ![s].down = Append(@, m)]
    BY <1>4 DEF Answered
  <2>2. [l EXCEPT ![s].down = Append(@, m)] \in Links
    BY <1>2 DEF Links
  <2>3. \A t \in Socket : /\ [l EXCEPT ![s].down = Append(@, m)][t].phase = l[t].phase
                          /\ [l EXCEPT ![s].down = Append(@, m)][t].up = l[t].up
                          /\ t # s => [l EXCEPT ![s].down = Append(@, m)][t] = l[t]
    BY DEF Links
  <2>4. [l EXCEPT ![s].down = Append(@, m)][s].down = Append(l[s].down, m)
    BY DEF Links
  <2>. QED
    BY <1>3, <2>1, <2>2, <2>3, <2>4
<1>5. CASE l[s].phase # "open"
  BY <1>3, <1>5 DEF Answered
<1>. QED
  BY <1>3, <1>4, <1>5

(* A message taken changes one direction of one link.                        *)
LEMMA Links2 ==
    ASSUME TypeOK, NEW s \in Socket
    PROVE  /\ link \in Links
           /\ link[s].up # <<>> => Taken(s) \in Links /\ Head(link[s].up) \in Messages
           /\ link[s].down # <<>> => Read(s) \in Links /\ Head(link[s].down) \in Messages
           /\ \A t \in Socket : /\ Taken(s)[t].phase = link[t].phase
                                /\ Taken(s)[t].down = link[t].down
                                /\ t # s => Taken(s)[t] = link[t]
                                /\ Read(s)[t].phase = link[t].phase
                                /\ Read(s)[t].up = link[t].up
                                /\ t # s => Read(s)[t] = link[t]
           /\ Taken(s)[s].up = Tail(link[s].up) /\ Read(s)[s].down = Tail(link[s].down)
<1>1. link \in Links
  BY DEF TypeOK, Links
<1>2. link[s].up \in Seq(Messages) /\ link[s].down \in Seq(Messages)
  BY <1>1 DEF Links
<1>3. /\ link[s].up # <<>> => Tail(link[s].up) \in Seq(Messages) /\ Head(link[s].up) \in Messages
      /\ link[s].down # <<>> => Tail(link[s].down) \in Seq(Messages) /\ Head(link[s].down) \in Messages
  BY <1>2
<1>4. /\ link[s].up # <<>> => Taken(s) \in Links
      /\ link[s].down # <<>> => Read(s) \in Links
  BY <1>1, <1>3 DEF Taken, Read, Links
<1>. QED
  BY <1>1, <1>3, <1>4 DEF Taken, Read, Links

(* Reading and sending what is or is not a new token. *)
LEMMA LastTokenRead ==
    ASSUME NEW down \in Seq(Messages), 1 \in DOMAIN down, NEW known, NEW token,
           LastTokenIsServers(down, known, token)
    PROVE  LastTokenIsServers(Tail(down), IF NewToken(down[1]) THEN down[1].token ELSE known, token)
<1>. DEFINE rest == Tail(down)
<1>1. /\ DOMAIN down = 1 .. Len(down) /\ Len(down) \in Nat /\ Len(down) >= 1
      /\ DOMAIN rest = 1 .. (Len(down) - 1) /\ \A i \in DOMAIN rest : rest[i] = down[i + 1]
  OBVIOUS
<1>. HIDE DEF rest
<1>2. \A i \in DOMAIN down : i = 1 \/ (i - 1 \in DOMAIN rest /\ rest[i - 1] = down[i])
  BY <1>1
<1>3. ASSUME \A i \in DOMAIN rest : ~NewToken(rest[i])
      PROVE  (IF NewToken(down[1]) THEN down[1].token ELSE known) = token
  <2>1. \A i \in DOMAIN down : i > 1 => ~NewToken(down[i])
    BY <1>1, <1>2, <1>3
  <2>2. \A i \in DOMAIN down : i = 1 \/ i > 1
    BY <1>1
  <2>. QED
    BY <2>1, <2>2 DEF LastTokenIsServers
<1>4. ASSUME NEW i \in DOMAIN rest, NewToken(rest[i]),
             \A j \in DOMAIN rest : j > i => ~NewToken(rest[j])
      PROVE  rest[i].token = token
  <2>1. i + 1 \in DOMAIN down /\ rest[i] = down[i + 1]
    BY <1>1
  <2>2. \A j \in DOMAIN down : j > i + 1 => ~NewToken(down[j])
    BY <1>1, <1>2, <1>4
  <2>. QED
    BY <1>4, <2>1, <2>2 DEF LastTokenIsServers
<1>. QED
  BY <1>3, <1>4 DEF LastTokenIsServers, rest

(* A message sent last tells the token the server has issued last.           *)
LEMMA LastTokenSent ==
    ASSUME NEW down \in Seq(Messages), NEW m \in Messages, NEW known, NEW token,
           LastTokenIsServers(down, known, token)
    PROVE  LastTokenIsServers(Append(down, m), known, IF NewToken(m) THEN m.token ELSE token)
<1>. DEFINE more == Append(down, m)
<1>1. /\ DOMAIN down = 1 .. Len(down) /\ Len(down) \in Nat
      /\ DOMAIN more = 1 .. (Len(down) + 1) /\ more[Len(down) + 1] = m
      /\ \A i \in DOMAIN down : more[i] = down[i]
  OBVIOUS
<1>. HIDE DEF more
<1>2. \A i \in DOMAIN more : i = Len(down) + 1 \/ i \in DOMAIN down
  BY <1>1
<1>3. \A i \in DOMAIN down : i \in DOMAIN more /\ i < Len(down) + 1
  BY <1>1
<1>4. Len(down) + 1 \in DOMAIN more
  BY <1>1
<1>5. ASSUME \A i \in DOMAIN more : ~NewToken(more[i])
      PROVE  known = IF NewToken(m) THEN m.token ELSE token
  BY <1>1, <1>3, <1>4, <1>5 DEF LastTokenIsServers
<1>6. ASSUME NEW i \in DOMAIN more, NewToken(more[i]),
             \A j \in DOMAIN more : j > i => ~NewToken(more[j])
      PROVE  more[i].token = IF NewToken(m) THEN m.token ELSE token
  <2>1. CASE i = Len(down) + 1
    BY <1>1, <1>6, <2>1
  <2>2. CASE i \in DOMAIN down
    <3>1. ~NewToken(m)
      BY <1>1, <1>3, <1>4, <1>6, <2>2
    <3>2. \A j \in DOMAIN down : j > i => ~NewToken(down[j])
      BY <1>1, <1>3, <1>6
    <3>. QED
      BY <1>1, <1>6, <2>2, <3>1, <3>2 DEF LastTokenIsServers
  <2>. QED
    BY <1>2, <2>1, <2>2
<1>. QED
  BY <1>5, <1>6 DEF LastTokenIsServers, more

(* Sockets that are let go of are links still.                               *)
LEMMA LetGoTyped ==
    ASSUME TypeOK, NEW c
    PROVE  LetGo(c) \in Links
<1>1. <<>> \in Seq(Messages)
  OBVIOUS
<1>. QED
  BY <1>1 DEF LetGo, TypeOK, Links

-----------------------------------------------------------------------------
(* The steps.                                                                *)

GivesUpAfterFaults ==
    (client.status = "reconnecting" /\ client'.status = "disconnected" /\ ~client'.intentional)
    => rotated \/ faults' >= MaxRetries

StepKept == IInv' /\ LifecycleStep /\ GivesUpAfterFaults

(* A socket that a step does not touch is at the stage it was at.            *)
LEMMA StageKept ==
    ASSUME NEW s \in Socket, Stage(s),
           client'.status = client.status, client'.token = client.token,
           client'.handlers[s] = client.handlers[s],
           link'[s] = link[s], peer'[s] = peer[s], rotated => rotated'
    PROVE  Stage(s)'
BY DEF Stage, Opening, Asking, AuthRequest, Validating, Answering, Serving

(* A socket with handlers is the client's current one.                       *)
LEMMA SocketOfClient ==
    ASSUME TypeOK, ClientInv, StageInv, NEW s \in Socket, client.handlers[s] # "none"
    PROVE  /\ client.ws = s /\ Stage(s) /\ client.status # "disconnected"
           /\ ~client.intentional /\ ~client.timer
           /\ client.status = "reconnecting" => client.handlers[s] = "reconnect"
           /\ client.handlers[s] \in {"connect", "reconnect"}
           /\ client.attempts > 0 <=> client.status = "reconnecting"
BY RemoteConnectionAssumption
   DEF TypeOK, ClientInv, OneSocketAlive, HandlersInv, OneReconnection, AttemptsOfThisSeries,
      StageInv

(* A step of the server or of the environment on one connection. *)
LEMMA OtherEndKeeps ==
    ASSUME IInv, NEW s \in Socket, UNCHANGED <<client, rotated, faults>>,
           link' \in Links, link'[s].phase = link[s].phase,
           peer' \in [Socket -> [in : BOOLEAN, auth : BOOLEAN,
                                 token : Token \cup {NoToken}, validating : BOOLEAN]],
           active' \subseteq [value : Token, owner : Socket],
           \A t \in Socket : t # s => link'[t] = link[t] /\ peer'[t] = peer[t],
           client.ws = s /\ link[s].phase # "closed" => Stage(s)'
    PROVE  StepKept
<1>1. TypeOK'
  BY DEF IInv, TypeOK, Links
<1>2. ClientInv'
  BY DEF IInv, ClientInv, OneSocketAlive, OneReconnection, AttemptsOfThisSeries,
         RequestsHaveAConnection, HandlersInv
<1>3. StageInv'
  <2>. SUFFICES ASSUME NEW t \in Socket, client.ws = t PROVE Stage(t)'
    BY DEF StageInv
  <2>1. CASE t = s
    BY <2>1 DEF Stage
  <2>2. CASE t # s
    BY <2>2, StageKept DEF IInv, StageInv
  <2>. QED
    BY <2>1, <2>2
<1>4. FaultsCounted'
  <2>1. Broken' <=> Broken
    BY DEF Broken
  <2>. QED
    BY <2>1 DEF IInv, FaultsCounted
<1>5. LifecycleStep /\ GivesUpAfterFaults
  BY DEF LifecycleStep, GivesUpAfterFaults
<1>. QED
  BY <1>1, <1>2, <1>3, <1>4, <1>5 DEF IInv, StepKept

(* connect() and attemptReconnect(). *)
LEMMA OpenKeeps ==
    ASSUME IInv, Connect \/ AttemptReconnect
    PROVE  StepKept
<1>. USE RemoteConnectionAssumption
<1>1. PICK c \in Fields, kind \in {"connect", "reconnect"} :
        /\ OpenSocket(c, kind) /\ client.ws = NoSocket
        /\ c.handlers = client.handlers /\ c.attempts = client.attempts /\ c.token = client.token
        /\ c.pending = {} /\ ~c.timer /\ ~c.intentional
        /\ \/ kind = "connect" /\ client.status = "disconnected" /\ c.status = "connecting"
           \/ kind = "reconnect" /\ client.status = "reconnecting" /\ c.status = "reconnecting"
        /\ UNCHANGED <<peer, active, rotated, faults>>
  <2>1. client \in Fields
    BY DEF IInv, TypeOK, Fields
  <2>2. CASE Connect
    <3>. DEFINE c == [client EXCEPT !.status = "connecting", !.timer = FALSE, !.intentional = FALSE]
    <3>1. c \in Fields /\ client.status = "disconnected" /\ client.ws = NoSocket
      BY <2>1, <2>2 DEF Connect, Fields, IInv, ClientInv, HandlersInv
    <3>2. /\ c.handlers = client.handlers /\ c.attempts = client.attempts /\ c.token = client.token
          /\ c.pending = {} /\ ~c.timer /\ ~c.intentional /\ c.status = "connecting"
      BY <2>1, <3>1 DEF Fields, IInv, ClientInv, RequestsHaveAConnection
    <3>3. OpenSocket(c, "connect") /\ UNCHANGED <<peer, active, rotated, faults>>
      BY <2>2 DEF Connect
    <3>. QED
      BY <3>1, <3>2, <3>3
  <2>3. CASE AttemptReconnect
    <3>. DEFINE c == [client EXCEPT !.timer = FALSE]
    <3>1. c \in Fields /\ client.status = "reconnecting" /\ client.ws = NoSocket
      BY <2>1, <2>3 DEF AttemptReconnect, Fields, IInv, ClientInv, OneReconnection
    <3>2. /\ c.handlers = client.handlers /\ c.attempts = client.attempts /\ c.token = client.token
          /\ c.pending = {} /\ ~c.timer /\ ~c.intentional /\ c.status = "reconnecting"
      BY <2>1, <3>1 DEF Fields, IInv, ClientInv, RequestsHaveAConnection, HandlersInv
    <3>3. OpenSocket(c, "reconnect") /\ UNCHANGED <<peer, active, rotated, faults>>
      BY <2>3 DEF AttemptReconnect
    <3>. QED
      BY <3>1, <3>2, <3>3
  <2>. QED
    BY <2>2, <2>3
<1>2. PICK s \in UnusedSockets :
        /\ client' = [c EXCEPT !.ws = s, !.handlers[s] = kind]
        /\ link' = [link EXCEPT ![s] = [phase |-> "opening", up |-> <<>>, down |-> <<>>]]
  BY <1>1 DEF OpenSocket, OneOf
<1>3. s \in Socket /\ ~peer[s].validating
  BY DEF UnusedSockets
<1>4. \A t \in Socket : client.handlers[t] = "none"
  BY <1>1 DEF IInv, ClientInv, OneSocketAlive
<1>5. /\ client' \in Fields /\ client'.ws = s /\ client'.handlers = [c.handlers EXCEPT ![s] = kind]
      /\ client'.status = c.status /\ client'.attempts = client.attempts
      /\ client'.token = client.token /\ client'.pending = {} /\ ~client'.timer
      /\ ~client'.intentional
  BY <1>1, <1>2, <1>3 DEF Fields
<1>6. \A t \in Socket : client'.handlers[t] = IF t = s THEN kind ELSE "none"
  BY <1>1, <1>3, <1>4, <1>5 DEF Fields
<1>7. link' \in Links /\ link'[s] = [phase |-> "opening", up |-> <<>>, down |-> <<>>]
  BY <1>2, <1>3 DEF IInv, TypeOK, Links
<1>8. TypeOK'
  BY <1>1, <1>5, <1>7 DEF IInv, TypeOK, Fields, Links
<1>9. ClientInv'
  BY <1>1, <1>3, <1>5, <1>6
     DEF IInv, ClientInv, OneSocketAlive, OneReconnection, AttemptsOfThisSeries,
         RequestsHaveAConnection, HandlersInv
<1>10. StageInv'
  BY <1>1, <1>3, <1>5, <1>7 DEF StageInv, Stage, Opening
<1>11. FaultsCounted'
  <2>1. ~Broken'
    BY <1>5, <1>7 DEF Broken
  <2>2. ~Broken
    BY <1>1 DEF Broken
  <2>. QED
    BY <1>1, <1>5, <2>1, <2>2 DEF IInv, FaultsCounted
<1>12. LifecycleStep
  BY <1>1, <1>5, LifecycleSteps
<1>. QED
  BY <1>1, <1>5, <1>8, <1>9, <1>10, <1>11, <1>12 DEF StepKept, GivesUpAfterFaults, IInv

(* disconnect() lets go of the socket and of the timer.                      *)
LEMMA DisconnectKeeps ==
    ASSUME IInv, Disconnect
    PROVE  StepKept
<1>. USE RemoteConnectionAssumption
<1>1. client \in Fields
  BY DEF IInv, TypeOK, Fields
<1>2. client' = [Cleanup(client) EXCEPT !.status = "disconnected", !.intentional = TRUE]
  BY DEF Disconnect
<1>3. /\ client' \in Fields /\ client'.ws = NoSocket /\ client'.pending = {}
      /\ client'.status = "disconnected" /\ client'.attempts = 0 /\ ~client'.timer
      /\ client'.token = client.token /\ client'.intentional
  <2>. DEFINE c == CleanupConnection(client)
  <2>1. /\ c \in Fields /\ c.ws = NoSocket /\ c.pending = {} /\ c.token = client.token
    BY <1>1 DEF CleanupConnection, Fields
  <2>2. client' = [c EXCEPT !.timer = FALSE, !.attempts = 0, !.status = "disconnected",
                            !.intentional = TRUE]
    BY <1>2, <2>1 DEF Cleanup, Fields
  <2>3. 0 \in 0 .. MaxRetries
    OBVIOUS
  <2>. HIDE DEF c
  <2>4. client' \in Fields
    BY <2>1, <2>2, <2>3 DEF Fields
  <2>. QED
    BY <2>1, <2>2, <2>4 DEF Fields
<1>4. \A t \in Socket : client'.handlers[t] = "none"
  <2>1. \A t \in Socket : client'.handlers[t] = IF t = client.ws THEN "none" ELSE client.handlers[t]
    BY <1>1, <1>2 DEF Cleanup, CleanupConnection, Fields
  <2>. QED
    BY <2>1 DEF IInv, ClientInv, OneSocketAlive
<1>5. ClientInv' /\ StageInv' /\ ~Broken'
  BY <1>3, <1>4, FreeClient
<1>6. TypeOK'
  BY <1>3, LetGoTyped DEF Disconnect, IInv, TypeOK, Fields, Links
<1>7. FaultsCounted'
  BY <1>3, <1>5 DEF Disconnect, FaultsCounted, IInv, TypeOK
<1>8. LifecycleStep
  BY <1>3 DEF LifecycleStep, Lifecycle!Next, Lifecycle!Disconnect
<1>. QED
  BY <1>3, <1>5, <1>6, <1>7, <1>8 DEF StepKept, GivesUpAfterFaults, IInv

(* Requests and timers that change neither status nor connection. *)
LEMMA CallsKeep ==
    ASSUME IInv,
           \/ RequestTokenRefresh
           \/ \E r \in Request : SendRequest(r) \/ RequestTimeout(r)
    PROVE  StepKept
<1>. USE RemoteConnectionAssumption
<1>1. client \in Fields
  BY DEF IInv, TypeOK, Fields
<1>2. /\ client' \in Fields
      /\ client'.status = client.status /\ client'.ws = client.ws
      /\ client'.handlers = client.handlers /\ client'.attempts = client.attempts
      /\ client'.timer = client.timer /\ client'.intentional = client.intentional
      /\ client'.token = client.token
      /\ client'.pending # {} => client.pending # {} \/ client.status = "connected"
      /\ UNCHANGED <<peer, active, rotated, faults>>
  <2>1. CASE RequestTokenRefresh
    BY <1>1, <2>1 DEF RequestTokenRefresh, Fields
  <2>2. ASSUME NEW r \in Request, SendRequest(r) \/ RequestTimeout(r)
        PROVE  /\ client' \in Fields
               /\ client'.status = client.status /\ client'.ws = client.ws
               /\ client'.handlers = client.handlers /\ client'.attempts = client.attempts
               /\ client'.timer = client.timer /\ client'.intentional = client.intentional
               /\ client'.token = client.token
               /\ client'.pending # {} => client.pending # {} \/ client.status = "connected"
               /\ UNCHANGED <<peer, active, rotated, faults>>
    BY <1>1, <2>2 DEF SendRequest, RequestTimeout, Fields
  <2>. QED
    BY <2>1, <2>2
<1>3. \/ UNCHANGED link
      \/ /\ client.ws \in Socket /\ client.status = "connected"
         /\ \E m \in Messages : /\ m.type \in Request \cup {"refresh"}
                                /\ link' = Sent(client.ws, m)
  <2>1. CASE RequestTokenRefresh
    BY <1>1, <2>1, MessagesTyped DEF RequestTokenRefresh, Fields, Message
  <2>2. ASSUME NEW r \in Request, SendRequest(r)
        PROVE  /\ client.ws \in Socket /\ client.status = "connected"
               /\ \E m \in Messages : /\ m.type \in Request \cup {"refresh"}
                                      /\ link' = Sent(client.ws, m)
    BY <1>1, <2>2, MessagesTyped DEF SendRequest, Fields, Message
  <2>3. ASSUME NEW r \in Request, RequestTimeout(r) PROVE UNCHANGED link
    BY <2>3 DEF RequestTimeout
  <2>. QED
    BY <2>1, <2>2, <2>3
<1>4. /\ link' \in Links
      /\ \A s \in Socket : /\ link'[s].phase = link[s].phase /\ link'[s].down = link[s].down
                           /\ link'[s] = link[s] \/
                                /\ s = client.ws /\ client.status = "connected"
                                /\ \E m \in Messages : /\ m.type \in Request \cup {"refresh"}
                                                       /\ link'[s].up = Append(link[s].up, m)
  <2>1. link \in Links
    BY DEF IInv, TypeOK, Links
  <2>2. CASE UNCHANGED link
    BY <2>1, <2>2
  <2>3. ASSUME client.ws \in Socket, client.status = "connected",
               NEW m \in Messages, m.type \in Request \cup {"refresh"}, link' = Sent(client.ws, m)
        PROVE  /\ link' \in Links
               /\ \A s \in Socket :
                     /\ link'[s].phase = link[s].phase /\ link'[s].down = link[s].down
                     /\ s # client.ws => link'[s] = link[s]
               /\ link'[client.ws].up = Append(link[client.ws].up, m)
    <3>1. link' = [link EXCEPT ![client.ws].up = Append(@, m)]
      BY <2>3 DEF Sent
    <3>2. [link EXCEPT ![client.ws].up = Append(@, m)] \in Links
      BY <2>1, <2>3, Links1, Zenon
    <3>3. link' \in Links
      BY <3>1, <3>2
    <3>. QED
      BY <2>1, <2>3, <3>1, <3>3 DEF Links
  <2>. QED
    BY <1>3, <2>2, <2>3
<1>5. TypeOK'
  BY <1>2, <1>4 DEF IInv, TypeOK, Fields, Links
<1>6. ClientInv'
  BY <1>2 DEF IInv, ClientInv, OneSocketAlive, OneReconnection, AttemptsOfThisSeries,
              RequestsHaveAConnection, HandlersInv
<1>7. StageInv'
  <2>. SUFFICES ASSUME NEW s \in Socket, client.ws = s PROVE Stage(s)'
    BY <1>2 DEF StageInv
  <2>1. Stage(s)
    BY DEF IInv, StageInv
  <2>2. CASE link'[s] = link[s]
    BY <1>2, <2>1, <2>2, StageKept
  <2>3. CASE link[s].phase = "closed"
    BY <1>4, <2>3 DEF Stage
  <2>4. ASSUME link[s].phase # "closed", client.status = "connected",
               NEW m \in Messages, m.type \in Request \cup {"refresh"},
               link'[s].up = Append(link[s].up, m)
        PROVE  Stage(s)'
    <3>1. Serving(s)
      BY <2>1, <2>4 DEF Stage, Opening, Asking, Validating, Answering
    <3>2. link[s].up \in Seq(Messages)
      BY DEF IInv, TypeOK
    <3>3. \A i \in DOMAIN link'[s].up : link'[s].up[i].type \in Request \cup {"refresh"}
      BY <2>4, <3>1, <3>2 DEF Serving
    <3>4. Serving(s)'
      BY <1>2, <1>4, <3>1, <3>3 DEF Serving
    <3>. QED
      BY <3>4 DEF Stage
  <2>. QED
    BY <1>4, <2>2, <2>3, <2>4
<1>8. FaultsCounted'
  BY <1>2, <1>4 DEF IInv, FaultsCounted, Broken
<1>. QED
  BY <1>2, <1>5, <1>6, <1>7, <1>8 DEF StepKept, LifecycleStep, GivesUpAfterFaults, IInv

(* An open socket is asked to authenticate.                                  *)
LEMMA SocketOpensKeeps ==
    ASSUME IInv, NEW s \in Socket, SocketOpens(s)
    PROVE  StepKept
<1>1. link[s].phase = "opening" /\ client.ws = s /\ Opening(s)
  BY SocketOfClient DEF SocketOpens, IInv, Stage, Asking, Validating, Answering, Serving
<1>2. AuthRequest \in Messages
  BY MessagesTyped DEF AuthRequest, IInv, TypeOK
<1>3. /\ link' = [link EXCEPT ![s] = [phase |-> "open", up |-> <<AuthRequest>>, down |-> <<>>]]
      /\ peer' = [peer EXCEPT ![s] = [NoPeer EXCEPT !.in = TRUE]]
      /\ UNCHANGED <<client, active, rotated, faults>>
  BY DEF SocketOpens, AuthRequest
<1>4. <<AuthRequest>> \in Seq(Messages)
  BY <1>2
<1>5. /\ link' \in Links /\ link'[s] = [phase |-> "open", up |-> <<AuthRequest>>, down |-> <<>>]
      /\ \A t \in Socket : t # s => link'[t] = link[t]
  <2>1. link \in Links
    BY DEF IInv, TypeOK, Links
  <2>. DEFINE l == [phase |-> "open", up |-> <<AuthRequest>>, down |-> <<>>]
  <2>3. <<>> \in Seq(Messages)
    OBVIOUS
  <2>4. l \in [phase : {"closed", "opening", "open"}, up : Seq(Messages), down : Seq(Messages)]
    BY <1>4, <2>3
  <2>2. link' = [link EXCEPT ![s] = l]
    BY <1>3
  <2>. HIDE DEF l
  <2>5. link' \in Links /\ link'[s] = l /\ \A t \in Socket : t # s => link'[t] = link[t]
    BY <2>1, <2>2, <2>4 DEF Links
  <2>. QED
    BY <2>5 DEF l
<1>6. /\ peer' \in [Socket -> [in : BOOLEAN, auth : BOOLEAN,
                               token : Token \cup {NoToken}, validating : BOOLEAN]]
      /\ peer'[s].in /\ ~peer'[s].validating
  BY <1>3 DEF IInv, TypeOK, NoPeer
<1>7. TypeOK'
  BY <1>3, <1>5, <1>6 DEF IInv, TypeOK, Links
<1>8. ClientInv'
  BY <1>3 DEF IInv, ClientInv, OneSocketAlive, OneReconnection, AttemptsOfThisSeries,
              RequestsHaveAConnection, HandlersInv
<1>9. StageInv'
  <2>1. Asking(s)'
    BY <1>1, <1>3, <1>5, <1>6 DEF Asking, Opening, AuthRequest
  <2>. QED
    BY <1>1, <1>3, <2>1 DEF StageInv, Stage
<1>10. FaultsCounted'
  <2>1. link'[s].phase = "open"
    BY <1>5
  <2>2. ~Broken /\ ~Broken'
    BY <1>1, <1>3, <2>1 DEF Broken
  <2>. QED
    BY <1>3, <2>2 DEF IInv, FaultsCounted
<1>. QED
  BY <1>3, <1>7, <1>8, <1>9, <1>10 DEF StepKept, IInv, LifecycleStep, GivesUpAfterFaults

(* The socket fails or its loss is noticed: the one is a fault now, the other *)
(* was one before.                                                           *)
LEMMA CloseKeeps ==
    ASSUME IInv, NEW s \in Socket, SocketFails(s) \/ NoticesClose(s)
    PROVE  StepKept
<1>. USE RemoteConnectionAssumption
<1>1. /\ client.handlers[s] # "none" /\ client' = OnClose(s) /\ link' = LetGo(client')
      /\ UNCHANGED <<peer, active, rotated>>
  BY DEF SocketFails, NoticesClose
<1>2. /\ client' \in Fields /\ ClientInv' /\ StageInv' /\ ~Broken'
      /\ client'.token = client.token /\ client.ws = s
      /\ client'.attempts \in {0, client.attempts + 1}
      /\ client.status = "reconnecting" /\ client'.status = "disconnected"
              => client.attempts = MaxRetries
      /\ LifecycleStep
  BY <1>1, OnCloseKeeps DEF IInv
<1>3. /\ faults' \in 0 .. MaxFaults /\ faults \in Nat /\ client.attempts \in Nat
      /\ faults' >= faults + IF Broken THEN 0 ELSE 1
  BY <1>2 DEF SocketFails, NoticesClose, Broken, IInv, TypeOK
<1>4. rotated \/ client.attempts + 1 <= faults' + (IF client.token = NoToken THEN 1 ELSE 0)
  BY <1>3 DEF IInv, FaultsCounted
<1>5. TypeOK'
  BY <1>1, <1>2, <1>3, LetGoTyped DEF IInv, TypeOK, Fields, Links
<1>6. FaultsCounted'
  BY <1>1, <1>2, <1>3, <1>4 DEF FaultsCounted
<1>7. GivesUpAfterFaults
  BY <1>2, <1>3, <1>4 DEF GivesUpAfterFaults
<1>. QED
  BY <1>2, <1>5, <1>6, <1>7 DEF StepKept, IInv

-----------------------------------------------------------------------------
(* What the client reads.                                                    *)

(* It reads the answer to its authentication, which is alone on its way, or    *)
(* one to what it asked since.                                               *)
LEMMA ReadsOf ==
    ASSUME IInv, NEW s \in Socket, NEW m, Receives(s, m)
    PROVE  /\ m \in Messages /\ Read(s) \in Links
           /\ link[s].phase = "open" /\ client.handlers[s] # "none" /\ client.ws = s
           /\ \/ /\ Answering(s) /\ link[s].down = <<m>> /\ Read(s)[s].down = <<>>
                 /\ m.type \in {"auth_ok", "auth_failed"}
              \/ /\ Serving(s) /\ 1 \in DOMAIN link[s].down /\ link[s].down[1] = m
                 /\ m.type \in Request \cup {"refresh_ok", "refresh_failed"}
                 /\ m.type = "refresh_ok" => m.token \in Token
<1>1. /\ client.handlers[s] # "none" /\ link[s].phase = "open"
      /\ link[s].down # <<>> /\ Head(link[s].down) = m
  BY DEF Receives
<1>2. client.ws = s /\ Stage(s)
  BY <1>1, SocketOfClient DEF IInv
<1>3. m \in Messages /\ Read(s) \in Links /\ Read(s)[s].down = Tail(link[s].down)
  BY <1>1, Links2 DEF IInv
<1>4. link[s].down \in Seq(Messages)
  BY DEF IInv, TypeOK
<1>5. 1 \in DOMAIN link[s].down /\ link[s].down[1] = m
  BY <1>1, <1>4
<1>6. CASE Answering(s)
  <2>1. PICK x : link[s].down = <<x>> /\ x.type \in {"auth_ok", "auth_failed"}
    <3>1. Refused.type = "auth_failed" /\ \A t : Accepted(t).type = "auth_ok"
      BY DEF Refused, Accepted, Message
    <3>2. (\E t : link[s].down = <<Accepted(t)>>) \/ link[s].down = <<Refused>>
      BY <1>6 DEF Answering
    <3>. QED
      BY <3>1, <3>2
  <2>2. x = m
    BY <1>5, <2>1
  <2>3. Tail(link[s].down) = <<>>
    BY <2>1
  <2>. QED
    BY <1>1, <1>2, <1>3, <1>6, <2>1, <2>2, <2>3
<1>7. CASE Serving(s)
  BY <1>1, <1>2, <1>3, <1>5, <1>7 DEF Serving, NewToken
<1>8. Answering(s) \/ Serving(s)
  BY <1>1, <1>2 DEF Stage, Opening, Asking, Validating
<1>. QED
  BY <1>6, <1>7, <1>8

(* An accepted client takes the token it is told.                            *)
LEMMA AuthAcceptedKeeps ==
    ASSUME IInv, NEW s \in Socket, AuthAccepted(s)
    PROVE  StepKept
<1>. USE RemoteConnectionAssumption
<1>1. PICK token \in Token \cup {NoToken} :
        /\ Receives(s, Accepted(token))
        /\ client' = [StoreToken(client, token) EXCEPT
                !.status = "connected",
                !.attempts = IF client.handlers[s] = "reconnect" \/ client.status = "reconnecting"
                             THEN 0 ELSE @]
        /\ link' = Read(s) /\ UNCHANGED <<peer, active, rotated, faults>>
  BY DEF AuthAccepted
<1>2. /\ client.handlers[s] # "none" /\ link[s].phase = "open"
      /\ link[s].down # <<>> /\ Head(link[s].down) = Accepted(token)
  BY <1>1 DEF Receives
<1>3. /\ client.ws = s /\ Stage(s) /\ client.status # "disconnected"
      /\ ~client.intentional /\ ~client.timer
      /\ client.status = "reconnecting" => client.handlers[s] = "reconnect"
      /\ client.attempts > 0 <=> client.status = "reconnecting"
  BY <1>2, SocketOfClient DEF IInv
<1>4. Accepted(token).type = "auth_ok" /\ Accepted(token).token = token
  BY DEF Accepted, Message
<1>5. /\ Answering(s) /\ link[s].down = <<Accepted(token)>>
      /\ Read(s) \in Links /\ Read(s)[s].down = <<>>
  BY <1>1, <1>4, ReadsOf
<1>6. Accepted(token) # Refused
  BY <1>4 DEF Refused, Message
<1>7. /\ peer[s].auth
      /\ token = NoToken => peer[s].token = client.token
      /\ token # NoToken => peer[s].token = token
  <2>1. \A x, y : <<x>> = <<y>> => x = y
    OBVIOUS
  <2>2. link[s].down # <<Refused>>
    BY <1>5, <1>6, <2>1
  <2>3. \A t : link[s].down = <<Accepted(t)>> => t = token
    BY <1>5, <2>1 DEF Accepted, Message
  <2>. QED
    BY <1>5, <2>2, <2>3 DEF Answering
<1>8. client \in Fields
  BY DEF IInv, TypeOK, Fields
<1>9. /\ client' \in Fields /\ client'.status = "connected" /\ client'.attempts = 0
      /\ client'.ws = s /\ client'.handlers = client.handlers /\ ~client'.timer
      /\ ~client'.intentional
      /\ client'.token = IF token = NoToken THEN client.token ELSE token
  <2>. DEFINE c == StoreToken(client, token)
  <2>1. /\ c \in Fields /\ c.ws = s /\ c.handlers = client.handlers /\ ~c.timer /\ ~c.intentional
        /\ c.attempts = client.attempts
        /\ c.token = IF token = NoToken THEN client.token ELSE token
    BY <1>3, <1>8 DEF StoreToken, Fields
  <2>2. PICK n : /\ client' = [c EXCEPT !.status = "connected", !.attempts = n]
                 /\ n = IF client.handlers[s] = "reconnect" \/ client.status = "reconnecting"
                        THEN 0 ELSE c.attempts
    BY <1>1
  <2>3. n = 0 /\ n \in 0 .. MaxRetries
    BY <1>3, <1>8, <2>1, <2>2 DEF Fields
  <2>. HIDE DEF c
  <2>. QED
    BY <2>1, <2>2, <2>3 DEF Fields
<1>10. /\ link' \in Links /\ link'[s].phase = "open" /\ link'[s].up = <<>> /\ link'[s].down = <<>>
  BY <1>1, <1>2, <1>5, Links2 DEF IInv, Answering
<1>11. TypeOK'
  BY <1>1, <1>9, <1>10 DEF IInv, TypeOK, Fields, Links
<1>12. ClientInv'
  BY <1>3, <1>9 DEF IInv, ClientInv, OneSocketAlive, OneReconnection, AttemptsOfThisSeries,
                    RequestsHaveAConnection, HandlersInv
<1>13. StageInv'
  <2>1. client'.token = peer'[s].token
    BY <1>1, <1>7, <1>9
  <2>2. Serving(s)'
    BY <1>1, <1>5, <1>7, <1>9, <1>10, <2>1 DEF Serving, Answering, LastTokenIsServers
  <2>. QED
    BY <1>9, <2>2 DEF StageInv, Stage
<1>14. FaultsCounted'
  BY <1>1, <1>9, <1>10 DEF FaultsCounted, Broken, IInv, TypeOK
<1>15. LifecycleStep
  BY <1>3, <1>8, <1>9, LifecycleSteps DEF Fields
<1>. QED
  BY <1>9, <1>11, <1>12, <1>13, <1>14, <1>15 DEF StepKept, IInv, GivesUpAfterFaults

(* Only a token, or a server token that was rotated, is refused: the client    *)
(* drops the token, which makes up for the attempt.                          *)
LEMMA AuthRefusedKeeps ==
    ASSUME IInv, NEW s \in Socket, AuthRefused(s)
    PROVE  StepKept
<1>. USE RemoteConnectionAssumption
<1>. DEFINE d == DropToken(client)
            c == CleanupConnection(d)
<1>1. /\ client.handlers[s] # "none" /\ link[s].phase = "open"
      /\ link[s].down # <<>> /\ Head(link[s].down) = Refused
      /\ client' = IF client.handlers[s] = "connect"
                   THEN [Cleanup(d) EXCEPT !.status = "disconnected"] ELSE ScheduleReconnect(c)
      /\ link' = LetGo(client') /\ UNCHANGED <<peer, active, rotated, faults>>
  BY DEF AuthRefused, Receives
<1>2. /\ client.ws = s /\ Stage(s)
      /\ client.status = "reconnecting" => client.handlers[s] = "reconnect"
      /\ client.handlers[s] \in {"connect", "reconnect"}
      /\ client.attempts > 0 <=> client.status = "reconnecting"
      /\ client.handlers[s] = "reconnect" => client.status \in {"connected", "reconnecting"}
  BY <1>1, SocketOfClient DEF IInv, ClientInv, HandlersInv, TypeOK
<1>3. Answering(s) /\ link[s].down = <<Refused>>
  BY ReadsOf DEF AuthRefused, Refused, Message
<1>4. client.token # NoToken \/ rotated
  <2>1. \A x, y : <<x>> = <<y>> => x = y
    OBVIOUS
  <2>2. \A t : Accepted(t) # Refused
    BY DEF Accepted, Refused, Message
  <2>3. \A t : link[s].down # <<Accepted(t)>>
    BY <1>3, <2>1, <2>2
  <2>. QED
    BY <1>3, <2>3 DEF Answering
<1>5. client \in Fields /\ client.attempts \in Nat /\ faults \in Nat
  BY DEF IInv, TypeOK, Fields
<1>6. d.token = NoToken
  BY <1>5 DEF DropToken, Fields
<1>7. /\ Free(c) /\ c.status = client.status /\ c.attempts = client.attempts
      /\ c.token = NoToken /\ ~c.intentional /\ client.status # "disconnected"
  BY <1>1, <1>6, CleanedUp DEF IInv
<1>8. rotated \/ client.attempts <= faults
  BY <1>1, <1>2, <1>4, <1>5 DEF IInv, FaultsCounted, Broken
<1>. HIDE DEF c
<1>9. CASE client.handlers[s] = "connect"
  <2>1. client' = [c EXCEPT !.timer = FALSE, !.attempts = 0, !.status = "disconnected"]
    BY <1>1, <1>7, <1>9 DEF Cleanup, Free, Fields, c
  <2>2. 0 \in 0 .. MaxRetries
    OBVIOUS
  <2>3. /\ client' \in Fields /\ client'.ws = NoSocket /\ client'.pending = {}
        /\ client'.handlers = c.handlers
        /\ client'.status = "disconnected" /\ client'.attempts = 0 /\ ~client'.timer
        /\ client'.token = NoToken
    BY <1>7, <2>1, <2>2 DEF Free, Fields
  <2>4. ClientInv' /\ StageInv' /\ ~Broken'
    BY <1>7, <2>3, FreeClient DEF Free
  <2>5. TypeOK'
    BY <1>1, <2>3, LetGoTyped DEF IInv, TypeOK, Fields, Links
  <2>6. FaultsCounted'
    BY <1>1, <1>5, <2>3, <2>4 DEF FaultsCounted
  <2>7. LifecycleStep
    BY <2>3 DEF LifecycleStep, Lifecycle!Next, Lifecycle!Disconnect
  <2>. QED
    BY <1>2, <1>9, <2>4, <2>5, <2>6, <2>7 DEF StepKept, GivesUpAfterFaults, IInv
<1>10. CASE client.handlers[s] = "reconnect"
  <2>1. client' = ScheduleReconnect(c)
    BY <1>1, <1>10
  <2>2. /\ client' \in Fields /\ client'.ws = NoSocket /\ client'.pending = {} /\ ~client'.intentional
        /\ client'.handlers = c.handlers /\ client'.token = NoToken
        /\ \/ /\ client.attempts = MaxRetries
              /\ client'.status = "disconnected" /\ client'.attempts = 0 /\ ~client'.timer
           \/ /\ client.attempts < MaxRetries
              /\ client'.status = "reconnecting" /\ client'.attempts = client.attempts + 1
              /\ client'.timer
    BY <1>7, <2>1, Rescheduled
  <2>3. ClientInv' /\ StageInv' /\ ~Broken'
    BY <1>5, <1>7, <2>2, FreeClient DEF Free
  <2>4. TypeOK'
    BY <1>1, <2>2, LetGoTyped DEF IInv, TypeOK, Fields, Links
  <2>5. FaultsCounted' /\ GivesUpAfterFaults
    BY <1>1, <1>5, <1>8, <2>2, <2>3 DEF FaultsCounted, GivesUpAfterFaults
  <2>6. LifecycleStep
    BY <1>2, <1>10, <2>2, LifecycleSteps
  <2>. QED
    BY <2>3, <2>4, <2>5, <2>6 DEF StepKept, IInv
<1>. QED
  BY <1>2, <1>9, <1>10

(* Answers to requests and refreshes.                                        *)
LEMMA AnswersKeep ==
    ASSUME IInv, NEW s \in Socket, RefreshAnswered(s) \/ RequestAnswered(s)
    PROVE  StepKept
<1>. USE RemoteConnectionAssumption
<1>1. client \in Fields
  BY DEF IInv, TypeOK, Fields
<1>2. PICK m :
        /\ Receives(s, m) /\ link' = Read(s) /\ UNCHANGED <<peer, active, rotated, faults>>
        /\ m.type \in Request \cup {"refresh_ok", "refresh_failed"}
        /\ \/ /\ NewToken(m) /\ client.handlers[s] = "connect"
              /\ client' = StoreToken(client, m.token)
           \/ UNCHANGED client /\ (NewToken(m) => client.handlers[s] # "connect")
           \/ /\ ~NewToken(m)
              /\ \E r \in Request : client' = [client EXCEPT !.pending = @ \ {r}]
  <2>1. CASE RefreshAnswered(s)
    BY <2>1 DEF RefreshAnswered, Refreshed, NotRefreshed, Message, NewToken
  <2>2. CASE RequestAnswered(s)
    <3>1. PICK r \in Request : /\ Receives(s, Message(r, NoToken))
                               /\ client' = [client EXCEPT !.pending = @ \ {r}]
      BY <2>2 DEF RequestAnswered
    <3>2. Message(r, NoToken).type = r /\ ~NewToken(Message(r, NoToken))
      BY DEF Message, NewToken
    <3>3. link' = Read(s) /\ UNCHANGED <<peer, active, rotated, faults>>
      BY <2>2 DEF RequestAnswered
    <3>. QED
      BY <3>1, <3>2, <3>3
  <2>. QED
    BY <2>1, <2>2
<1>3. /\ Read(s) \in Links /\ link[s].phase = "open" /\ client.ws = s /\ Serving(s)
      /\ 1 \in DOMAIN link[s].down /\ link[s].down[1] = m
      /\ NewToken(m) => m.token \in Token
  BY <1>2, ReadsOf DEF NewToken
<1>4. /\ client' \in Fields /\ client'.status = "connected" /\ client'.ws = s
      /\ client'.handlers = client.handlers /\ client'.attempts = client.attempts
      /\ client'.timer = client.timer /\ client'.intentional = client.intentional
      /\ client.handlers[s] = "connect" =>
            client'.token = IF NewToken(m) THEN m.token ELSE client.token
  <2>1. CASE client' = StoreToken(client, m.token) /\ NewToken(m)
    <3>1. client' = [client EXCEPT !.token = m.token, !.refreshTimer = TRUE]
      BY <1>3, <2>1 DEF StoreToken
    <3>. QED
      BY <1>1, <1>3, <2>1, <3>1 DEF Fields, Serving
  <2>2. CASE UNCHANGED client /\ (NewToken(m) => client.handlers[s] # "connect")
    BY <1>1, <1>3, <2>2 DEF Serving
  <2>3. CASE ~NewToken(m) /\ \E r \in Request : client' = [client EXCEPT !.pending = @ \ {r}]
    BY <1>1, <1>3, <2>3 DEF Fields, Serving
  <2>. QED
    BY <1>2, <2>1, <2>2, <2>3
<1>5. TypeOK'
  BY <1>2, <1>3, <1>4 DEF IInv, TypeOK, Fields, Links
<1>6. ClientInv'
  BY <1>3, <1>4 DEF IInv, ClientInv, OneSocketAlive, OneReconnection, AttemptsOfThisSeries,
                    RequestsHaveAConnection, HandlersInv, Serving
<1>7. Serving(s)'
  <2>1. link[s].down \in Seq(Messages)
    BY DEF IInv, TypeOK
  <2>2. /\ link'[s].phase = "open" /\ link'[s].up = link[s].up
        /\ link'[s].down = Tail(link[s].down)
    BY <1>2, <1>3, Links2 DEF IInv
  <2>3. \A i \in DOMAIN link'[s].down :
           i + 1 \in DOMAIN link[s].down /\ link'[s].down[i] = link[s].down[i + 1]
    BY <1>3, <2>1, <2>2
  <2>4. \A i \in DOMAIN link'[s].down :
          /\ link'[s].down[i].type \in Request \cup {"refresh_ok", "refresh_failed"}
          /\ NewToken(link'[s].down[i]) => link'[s].down[i].token \in Token
    BY <1>3, <2>3 DEF Serving
  <2>5. client'.handlers[s] = "connect" =>
          LastTokenIsServers(link'[s].down, client'.token, peer'[s].token)
    BY <1>2, <1>3, <1>4, <2>1, <2>2, LastTokenRead DEF Serving
  <2>. QED
    BY <1>2, <1>3, <1>4, <2>2, <2>4, <2>5 DEF Serving
<1>8. StageInv'
  BY <1>4, <1>7 DEF StageInv, Stage
<1>9. FaultsCounted'
  <2>1. ~Broken'
    BY <1>4, <1>7 DEF Broken, Serving
  <2>2. client'.attempts = 0
    BY <1>1, <1>3, <1>4 DEF IInv, ClientInv, AttemptsOfThisSeries, Serving, Fields
  <2>. QED
    BY <1>2, <2>1, <2>2 DEF FaultsCounted, IInv, TypeOK
<1>. QED
  BY <1>3, <1>4, <1>5, <1>6, <1>8, <1>9
     DEF StepKept, IInv, LifecycleStep, GivesUpAfterFaults, Serving

-----------------------------------------------------------------------------
(* The server.                                                               *)

Peers == [Socket -> [in : BOOLEAN, auth : BOOLEAN,
                     token : Token \cup {NoToken}, validating : BOOLEAN]]

(* It takes the authentication, which is alone on its way, or what the client  *)
(* asks once that was accepted.                                              *)
LEMMA TakesOf ==
    ASSUME IInv, NEW s \in Socket, NEW m, Takes(s, m)
    PROVE  /\ m \in Messages /\ Taken(s) \in Links /\ peer[s].in
           /\ client.ws = s /\ link[s].phase # "closed" =>
                \/ /\ Asking(s) /\ m = AuthRequest /\ Taken(s)[s].up = <<>>
                   /\ link[s].down = <<>>
                \/ Serving(s) /\ m.type \in Request \cup {"refresh"}
<1>1. link[s].up # <<>> /\ Head(link[s].up) = m /\ peer[s].in
  BY DEF Takes
<1>2. m \in Messages /\ Taken(s) \in Links /\ Taken(s)[s].up = Tail(link[s].up)
  BY <1>1, Links2 DEF IInv
<1>3. link[s].up \in Seq(Messages)
  BY DEF IInv, TypeOK
<1>4. 1 \in DOMAIN link[s].up /\ link[s].up[1] = m
  BY <1>1, <1>3
<1>5. CASE Asking(s)
  <2>1. link[s].up = <<AuthRequest>> /\ link[s].down = <<>>
    BY <1>5 DEF Asking
  <2>2. m = AuthRequest /\ Tail(link[s].up) = <<>>
    BY <1>4, <2>1
  <2>. QED
    BY <1>1, <1>2, <1>5, <2>1, <2>2
<1>6. CASE Serving(s)
  BY <1>1, <1>2, <1>4, <1>6 DEF Serving
<1>7. client.ws = s /\ link[s].phase # "closed" => Asking(s) \/ Serving(s)
  BY <1>1 DEF IInv, StageInv, Stage, Opening, Validating, Answering
<1>. QED
  BY <1>1, <1>2, <1>5, <1>6, <1>7

(* The server takes a message and answers it.                                *)
LEMMA AnsweredTaken ==
    ASSUME IInv, NEW s \in Socket, Taken(s) \in Links, NEW m \in Messages
    PROVE  /\ Answered(Taken(s), s, m) \in Links
           /\ \A t \in Socket : /\ Answered(Taken(s), s, m)[t].phase = link[t].phase
                                /\ t # s => Answered(Taken(s), s, m)[t] = link[t]
           /\ Answered(Taken(s), s, m)[s].up = Tail(link[s].up)
           /\ link[s].phase = "open" =>
                 Answered(Taken(s), s, m)[s].down = Append(link[s].down, m)
<1>. DEFINE l == Taken(s)
<1>1. /\ l[s].up = Tail(link[s].up) /\ l[s].down = link[s].down
      /\ \A t \in Socket : l[t].phase = link[t].phase /\ (t # s => l[t] = link[t])
  BY Links2 DEF IInv
<1>2. l \in Links
  OBVIOUS
<1>. HIDE DEF l
<1>3. /\ Answered(l, s, m) \in Links
      /\ \A t \in Socket : /\ Answered(l, s, m)[t].phase = l[t].phase
                           /\ Answered(l, s, m)[t].up = l[t].up
                           /\ t # s => Answered(l, s, m)[t] = l[t]
      /\ l[s].phase = "open" => Answered(l, s, m)[s].down = Append(l[s].down, m)
  BY <1>2, Links1
<1>4. /\ Answered(l, s, m) \in Links
      /\ \A t \in Socket : /\ Answered(l, s, m)[t].phase = link[t].phase
                           /\ t # s => Answered(l, s, m)[t] = link[t]
      /\ Answered(l, s, m)[s].up = Tail(link[s].up)
      /\ link[s].phase = "open" => Answered(l, s, m)[s].down = Append(link[s].down, m)
  BY <1>1, <1>3
<1>. QED
  BY <1>4 DEF l

(* What it does with a message of which the answer, if any, is neither a new   *)
(* token nor about the authentication.                                       *)
LEMMA AuthAnswered ==
    ASSUME IInv, NEW s \in Socket, UNCHANGED <<client, rotated>>,
           NEW l \in Links, l[s].phase = link[s].phase, l[s].up = <<>>, l[s].down = <<>>,
           link[s].phase = "open", client.status # "connected",
           peer'[s].in, ~peer'[s].validating,
           NEW m \in Messages, link' = Answered(l, s, m),
           \/ m = Refused /\ (client.token # NoToken \/ rotated)
           \/ /\ peer'[s].auth
              /\ \/ \E t \in Token : m = Accepted(t) /\ peer'[s].token = t
                 \/ m = Accepted(NoToken) /\ peer'[s].token = client.token
    PROVE  Stage(s)'
<1>1. /\ link'[s].phase = "open" /\ link'[s].up = <<>>
      /\ link'[s].down = Append(l[s].down, m)
  <2>1. /\ Answered(l, s, m)[s].phase = l[s].phase /\ Answered(l, s, m)[s].up = l[s].up
        /\ l[s].phase = "open" => Answered(l, s, m)[s].down = Append(l[s].down, m)
    BY Links1
  <2>. QED
    BY <2>1
<1>2. link'[s].down = <<m>>
  BY <1>1
<1>3. Answering(s)'
  BY <1>1, <1>2 DEF Answering
<1>. QED
  BY <1>3 DEF Stage

(* The server checks a connection token.                                     *)
LEMMA HandleAuthKeeps ==
    ASSUME IInv, NEW s \in Socket, HandleConnectionToken(s)
    PROVE  StepKept
<1>. USE RemoteConnectionAssumption
<1>1. PICK token \in Token :
        /\ Takes(s, Message("auth_connection", token))
        /\ \/ /\ peer' = [peer EXCEPT ![s] = AuthenticatedBy(@, token)]
              /\ link' = Answered(Taken(s), s, Accepted(NoToken))
           \/ link' = Answered(Taken(s), s, Refused) /\ UNCHANGED peer
        /\ UNCHANGED <<client, rotated, faults>> /\ UNCHANGED active
  BY DEF HandleConnectionToken
<1>2. Taken(s) \in Links /\ peer \in Peers /\ Accepted(NoToken) \in Messages /\ Refused \in Messages
  BY <1>1, TakesOf, MessagesTyped DEF IInv, TypeOK, Peers
<1>3. /\ link' \in Links /\ link'[s].phase = link[s].phase
      /\ \A t \in Socket : t # s => link'[t] = link[t]
  BY <1>1, <1>2, AnsweredTaken
<1>4. /\ peer' \in Peers /\ \A t \in Socket : t # s => peer'[t] = peer[t]
      /\ peer'[s].in = peer[s].in /\ peer'[s].validating = peer[s].validating
      /\ \/ /\ peer'[s].auth /\ peer'[s].token = token
            /\ link' = Answered(Taken(s), s, Accepted(NoToken))
         \/ link' = Answered(Taken(s), s, Refused)
  <2>1. CASE peer' = [peer EXCEPT ![s] = AuthenticatedBy(@, token)]
             /\ link' = Answered(Taken(s), s, Accepted(NoToken))
    BY <1>2, <2>1 DEF Peers, AuthenticatedBy
  <2>2. CASE link' = Answered(Taken(s), s, Refused) /\ UNCHANGED peer
    BY <1>2, <2>2
  <2>. QED
    BY <1>1, <2>1, <2>2
<1>5. ASSUME client.ws = s, link[s].phase # "closed"
      PROVE  Stage(s)'
  <2>1. Message("auth_connection", token).type = "auth_connection"
        /\ Message("auth_connection", token).token = token
    BY DEF Message
  <2>2. /\ Asking(s) /\ Message("auth_connection", token) = AuthRequest
        /\ Taken(s)[s].up = <<>> /\ link[s].down = <<>>
    BY <1>1, <1>5, <2>1, TakesOf
  <2>3. client.token = token
    BY <2>1, <2>2 DEF AuthRequest, Message
  <2>4. /\ Taken(s)[s].phase = "open" /\ Taken(s)[s].down = <<>> /\ link[s].phase = "open"
        /\ peer[s].in /\ ~peer[s].validating /\ client.status # "connected"
    BY <2>2, Links2 DEF IInv, Asking
  <2>. QED
    BY <1>1, <1>2, <1>4, <2>2, <2>3, <2>4, AuthAnswered
<1>. QED
  BY <1>1, <1>3, <1>4, <1>5, OtherEndKeeps DEF IInv, TypeOK, Peers

(* The server starts to validate a server token.                             *)
LEMMA HandleServerTokenKeeps ==
    ASSUME IInv, NEW s \in Socket, HandleServerToken(s)
    PROVE  StepKept
<1>1. /\ Takes(s, Message("auth_server", NoToken)) /\ link' = Taken(s)
      /\ peer' = [peer EXCEPT ![s].validating = TRUE]
      /\ UNCHANGED <<client, active, rotated, faults>>
  BY DEF HandleServerToken
<1>2. /\ peer' \in Peers /\ \A t \in Socket : t # s => peer'[t] = peer[t]
      /\ peer'[s].in = peer[s].in /\ peer'[s].validating
  BY <1>1 DEF IInv, TypeOK, Peers
<1>3. Taken(s) \in Links
  BY <1>1, TakesOf
<1>4. /\ \A t \in Socket : t # s => link'[t] = link[t]
      /\ link'[s].phase = link[s].phase /\ link'[s].down = link[s].down
  BY <1>1, Links2 DEF IInv
<1>5. ASSUME client.ws = s, link[s].phase # "closed"
      PROVE  Stage(s)'
  <2>1. /\ Message("auth_server", NoToken).type = "auth_server"
        /\ "auth_server" \notin Request \cup {"refresh"}
    BY RemoteConnectionAssumption DEF Message
  <2>2. /\ Asking(s) /\ Message("auth_server", NoToken) = AuthRequest
        /\ Taken(s)[s].up = <<>> /\ link[s].down = <<>>
    BY <1>1, <1>5, <2>1, TakesOf
  <2>3. client.token = NoToken
    BY <2>1, <2>2 DEF AuthRequest, Message
  <2>4. link'[s] = [phase |-> "open", up |-> <<>>, down |-> <<>>]
    BY <1>1, <1>3, <1>4, <2>2 DEF Asking, Links
  <2>5. Validating(s)'
    BY <1>1, <1>2, <2>2, <2>3, <2>4 DEF Validating, Asking
  <2>. QED
    BY <2>5 DEF Stage
<1>6. active' \subseteq [value : Token, owner : Socket]
  BY <1>1 DEF IInv, TypeOK
<1>. QED
  BY <1>1, <1>2, <1>3, <1>4, <1>5, <1>6, OtherEndKeeps DEF Peers

(* A token that is issued is a new one.                                      *)
LEMMA Issued ==
    ASSUME IInv, UnusedTokens # {}, NEW owner \in Socket, NEW tokens \in SUBSET active
    PROVE  /\ OneOf(UnusedTokens) \in Token
           /\ Issue(tokens, owner, OneOf(UnusedTokens)) \subseteq [value : Token, owner : Socket]
<1>1. OneOf(UnusedTokens) \in UnusedTokens
  BY DEF OneOf
<1>. HIDE DEF OneOf
<1>2. OneOf(UnusedTokens) \in Token
  BY <1>1 DEF UnusedTokens
<1>. QED
  BY <1>2 DEF Issue, IInv, TypeOK

(* A validated server token brings a connection token.                       *)
LEMMA ValidatedKeeps ==
    ASSUME IInv, NEW s \in Socket, ServerTokenValidated(s)
    PROVE  StepKept
<1>. USE RemoteConnectionAssumption
<1>1. /\ peer[s].validating /\ UNCHANGED <<client, rotated, faults>>
  BY DEF ServerTokenValidated
<1>2. PICK token \in Token \cup {NoToken}, m \in Messages :
        /\ link' = Answered(link, s, m)
        /\ active' \subseteq [value : Token, owner : Socket]
        /\ peer' \in Peers /\ \A t \in Socket : t # s => peer'[t] = peer[t]
        /\ peer'[s].in = peer[s].in /\ ~peer'[s].validating
        /\ \/ rotated /\ m = Refused
           \/ /\ token \in Token /\ m = Accepted(token)
              /\ peer[s].in => peer'[s].auth /\ peer'[s].token = token
  <2>1. CASE rotated
    <3>1. /\ peer' = [peer EXCEPT ![s].validating = FALSE]
          /\ link' = Answered(link, s, Refused) /\ UNCHANGED active
      BY <2>1 DEF ServerTokenValidated
    <3>2. /\ peer' \in Peers /\ \A t \in Socket : t # s => peer'[t] = peer[t]
          /\ peer'[s].in = peer[s].in /\ ~peer'[s].validating
      <4>1. peer \in Peers
        BY DEF IInv, TypeOK, Peers
      <4>. QED
        BY <3>1, <4>1 DEF Peers
    <3>. QED
      BY <2>1, <3>1, <3>2, MessagesTyped DEF IInv, TypeOK
  <2>2. CASE ~rotated
    <3>. DEFINE token == OneOf(UnusedTokens)
    <3>1. /\ UnusedTokens # {}
          /\ peer' = [peer EXCEPT
                        ![s] = [@ EXCEPT !.validating = FALSE, !.auth = peer[s].in,
                                         !.token = IF peer[s].in THEN token ELSE NoToken]]
          /\ active' = Issue(active, s, token)
          /\ link' = Answered(link, s, Accepted(token))
      BY <2>2 DEF ServerTokenValidated
    <3>2. token \in Token /\ active' \subseteq [value : Token, owner : Socket]
      BY <3>1, Issued
    <3>. HIDE DEF token
    <3>3. /\ peer' \in Peers /\ \A t \in Socket : t # s => peer'[t] = peer[t]
          /\ peer'[s].in = peer[s].in /\ ~peer'[s].validating
          /\ peer[s].in => peer'[s].auth /\ peer'[s].token = token
      <4>. DEFINE p == [peer[s] EXCEPT !.validating = FALSE, !.auth = peer[s].in,
                                       !.token = IF peer[s].in THEN token ELSE NoToken]
      <4>1. peer \in Peers
        BY DEF IInv, TypeOK, Peers
      <4>2. /\ p \in [in : BOOLEAN, auth : BOOLEAN, token : Token \cup {NoToken},
                       validating : BOOLEAN]
            /\ p.in = peer[s].in /\ ~p.validating
            /\ peer[s].in => p.auth /\ p.token = token
        BY <3>2, <4>1 DEF Peers
      <4>3. peer' = [peer EXCEPT ![s] = p]
        BY <3>1, <4>1 DEF Peers
      <4>. HIDE DEF p
      <4>. QED
        BY <4>1, <4>2, <4>3 DEF Peers
    <3>. QED
      BY <3>1, <3>2, <3>3, MessagesTyped
  <2>. QED
    BY <2>1, <2>2
<1>3. link \in Links
  BY DEF IInv, TypeOK, Links
<1>4. /\ link' \in Links /\ link'[s].phase = link[s].phase
      /\ \A t \in Socket : t # s => link'[t] = link[t]
  <2>1. m \in Messages
    OBVIOUS
  <2>2. /\ Answered(link, s, m) \in Links
        /\ \A t \in Socket : /\ Answered(link, s, m)[t].phase = link[t].phase
                             /\ Answered(link, s, m)[t].up = link[t].up
                             /\ t # s => Answered(link, s, m)[t] = link[t]
    BY <1>3, <2>1, Links1
  <2>. QED
    BY <1>2, <2>2
<1>5. ASSUME client.ws = s, link[s].phase # "closed"
      PROVE  Stage(s)'
  <2>1. Validating(s)
    BY <1>1, <1>5 DEF IInv, StageInv, Stage, Opening, Asking, Answering, Serving
  <2>2. /\ link[s].phase = "open" /\ link[s].up = <<>> /\ link[s].down = <<>>
        /\ peer[s].in /\ client.status # "connected"
    BY <2>1 DEF Validating
  <2>. QED
    BY <1>1, <1>2, <1>3, <2>2, AuthAnswered
<1>. QED
  BY <1>1, <1>2, <1>4, <1>5, OtherEndKeeps DEF Peers

(* A connection that is served stays so with a further answer. *)
LEMMA ServingAnswered ==
    ASSUME IInv, NEW s \in Socket, UNCHANGED client, Serving(s), Taken(s) \in Links,
           link[s].up # <<>>,
           NEW m \in Messages, link' \in {Taken(s), Answered(Taken(s), s, m)},
           m.type \in Request \cup {"refresh_ok", "refresh_failed"},
           peer'[s].in, peer'[s].auth, ~peer'[s].validating,
           \/ ~NewToken(m) /\ peer'[s].token = peer[s].token
           \/ /\ NewToken(m) /\ m.token \in Token /\ peer'[s].token = m.token
              /\ link' = Answered(Taken(s), s, m)
    PROVE  Stage(s)'
<1>1. link[s].up \in Seq(Messages) /\ link[s].down \in Seq(Messages) /\ link[s].phase = "open"
  BY DEF IInv, TypeOK, Serving
<1>2. /\ link'[s].phase = "open" /\ link'[s].up = Tail(link[s].up)
      /\ \/ link' = Taken(s) /\ link'[s].down = link[s].down
         \/ link' = Answered(Taken(s), s, m) /\ link'[s].down = Append(link[s].down, m)
  <2>1. CASE link' = Taken(s)
    BY <1>1, <2>1, Links2 DEF IInv
  <2>2. CASE link' = Answered(Taken(s), s, m)
    BY <1>1, <2>2, AnsweredTaken
  <2>. QED
    BY <2>1, <2>2
<1>3. \A i \in DOMAIN link'[s].up : i + 1 \in DOMAIN link[s].up
                                    /\ link'[s].up[i] = link[s].up[i + 1]
  BY <1>1, <1>2
<1>4. \A i \in DOMAIN link'[s].down :
         \/ link'[s].down[i] = m
         \/ i \in DOMAIN link[s].down /\ link'[s].down[i] = link[s].down[i]
  <2>1. CASE link'[s].down = link[s].down
    BY <2>1
  <2>2. CASE link'[s].down = Append(link[s].down, m)
    <3>1. \A d \in Seq(Messages) : \A i \in DOMAIN Append(d, m) :
             Append(d, m)[i] = m \/ (i \in DOMAIN d /\ Append(d, m)[i] = d[i])
      OBVIOUS
    <3>2. \A i \in DOMAIN Append(link[s].down, m) :
             \/ Append(link[s].down, m)[i] = m
             \/ i \in DOMAIN link[s].down /\ Append(link[s].down, m)[i] = link[s].down[i]
      BY <1>1, <3>1, Zenon
    <3>. QED
      BY <2>2, <3>2
  <2>. QED
    BY <1>2, <2>1, <2>2
<1>5. client.handlers[s] = "connect" =>
          LastTokenIsServers(link'[s].down, client.token, peer'[s].token)
  <2>. SUFFICES ASSUME client.handlers[s] = "connect"
                PROVE  LastTokenIsServers(link'[s].down, client.token, peer'[s].token)
    OBVIOUS
  <2>1. LastTokenIsServers(link[s].down, client.token, peer[s].token)
    BY DEF Serving
  <2>2. LastTokenIsServers(Append(link[s].down, m), client.token,
                           IF NewToken(m) THEN m.token ELSE peer[s].token)
    BY <1>1, <2>1, LastTokenSent
  <2>3. CASE link'[s].down = Append(link[s].down, m)
    BY <2>2, <2>3
  <2>4. CASE link' = Taken(s) /\ link'[s].down = link[s].down /\ ~NewToken(m)
    BY <2>1, <2>4
  <2>5. CASE link' = Taken(s) /\ link'[s].down = link[s].down /\ NewToken(m)
    <3>1. link'[s].down = Append(link[s].down, m)
      BY <1>1, <2>5, AnsweredTaken
    <3>. QED
      BY <2>2, <3>1, <2>5
  <2>. QED
    BY <1>2, <2>3, <2>4, <2>5
<1>6. Serving(s)'
  BY <1>2, <1>3, <1>4, <1>5 DEF Serving
<1>. QED
  BY <1>6 DEF Stage

(* The server answers a request of an authenticated client.                  *)
LEMMA HandleRequestKeeps ==
    ASSUME IInv, NEW s \in Socket, HandleRequest(s)
    PROVE  StepKept
<1>. USE RemoteConnectionAssumption
<1>1. PICK r \in Request :
        /\ Takes(s, Message(r, NoToken))
        /\ link' \in {Taken(s), Answered(Taken(s), s, Message(r, NoToken))}
        /\ UNCHANGED <<client, peer, active, rotated, faults>>
  BY DEF HandleRequest
<1>. DEFINE m == Message(r, NoToken)
<1>2. /\ m \in Messages /\ m.type = r /\ ~NewToken(m) /\ r \notin {"auth_server", "auth_connection"}
  BY MessagesTyped DEF Message, NewToken
<1>. HIDE DEF m
<1>3. /\ Taken(s) \in Links /\ link[s].up # <<>>
  BY <1>1, TakesOf DEF Takes, m
<1>4. /\ link' \in Links /\ link'[s].phase = link[s].phase
      /\ \A t \in Socket : t # s => link'[t] = link[t]
  <2>1. CASE link' = Taken(s)
    BY <1>3, <2>1, Links2 DEF IInv
  <2>2. CASE link' = Answered(Taken(s), s, m)
    BY <1>2, <1>3, <2>2, AnsweredTaken
  <2>. QED
    BY <1>1, <2>1, <2>2 DEF m
<1>5. ASSUME client.ws = s, link[s].phase # "closed"
      PROVE  Stage(s)'
  <2>1. AuthRequest.type \in {"auth_server", "auth_connection"}
    BY DEF AuthRequest, Message
  <2>2. Serving(s)
    BY <1>1, <1>2, <1>5, <2>1, TakesOf DEF m
  <2>3. peer'[s].in /\ peer'[s].auth /\ ~peer'[s].validating /\ peer'[s].token = peer[s].token
    BY <1>1, <2>2 DEF Serving
  <2>4. link' \in {Taken(s), Answered(Taken(s), s, m)} /\ UNCHANGED client
    BY <1>1 DEF m
  <2>. QED
    BY <1>2, <1>3, <2>2, <2>3, <2>4, ServingAnswered
<1>6. peer' \in Peers /\ active' \subseteq [value : Token, owner : Socket]
  BY <1>1 DEF IInv, TypeOK, Peers
<1>. QED
  BY <1>1, <1>4, <1>5, <1>6, OtherEndKeeps DEF Peers

(* The server replaces a token by another.                                   *)
LEMMA HandleTokenRefreshKeeps ==
    ASSUME IInv, NEW s \in Socket, HandleTokenRefresh(s)
    PROVE  StepKept
<1>. USE RemoteConnectionAssumption
<1>1. PICK old \in Token :
        /\ Takes(s, Message("refresh", old)) /\ UNCHANGED <<client, rotated, faults>>
        /\ \/ /\ peer[s].auth /\ IsActive(old) /\ UnusedTokens # {}
              /\ active' = Issue({t \in active : t.value # old}, OwnerOf(old),
                                 OneOf(UnusedTokens))
              /\ peer' = [peer EXCEPT ![s].token = OneOf(UnusedTokens)]
              /\ link' = Answered(Taken(s), s, Refreshed(OneOf(UnusedTokens)))
           \/ /\ link' = Answered(Taken(s), s, NotRefreshed)
              /\ UNCHANGED <<active, peer>>
  BY DEF HandleTokenRefresh
<1>2. PICK m \in Messages :
        /\ link' = Answered(Taken(s), s, m)
        /\ peer' \in Peers /\ \A t \in Socket : t # s => peer'[t] = peer[t]
        /\ peer'[s].in = peer[s].in /\ peer'[s].auth = peer[s].auth
        /\ peer'[s].validating = peer[s].validating
        /\ active' \subseteq [value : Token, owner : Socket]
        /\ m.type \in {"refresh_ok", "refresh_failed"}
        /\ \/ ~NewToken(m) /\ peer'[s].token = peer[s].token
           \/ NewToken(m) /\ m.token \in Token /\ peer'[s].token = m.token
  <2>1. peer \in Peers /\ active \subseteq [value : Token, owner : Socket]
    BY DEF IInv, TypeOK, Peers
  <2>2. CASE /\ peer[s].auth /\ IsActive(old) /\ UnusedTokens # {}
             /\ active' = Issue({t \in active : t.value # old}, OwnerOf(old), OneOf(UnusedTokens))
             /\ peer' = [peer EXCEPT ![s].token = OneOf(UnusedTokens)]
             /\ link' = Answered(Taken(s), s, Refreshed(OneOf(UnusedTokens)))
    <3>1. OwnerOf(old) \in Socket
      <4>1. (CHOOSE t \in active : t.value = old) \in active
        BY <2>2 DEF IsActive
      <4>. QED
        BY <2>1, <4>1 DEF OwnerOf
    <3>2. /\ OneOf(UnusedTokens) \in Token
          /\ active' \subseteq [value : Token, owner : Socket]
      BY <2>2, <3>1, Issued
    <3>. DEFINE new == OneOf(UnusedTokens)
    <3>3. new \in Token /\ peer' = [peer EXCEPT ![s].token = new]
          /\ link' = Answered(Taken(s), s, Refreshed(new))
      BY <2>2, <3>2
    <3>. HIDE DEF new
    <3>4. /\ peer' \in Peers /\ \A t \in Socket : t # s => peer'[t] = peer[t]
          /\ peer'[s].in = peer[s].in /\ peer'[s].auth = peer[s].auth
          /\ peer'[s].validating = peer[s].validating /\ peer'[s].token = new
      BY <2>1, <3>3 DEF Peers
    <3>5. /\ Refreshed(new) \in Messages /\ Refreshed(new).type = "refresh_ok"
          /\ NewToken(Refreshed(new)) /\ Refreshed(new).token = new
      BY <3>3, MessagesTyped DEF Refreshed, Message, NewToken
    <3>. QED
      BY <3>2, <3>3, <3>4, <3>5
  <2>3. CASE link' = Answered(Taken(s), s, NotRefreshed) /\ UNCHANGED <<active, peer>>
    <3>1. /\ NotRefreshed \in Messages /\ NotRefreshed.type = "refresh_failed"
          /\ ~NewToken(NotRefreshed)
      BY MessagesTyped DEF NotRefreshed, Message, NewToken
    <3>. QED
      BY <2>1, <2>3, <3>1
  <2>. QED
    BY <1>1, <2>2, <2>3
<1>3. /\ Taken(s) \in Links /\ link[s].up # <<>>
  BY <1>1, TakesOf DEF Takes
<1>4. /\ link' \in Links /\ link'[s].phase = link[s].phase
      /\ \A t \in Socket : t # s => link'[t] = link[t]
  BY <1>2, <1>3, AnsweredTaken
<1>5. ASSUME client.ws = s, link[s].phase # "closed"
      PROVE  Stage(s)'
  <2>1. AuthRequest.type \in {"auth_server", "auth_connection"}
        /\ Message("refresh", old).type = "refresh"
    BY DEF AuthRequest, Message
  <2>2. Serving(s)
    BY <1>1, <1>5, <2>1, TakesOf
  <2>3. peer'[s].in /\ peer'[s].auth /\ ~peer'[s].validating
    BY <1>2, <2>2 DEF Serving
  <2>. QED
    BY <1>1, <1>2, <1>3, <2>2, <2>3, ServingAnswered
<1>. QED
  BY <1>1, <1>2, <1>4, <1>5, OtherEndKeeps DEF Peers

(* The server forgets a client whose socket is closed.                       *)
LEMMA ServerClosesKeeps ==
    ASSUME IInv, NEW s \in Socket, ServerCloses(s)
    PROVE  StepKept
<1>1. /\ link[s].phase = "closed" /\ UNCHANGED <<client, link, rotated, faults>>
      /\ peer' = [peer EXCEPT ![s] = [NoPeer EXCEPT !.validating = peer[s].validating]]
      /\ active' \subseteq active
  BY DEF ServerCloses
<1>2. peer \in Peers /\ link \in Links /\ active \subseteq [value : Token, owner : Socket]
  BY DEF IInv, TypeOK, Peers, Links
<1>3. [NoPeer EXCEPT !.validating = peer[s].validating] \in
         [in : BOOLEAN, auth : BOOLEAN, token : Token \cup {NoToken}, validating : BOOLEAN]
  BY <1>2 DEF NoPeer, Peers
<1>4. peer' \in Peers /\ \A t \in Socket : t # s => peer'[t] = peer[t]
  BY <1>1, <1>2, <1>3 DEF Peers
<1>. QED
  BY <1>1, <1>2, <1>4, OtherEndKeeps DEF Peers

-----------------------------------------------------------------------------
(* The environment.  A fault makes up for what it costs.                     *)

LEMMA FaultKeeps ==
    ASSUME IInv, ServerRestarts \/ \E s \in Socket : Breaks(s)
    PROVE  StepKept
<1>. USE RemoteConnectionAssumption
<1>1. /\ faults < MaxFaults /\ faults' = faults + 1 /\ UNCHANGED <<client, rotated>>
      /\ active' \subseteq active
  BY DEF ServerRestarts, Breaks
<1>2. peer \in Peers /\ link \in Links /\ active \subseteq [value : Token, owner : Socket]
  BY DEF IInv, TypeOK, Peers, Links
<1>3. [phase |-> "closed", up |-> <<>>, down |-> <<>>] \in
          [phase : {"closed", "opening", "open"}, up : Seq(Messages), down : Seq(Messages)]
  <2>1. <<>> \in Seq(Messages)
    OBVIOUS
  <2>. QED
    BY <2>1
<1>4. /\ link' \in Links /\ peer' \in Peers
      /\ \A s \in Socket :
            \/ link'[s].phase = "closed"
            \/ link'[s] = link[s] /\ peer'[s] = peer[s]
            \/ link'[s] = link[s] /\ link[s].phase = "opening" /\ ~peer'[s].validating
  <2>1. CASE ServerRestarts
    <3>1. /\ link' = [t \in Socket |->
                         IF link[t].phase = "opening" THEN link[t]
                         ELSE [phase |-> "closed", up |-> <<>>, down |-> <<>>]]
          /\ peer' = [t \in Socket |-> NoPeer]
      BY <2>1 DEF ServerRestarts
    <3>2. link' \in Links
      BY <1>2, <1>3, <3>1 DEF Links
    <3>3. peer' \in Peers /\ \A s \in Socket : ~peer'[s].validating
      BY <3>1 DEF Peers, NoPeer
    <3>. QED
      BY <3>1, <3>2, <3>3
  <2>2. CASE \E t \in Socket : Breaks(t)
    <3>1. PICK t \in Socket :
          link' = [link EXCEPT ![t] = [phase |-> "closed", up |-> <<>>, down |-> <<>>]]
          /\ UNCHANGED peer
      BY <2>2 DEF Breaks
    <3>2. link' \in Links /\ \A s \in Socket : link'[s].phase = "closed" \/ link'[s] = link[s]
      BY <1>2, <1>3, <3>1 DEF Links
    <3>. QED
      BY <1>2, <3>1, <3>2
  <2>. QED
    BY <2>1, <2>2
<1>5. faults \in 0 .. MaxFaults /\ client \in Fields
  BY DEF IInv, TypeOK, Fields
<1>6. TypeOK'
  BY <1>1, <1>2, <1>4, <1>5 DEF IInv, TypeOK, Peers, Links
<1>7. ClientInv'
  BY <1>1 DEF IInv, ClientInv, OneSocketAlive, OneReconnection, AttemptsOfThisSeries,
              RequestsHaveAConnection, HandlersInv
<1>8. StageInv'
  <2>. SUFFICES ASSUME NEW s \in Socket, client.ws = s PROVE Stage(s)'
    BY <1>1 DEF StageInv
  <2>1. Stage(s)
    BY DEF IInv, StageInv
  <2>2. CASE link'[s].phase = "closed"
    BY <2>2 DEF Stage
  <2>3. CASE link'[s] = link[s] /\ peer'[s] = peer[s]
    BY <1>1, <2>1, <2>3, StageKept
  <2>4. CASE link'[s] = link[s] /\ link[s].phase = "opening" /\ ~peer'[s].validating
    BY <1>1, <2>1, <2>4 DEF Stage, Opening, Asking, Validating, Answering, Serving
  <2>. QED
    BY <1>4, <2>2, <2>3, <2>4
<1>9. FaultsCounted'
  BY <1>1, <1>5 DEF IInv, FaultsCounted, Fields
<1>10. LifecycleStep /\ GivesUpAfterFaults
  BY <1>1 DEF LifecycleStep, GivesUpAfterFaults
<1>. QED
  BY <1>6, <1>7, <1>8, <1>9, <1>10 DEF IInv, StepKept

(* Tokens expire, or the server token is rotated.                            *)
LEMMA TokensGoBad ==
    ASSUME IInv, Expires \/ Rotate
    PROVE  StepKept
<1>1. /\ active' \subseteq active /\ rotated' \in BOOLEAN
      /\ rotated => rotated'
      /\ UNCHANGED <<client, link, peer, faults>>
  BY DEF Expires, Rotate, IInv, TypeOK
<1>2. TypeOK'
  <2>1. /\ client \in Fields /\ peer \in Peers /\ link \in Links
        /\ active \subseteq [value : Token, owner : Socket] /\ faults \in 0 .. MaxFaults
    BY DEF IInv, TypeOK, Fields, Peers, Links
  <2>2. /\ client' \in Fields /\ peer' \in Peers /\ link' \in Links
        /\ active' \subseteq [value : Token, owner : Socket] /\ faults' \in 0 .. MaxFaults
    BY <1>1, <2>1
  <2>. QED
    BY <1>1, <2>2 DEF TypeOK, Fields, Peers, Links
<1>3. ClientInv'
  BY <1>1 DEF IInv, ClientInv, OneSocketAlive, OneReconnection, AttemptsOfThisSeries,
              RequestsHaveAConnection, HandlersInv
<1>4. StageInv'
  <2>. SUFFICES ASSUME NEW s \in Socket, client.ws = s PROVE Stage(s)'
    BY <1>1 DEF StageInv
  <2>. QED
    BY <1>1, StageKept DEF IInv, StageInv
<1>5. FaultsCounted'
  <2>1. Broken' <=> Broken
    BY <1>1 DEF Broken
  <2>. QED
    BY <1>1, <2>1 DEF IInv, FaultsCounted
<1>6. LifecycleStep /\ GivesUpAfterFaults
  BY <1>1 DEF LifecycleStep, GivesUpAfterFaults
<1>. QED
  BY <1>2, <1>3, <1>4, <1>5, <1>6 DEF IInv, StepKept

-----------------------------------------------------------------------------
(* The theorems.                                                             *)

LEMMA InitInv == Init => IInv
<1>. SUFFICES ASSUME Init PROVE IInv
  OBVIOUS
<1>. USE RemoteConnectionAssumption DEF Init
<1>1. TypeOK
  <2>1. <<>> \in Seq(Messages) /\ 0 \in 0 .. MaxRetries /\ 0 \in 0 .. MaxFaults
    OBVIOUS
  <2>2. client \in Fields
    BY <2>1 DEF Fields
  <2>3. /\ link \in Links /\ peer \in Peers
    BY <2>1 DEF Links, Peers, NoPeer
  <2>. QED
    BY <2>1, <2>2, <2>3 DEF TypeOK, Fields, Links, Peers
<1>2. ClientInv
  BY DEF ClientInv, OneSocketAlive, OneReconnection, AttemptsOfThisSeries,
         RequestsHaveAConnection, HandlersInv
<1>3. StageInv /\ FaultsCounted
  BY DEF StageInv, FaultsCounted, Broken
<1>. QED
  BY <1>1, <1>2, <1>3 DEF IInv

(* Every step keeps the invariant.                                           *)
LEMMA StepInv == IInv /\ [Next]_vars => StepKept
<1>. SUFFICES ASSUME IInv, [Next]_vars PROVE StepKept
  OBVIOUS
<1>1. CASE OwnerCalls
  BY <1>1, OpenKeeps, DisconnectKeeps, CallsKeep DEF OwnerCalls
<1>2. CASE ClientTimers
  BY <1>2, OpenKeeps, CallsKeep DEF ClientTimers
<1>3. CASE Environment
  BY <1>3, FaultKeeps, TokensGoBad DEF Environment
<1>4. ASSUME NEW s \in Socket,
             \/ SocketOpens(s) \/ SocketFails(s) \/ NoticesClose(s)
             \/ ClientReads(s) \/ ServerReads(s)
             \/ ServerTokenValidated(s) \/ ServerCloses(s)
      PROVE  StepKept
  <2>1. CASE ClientReads(s)
    BY <2>1, AuthAcceptedKeeps, AuthRefusedKeeps, AnswersKeep DEF ClientReads
  <2>2. CASE ServerReads(s)
    BY <2>2, HandleAuthKeeps, HandleServerTokenKeeps, HandleTokenRefreshKeeps, HandleRequestKeeps
       DEF ServerReads
  <2>. QED
    BY <1>4, <2>1, <2>2, SocketOpensKeeps, CloseKeeps, ValidatedKeeps, ServerClosesKeeps
<1>5. CASE UNCHANGED vars
  <2>1. UNCHANGED <<client, link, peer, active, rotated, faults>>
    BY <1>5 DEF vars
  <2>2. TypeOK' /\ ClientInv' /\ FaultsCounted'
    BY <2>1 DEF IInv, TypeOK, ClientInv, OneSocketAlive, OneReconnection, AttemptsOfThisSeries,
                RequestsHaveAConnection, HandlersInv, FaultsCounted, Broken
  <2>3. StageInv'
    BY <2>1, StageKept DEF IInv, StageInv
  <2>. QED
    BY <2>1, <2>2, <2>3 DEF IInv, StepKept, LifecycleStep, GivesUpAfterFaults
<1>. QED
  BY <1>1, <1>2, <1>3, <1>4, <1>5 DEF Next

(* The invariant holds of every behaviour. *)
THEOREM Invariant == Spec => []IInv
<1>1. IInv /\ [Next]_vars => IInv'
  BY StepInv DEF StepKept
<1>. QED
  BY <1>1, InitInv, PTL DEF Spec

(* Whatever is lost, refused or given up, the client has one socket and no     *)
(* handler on another, one timer or one attempt under way, attempts counted   *)
(* since its last connection, and no request without a connection.           *)
THEOREM ClientStaysInOrder == Spec => []ConnectionInOrder
<1>1. IInv => ConnectionInOrder
  BY DEF IInv, ClientInv, ConnectionInOrder
<1>. QED
  BY <1>1, Invariant, PTL

(* A client that believes it is connected is one the server serves, and the    *)
(* two have the same token once its answers are read.                        *)
THEOREM EndsStayAgreed == Spec => []EndsAgree
<1>1. IInv => EndsAgree
  <2>. SUFFICES ASSUME IInv, NEW s \in Socket, client.ws = s, client.status = "connected",
                       link[s].phase = "open"
                PROVE  /\ peer[s].auth
                       /\ /\ client.handlers[s] = "connect"
                          /\ \A t \in Token : Refreshed(t) \notin
                                {link[s].down[i] : i \in DOMAIN link[s].down}
                          => client.token = peer[s].token
    BY DEF EndsAgree, ConnectedIsAuthenticated, TokenAgreed
  <2>1. Serving(s)
    BY DEF IInv, StageInv, Stage, Opening, Asking, Validating, Answering
  <2>2. ASSUME client.handlers[s] = "connect",
               \A t \in Token : Refreshed(t) \notin
                  {link[s].down[i] : i \in DOMAIN link[s].down}
        PROVE  client.token = peer[s].token
    <3>1. link[s].down \in Seq(Messages)
      BY DEF IInv, TypeOK
    <3>2. \A i \in DOMAIN link[s].down : ~NewToken(link[s].down[i])
      <4>. SUFFICES ASSUME NEW i \in DOMAIN link[s].down, NewToken(link[s].down[i]) PROVE FALSE
        OBVIOUS
      <4>1. link[s].down[i].token \in Token /\ link[s].down[i] \in Messages
        BY <2>1, <3>1 DEF Serving
      <4>2. link[s].down[i] = Refreshed(link[s].down[i].token)
        BY <4>1 DEF NewToken, Refreshed, Message, Messages
      <4>. QED
        BY <2>2, <4>1, <4>2
    <3>. QED
      BY <2>1, <2>2, <3>2 DEF Serving, LastTokenIsServers
  <2>. QED
    BY <2>1, <2>2 DEF Serving
<1>. QED
  BY <1>1, Invariant, PTL

(* The retry a client loses to a token the server no longer knows is never one *)
(* too many: it gives up after MaxRetries faults, or once its server token was *)
(* rotated.                                                                  *)
THEOREM RetriesAreNotWasted == Spec => GivesUpOnlyAfterFaults
<1>1. IInv /\ [Next]_vars => [GivesUpAfterFaults]_vars
  BY StepInv DEF StepKept
<1>2. GivesUpAfterFaults =>
        ((/\ client.status = "reconnecting" /\ client'.status = "disconnected"
          /\ ~client'.intentional) => rotated \/ faults' >= MaxRetries)
  BY DEF GivesUpAfterFaults
<1>. QED
  BY <1>1, <1>2, Invariant, PTL DEF Spec, GivesUpOnlyAfterFaults

(* Every behaviour of the client is one of ClientLifecycle: no handler or call  *)
(* moves its status in a way the life cycle does not have.                   *)
THEOREM ClientTakesLifecycleSteps == Spec => Lifecycle!Steps
<1>1. Init => Lifecycle!Init
  BY DEF Init, Lifecycle!Init
<1>2. IInv /\ [Next]_vars => [Lifecycle!Next]_(client.status)
  BY StepInv DEF StepKept, LifecycleStep
<1>. QED
  BY <1>1, <1>2, Invariant, PTL DEF Spec, Lifecycle!Steps
=============================================================================
