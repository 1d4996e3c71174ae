------------------------------ MODULE Session ------------------------------
(***************************************************************************)
(* Signed sessions and what they allow (internal/auth/session.go, the      *)
(* handlers of server.go, the read loop of client.go): a browser exchanges *)
(* an access token for a cookie, reads history and opens WebSockets with   *)
(* it, and sends frames over them, while time passes and the server is     *)
(* restarted with another configuration.                                   *)
(*                                                                         *)
(* The clock runs in ticks.  A cookie is the payload and the secret it was *)
(* signed with: the signature is good for a server with that secret only.  *)
(* What the hub does with an accepted message is left to Hub and Delivery. *)
(***************************************************************************)
EXTENDS RateLimit, Integers, FiniteSets

CONSTANTS
    Browsers, Addresses, Users, Rooms, Secrets,
    Contents,       \* contents of frames
    Origins,        \* values of the Origin header, None if there is none
    Configs,        \* the configurations the server may be started with
    RoomNames,      \* values of the room parameter of a request
    Batches,        \* frames one read from the network may bring
    DefaultRoom, Invalid, None,
    Second, Minute, PongWait,   \* in ticks
    MaxTime,        \* bound: the clock
    MaxRestarts     \* bound: restarts of the server

\* Rooms granted to the users with an access token: there is a user, and every
\* user has a room.
Grants ==
    UNION {[someUsers -> SUBSET Rooms \ {{}}] : someUsers \in SUBSET Users \ {{}}}

Frame ==
    [type : {"pong", "username", "message", "other"}, content : Contents, valid : BOOLEAN]

Errors == {"session_required", "invalid_session", "session_expired", "room_denied"}

RoomName ==
    [form : {"empty", "canonical", "mixed", "long", "start", "characters"}, room : Rooms]

ASSUME SessionAssumption ==
    /\ Second \in Nat \ {0} /\ Minute \in Nat /\ PongWait \in Nat
    /\ MaxTime \in Nat /\ MaxRestarts \in Nat
    /\ DefaultRoom \in Rooms /\ Invalid \notin Rooms
    /\ None \notin Nat /\ None \notin Users /\ None \notin Errors
    /\ RoomNames \subseteq RoomName
    /\ \A frames \in Batches : frames \in Seq(Frame)
    /\ \A cfg \in Configs :
         cfg \in [mode : {"anonymous", "session"}, secret : Secrets, ttl : Nat,
                 grants : Grants, origins : SUBSET Origins, limits : BOOLEAN]

VARIABLES
    now,
    config,         \* of the running server
    cookie,         \* browser -> its cookie
    client,         \* browser -> its WebSocket client, on the server
    upgrades,       \* address -> its limiter (ratelimit.WSUpgrade)
    outcome,        \* ghost: the last step's history read, message or audit row
    restarts

vars == <<now, config, cookie, client, upgrades, outcome, restarts>>

-----------------------------------------------------------------------------
(* Requests *)

\* Trimmed and in lower case; an empty name is the default room; too long, a
\* wrong first character or any other wrong character is an error.
NormalizeRoom(name) ==
    CASE name.form = "empty" -> DefaultRoom
      [] name.form \in {"canonical", "mixed"} -> name.room
      [] name.form \in {"long", "start", "characters"} -> Invalid

OriginAllowed(origin) ==
    \/ config.origins = {}
    \/ origin = None
    \/ origin \in config.origins

\* Every path but /ws answers a foreign origin with an error.
enableCORS(origin) == origin = None \/ OriginAllowed(origin)

Anonymous ==
    [user |-> None, rooms |-> {}, exp |-> None, cookie |-> None, error |-> None]

Denied(error) == [Anonymous EXCEPT !.error = error]

\* The signature of a cookie is checked with the secret of the server.
decode(c) == IF c.secret = config.secret THEN None ELSE "invalid_session"

\* Mutant: the lifetime of a session is not compared with the configured one.
AuthenticateAnyLifetime(c) ==
    IF config.mode = "anonymous" THEN Anonymous
    ELSE IF c = None THEN Denied("session_required")
    ELSE IF decode(c) # None THEN Denied(decode(c))
    ELSE IF c.exp <= now THEN Denied("session_expired")
    ELSE [user |-> c.user, rooms |-> c.rooms, exp |-> c.exp,
          cookie |-> c, error |-> None]

\* Mutant: the signature is not verified.
AuthenticateUnsigned(c) ==
    IF config.mode = "anonymous" THEN Anonymous
    ELSE IF c = None THEN Denied("session_required")
    ELSE IF c.exp <= now THEN Denied("session_expired")
    ELSE IF c.exp - c.iat > config.ttl + Second THEN Denied("invalid_session")
    ELSE [user |-> c.user, rooms |-> c.rooms, exp |-> c.exp,
          cookie |-> c, error |-> None]

Authenticate(c) ==
    IF config.mode = "anonymous" THEN Anonymous
    ELSE IF c = None THEN Denied("session_required")
    ELSE IF decode(c) # None THEN Denied(decode(c))
    ELSE IF c.exp <= now THEN Denied("session_expired")
    ELSE IF c.iat <= 0 \/ c.exp <= c.iat \/ c.iat > now + Minute
      THEN Denied("invalid_session")
    ELSE IF c.exp - c.iat > config.ttl + Second THEN Denied("invalid_session")
    ELSE [user |-> c.user, rooms |-> c.rooms, exp |-> c.exp,
          cookie |-> c, error |-> None]

Authorize(c, room) ==
    LET principal == Authenticate(c)
    IN IF \/ principal.error # None
          \/ principal.user = None
          \/ room \in principal.rooms
         THEN principal ELSE Denied("room_denied")

\* The cookie for the owner of a token: iat is the time cut to the second.
\* login, when it was issued, is a ghost.
Exchange(user) ==
    LET iat == (now \div Second) * Second
    IN [user |-> user, rooms |-> config.grants[user], iat |-> iat,
        exp |-> iat + config.ttl, secret |-> config.secret, login |-> now]

\* POST /api/session.
Login(b, user, origin) ==
    /\ enableCORS(origin)
    /\ config.mode = "session"
    /\ OriginAllowed(origin)
    /\ user \in DOMAIN config.grants
    /\ cookie' = [cookie EXCEPT ![b] = Exchange(user)]
    /\ outcome' = None
    /\ UNCHANGED <<now, config, client, upgrades, restarts>>

ForgetCookie(b) ==
    /\ cookie[b] # None
    /\ cookie' = [cookie EXCEPT ![b] = None]
    /\ outcome' = None
    /\ UNCHANGED <<now, config, client, upgrades, restarts>>

\* DELETE /api/session: the answer is an expired cookie.
Logout(b, origin) == enableCORS(origin) /\ OriginAllowed(origin) /\ ForgetCookie(b)

\* The browser drops a cookie at its Max-Age.
MaxAgePasses(b) ==
    /\ cookie[b] # None
    /\ now >= cookie[b].login + (cookie[b].exp - cookie[b].iat)
    /\ ForgetCookie(b)

Outcome(kind, principal, name, room, readAt) ==
    [kind |-> kind, name |-> name, room |-> room, at |-> readAt,
     cookie |-> principal.cookie, secret |-> config.secret, ttl |-> config.ttl]

\* GET /api/messages.
ReadHistory(b, name, origin) ==
    LET room == NormalizeRoom(name)
        principal == Authorize(cookie[b], room)
    IN /\ enableCORS(origin)
       /\ room # Invalid
       /\ principal.error = None
       /\ outcome' = Outcome("history", principal, principal.user, room, now)
       /\ UNCHANGED <<now, config, cookie, client, upgrades, restarts>>

-----------------------------------------------------------------------------
(* WebSockets *)

\* Mutant: a pong always gives another pongWait.
nextReadDeadlineIgnoringSession(exp) == now + PongWait

nextReadDeadline(exp) ==
    IF exp # None /\ exp < now + PongWait THEN exp ELSE now + PongWait

\* Limiters; None where the configuration disables them.
NewLimiterIfEnabled == IF config.limits THEN NewLimiter(now) ELSE None

Allow(lim) == IF lim = None THEN TRUE ELSE Allows(lim, now)

Taken(lim) == IF lim = None THEN None ELSE Take(lim, now)

newClient(principal, room) ==
    [principal |-> principal, name |-> principal.user, room |-> room,
     deadline |-> None, buffer |-> <<>>, limiter |-> NewLimiterIfEnabled]

\* serveWs: the room, the address's limiter (made at its first use), the
\* origin and the session, in that order.
serveWs(b, ip, name, origin) ==
    LET room == NormalizeRoom(name)
        principal == Authorize(cookie[b], room)
        lim == IF upgrades[ip] = None THEN NewLimiterIfEnabled ELSE upgrades[ip]
    IN /\ client[b] = None
       /\ room # Invalid
       /\ Allow(lim)
       /\ upgrades' = [upgrades EXCEPT ![ip] = Taken(lim)]
       /\ client' = IF OriginAllowed(origin) /\ principal.error = None
                      THEN [client EXCEPT ![b] = newClient(principal, room)]
                      ELSE client
       /\ outcome' = None
       /\ UNCHANGED <<now, config, cookie, restarts>>

\* The read loop starts some time after the session was checked.
readMessages(b) ==
    /\ client[b] # None
    /\ client[b].deadline = None
    /\ client' = [client EXCEPT ![b].deadline =
                                   nextReadDeadline(client[b].principal.exp)]
    /\ outcome' = None
    /\ UNCHANGED <<now, config, cookie, upgrades, restarts>>

\* The loop has handled what it read, and reads again.
Reading(b) ==
    /\ client[b] # None
    /\ client[b].deadline # None
    /\ client[b].buffer = <<>>

\* A read from the network, before the deadline, brings some frames.
Receive(b, frames) ==
    /\ Reading(b)
    /\ now < client[b].deadline
    /\ client' = [client EXCEPT ![b].buffer =
                    [i \in DOMAIN frames |-> [frame |-> frames[i], readAt |-> now]]]
    /\ outcome' = None
    /\ UNCHANGED <<now, config, cookie, upgrades, restarts>>

\* What becomes of a frame: a stored and published message, or an audit row.
Decided(b, kind, readAt) ==
    outcome' = Outcome(kind, client[b].principal, client[b].name, client[b].room, readAt)

Pong(b) ==
    /\ client' = [client EXCEPT
                    ![b].buffer = Tail(@),
                    ![b].deadline = nextReadDeadline(client[b].principal.exp)]
    /\ outcome' = None

UsernameFrame(b, f, readAt) ==
    IF client[b].principal.user = None /\ f.valid
      THEN /\ client' = [client EXCEPT ![b].buffer = Tail(@), ![b].name = f.content]
           /\ outcome' = None
      ELSE /\ client' = [client EXCEPT ![b].buffer = Tail(@)]
           /\ Decided(b, IF client[b].principal.user = None
                           THEN "invalid_username" ELSE "identity_override", readAt)

\* Every frame of another type is taken for a message.
MessageFrame(b, f, readAt) ==
    IF f.valid /\ Allow(client[b].limiter)
      THEN /\ client' = [client EXCEPT ![b].buffer = Tail(@),
                                       ![b].limiter = Taken(@)]
           /\ Decided(b, "message", readAt)
      ELSE /\ client' = [client EXCEPT ![b].buffer = Tail(@)]
           /\ Decided(b, IF f.valid THEN "rate_limited" ELSE "invalid_body", readAt)

\* The read loop handles the next frame; a frame may have waited for the one
\* before it.
HandleFrame(b) ==
    /\ client[b] # None
    /\ client[b].buffer # <<>>
    /\ LET f == Head(client[b].buffer) IN
         CASE f.frame.type = "pong" -> Pong(b)
           [] f.frame.type = "username" -> UsernameFrame(b, f.frame, f.readAt)
           [] OTHER -> MessageFrame(b, f.frame, f.readAt)
    /\ UNCHANGED <<now, config, cookie, upgrades, restarts>>

Disconnect(b) ==
    /\ client' = [client EXCEPT ![b] = None]
    /\ outcome' = None
    /\ UNCHANGED <<now, config, cookie, upgrades, restarts>>

\* The read at the deadline fails.
DeadlinePasses(b) ==
    /\ Reading(b)
    /\ now >= client[b].deadline
    /\ Disconnect(b)

\* The peer, a failed write or the hub closes the connection.
ConnectionCloses(b) == Reading(b) /\ Disconnect(b)

-----------------------------------------------------------------------------

Tick ==
    /\ now < MaxTime
    /\ now' = now + 1
    /\ outcome' = None
    /\ UNCHANGED <<config, cookie, client, upgrades, restarts>>

\* Cookies outlive the process, connections and limiters do not.
Restart(cfg) ==
    /\ restarts < MaxRestarts
    /\ restarts' = restarts + 1
    /\ config' = cfg
    /\ client' = [b \in Browsers |-> None]
    /\ upgrades' = [ip \in Addresses |-> None]
    /\ outcome' = None
    /\ UNCHANGED <<now, cookie>>

Init ==
    /\ now = Second
    /\ config \in Configs
    /\ cookie = [b \in Browsers |-> None]
    /\ client = [b \in Browsers |-> None]
    /\ upgrades = [ip \in Addresses |-> None]
    /\ outcome = None
    /\ restarts = 0

Next ==
    \/ \E b \in Browsers :
         \/ \E origin \in Origins :
              \/ \E user \in DOMAIN config.grants : Login(b, user, origin)
              \/ Logout(b, origin)
              \/ \E name \in RoomNames :
                   ReadHistory(b, name, origin)
                     \/ \E ip \in Addresses : serveWs(b, ip, name, origin)
         \/ \E frames \in Batches : Receive(b, frames)
         \/ MaxAgePasses(b) \/ readMessages(b) \/ HandleFrame(b)
         \/ DeadlinePasses(b) \/ ConnectionCloses(b)
    \/ \E cfg \in Configs : Restart(cfg)
    \/ Tick

Spec == Init /\ [][Next]_vars

\* A read loop starts, a frame it has read is handled (the storage calls end
\* within their timeouts), and a read past its deadline returns.
FairSpec ==
    /\ Spec
    /\ \A b \in Browsers :
         WF_vars(readMessages(b)) /\ WF_vars(HandleFrame(b)) /\ WF_vars(DeadlinePasses(b))

-----------------------------------------------------------------------------
(* Correctness properties *)

Cookie ==
    [user : Users, rooms : SUBSET Rooms, iat : Nat, exp : Nat, secret : Secrets,
     login : Nat]

Principal ==
    [user : Users \cup {None}, rooms : SUBSET Rooms, exp : Nat \cup {None},
     cookie : Cookie \cup {None}, error : {None}]

Client ==
    [principal : Principal, name : Users \cup Contents \cup {None}, room : Rooms,
     deadline : Nat \cup {None}, buffer : Seq([frame : Frame, readAt : Nat]),
     limiter : Limiter \cup {None}]

\* Types: a client has a valid room and passed the checks, and no limiter
\* holds more than its capacity.
TypeOK ==
    /\ now \in Nat
    /\ config \in Configs
    /\ restarts \in Nat
    /\ cookie \in [Browsers -> Cookie \cup {None}]
    /\ client \in [Browsers -> Client \cup {None}]
    /\ upgrades \in [Addresses -> Limiter \cup {None}]

\* The server acted for someone who logged in.
Signed == outcome # None /\ outcome.cookie # None

\* A frame is handled only if it was read before its session expired, however
\* pongs renew the read deadline (client.go nextReadDeadline).
AcceptedBeforeExpiry == Signed => outcome.at < outcome.cookie.exp

\* Nothing is allowed later after the login than the configured lifetime and
\* one second, also when a restart shortened the lifetime after the login
\* (session.go Authenticate).
SessionsAreShort ==
    Signed => outcome.at < outcome.cookie.login + outcome.ttl + Second

\* What a server in session mode reads, stores or audits for a client carries
\* a signature of the server's own secret, so that rotating the secret revokes
\* every session, and keeps to the rooms and the name that were signed.
OnlyWhatWasSigned ==
    Signed => /\ outcome.cookie.secret = outcome.secret
              /\ outcome.room \in outcome.cookie.rooms
              /\ outcome.name = outcome.cookie.user

\* Whatever the rhythm of messages, pongs and reconnects, a connection gets no
\* more messages through, and an address no more upgrades, than burst and rate
\* allow in any interval.
RatesAreKept ==
    /\ \A ip \in Addresses : upgrades[ip] # None => Bounded(upgrades[ip])
    /\ \A b \in Browsers :
         client[b] # None /\ client[b].limiter # None => Bounded(client[b].limiter)

\* A connection ends when its session has expired.
ExpiredClientsLeave ==
    \A b \in Browsers :
        (/\ client[b] # None
         /\ client[b].principal.exp # None
         /\ now >= client[b].principal.exp) ~> client[b] = None
=============================================================================
