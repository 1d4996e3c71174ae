--------------------------- MODULE SessionProofs ---------------------------
(***************************************************************************)
(* Proofs about Session and the token buckets of RateLimit, for every      *)
(* value of their constants.                                               *)
(***************************************************************************)
EXTENDS Session, TLAPS

-----------------------------------------------------------------------------
(* Token buckets *)

\* The amount that the whole past leaves room for: from any allowed event on,
\* what was allowed and what is still in the bucket.
Conserves(lim) ==
    \A i \in DOMAIN lim.allowed :
        Unit * (Len(lim.allowed) - i + 1) + lim.credits
            <= Capacity + Rate * (lim.last - lim.allowed[i])

\* The inductive invariant of a bucket at time t.
BucketInv(lim, t) ==
    lim \in Limiter /\ lim.last <= t /\ Conserves(lim) /\ Bounded(lim)

\* Multiplication distributes over a sum of two intervals.
LEMMA Distributes ==
    ASSUME NEW r \in Nat, NEW a \in Int, NEW b \in Int
    PROVE  r * a \in Int /\ r * (a + b) = r * a + r * b
OBVIOUS

\* The arithmetic of one taken token, with the products as numbers.
LEMMA OneTaken ==
    ASSUME NEW a \in Int, NEW b \in Int, NEW c \in Int, NEW u \in Int,
           NEW credits \in Int, NEW left \in Int, NEW capacity \in Int,
           a + credits <= capacity + b, left + u <= credits + c
    PROVE  (a + u) + left <= capacity + (b + c)
OBVIOUS

\* A bucket holds at least one token.
LEMMA CapacityFact == Capacity \in Nat /\ Capacity >= Unit
<1> DEFINE size == IF Burst < 1 THEN 1 ELSE Burst
<1>1. size \in Nat /\ size >= 1
  BY RateAssumption
<1>2. Unit * size \in Nat /\ Unit * size = Unit * (size - 1) + Unit
  BY <1>1, RateAssumption
<1>3. Unit * (size - 1) \in Nat
  <2>1. size - 1 \in Nat
    BY <1>1
  <2> QED BY <2>1, RateAssumption
<1> QED BY <1>2, <1>3, RateAssumption DEF Capacity

\* A new bucket satisfies the invariant.
LEMMA NewBucket == ASSUME NEW t \in Nat PROVE BucketInv(NewLimiter(t), t)
BY CapacityFact DEF BucketInv, NewLimiter, Limiter, Conserves, Bounded

\* What was refilled is between zero and the capacity, and no more than what
\* was there and what time added.
LEMMA RefilledFact ==
    ASSUME NEW t \in Nat, NEW lim \in Limiter, lim.last <= t
    PROVE  /\ Refilled(lim, t) \in 0..Capacity
           /\ Refilled(lim, t) <= lim.credits + Rate * (t - lim.last)
<1>1. t - lim.last \in Nat /\ lim.credits \in Nat
  BY CapacityFact DEF Limiter
<1>2. Rate * (t - lim.last) \in Nat
  BY <1>1, RateAssumption
<1> QED BY <1>1, <1>2, CapacityFact DEF Refilled

\* Taking an allowed token keeps the invariant.
LEMMA TakeBucket ==
    ASSUME NEW t \in Nat, NEW lim, BucketInv(lim, t), Allows(lim, t)
    PROVE  BucketInv(Take(lim, t), t)
<1> DEFINE new == Take(lim, t)
           n == Len(lim.allowed)
           left == Refilled(lim, t) - Unit
<1>0. lim \in Limiter /\ lim.last \in Nat /\ lim.last <= t /\ lim.allowed \in Seq(Nat)
      /\ lim.credits \in Nat
  BY CapacityFact DEF BucketInv, Limiter
<1>1. /\ left \in 0..Capacity
      /\ left + Unit <= Capacity
      /\ left + Unit <= lim.credits + Rate * (t - lim.last)
  BY <1>0, RefilledFact, RateAssumption, CapacityFact DEF Allows
<1>2. new = [credits |-> left, last |-> t, allowed |-> Append(lim.allowed, t)]
  BY DEF Take
<1>3. /\ n \in Nat /\ Len(new.allowed) = n + 1 /\ DOMAIN new.allowed = 1..(n + 1)
      /\ DOMAIN lim.allowed = 1..n
      /\ new.allowed[n + 1] = t
      /\ \A i \in 1..n : new.allowed[i] = lim.allowed[i] /\ lim.allowed[i] \in Nat
  BY <1>0, <1>2
<1>4. new \in Limiter
  BY <1>0, <1>1, <1>2 DEF Limiter
<1>5. ASSUME NEW i \in 1..n
      PROVE  /\ Unit * (n + 1 - i + 1) + left <= Capacity + Rate * (t - lim.allowed[i])
             /\ Rate * (t - lim.allowed[i]) \in Int
             /\ Unit * (n + 1 - i + 1) \in Int
  <2>1. Unit * (n - i + 1) + lim.credits <= Capacity + Rate * (lim.last - lim.allowed[i])
    BY <1>3 DEF BucketInv, Conserves
  <2>2. /\ Unit * (n - i + 1) \in Int
        /\ Unit * ((n - i + 1) + 1) = Unit * (n - i + 1) + Unit * 1
    <3>1. n - i + 1 \in Int /\ 1 \in Int /\ Unit \in Nat
      BY <1>3, RateAssumption
    <3> QED BY <3>1, Distributes
  <2>3. n + 1 - i + 1 = (n - i + 1) + 1
    BY <1>3
  <2>4. /\ Rate * (lim.last - lim.allowed[i]) \in Int
        /\ Rate * ((lim.last - lim.allowed[i]) + (t - lim.last))
             = Rate * (lim.last - lim.allowed[i]) + Rate * (t - lim.last)
    <3>1. lim.last - lim.allowed[i] \in Int /\ t - lim.last \in Int
      BY <1>0, <1>3
    <3> QED BY <3>1, Distributes, RateAssumption
  <2>5. t - lim.allowed[i] = (lim.last - lim.allowed[i]) + (t - lim.last)
    BY <1>0, <1>3
  <2>6. Rate * (t - lim.last) \in Int
    BY <1>0, Distributes, RateAssumption
  <2>7. Unit * 1 = Unit
    BY RateAssumption
  <2> DEFINE a == Unit * (n - i + 1)
             b == Rate * (lim.last - lim.allowed[i])
             c == Rate * (t - lim.last)
  <2>8. a \in Int /\ b \in Int /\ c \in Int /\ Unit \in Int /\ left \in Int
        /\ lim.credits \in Int /\ Capacity \in Int
    <3>1. a \in Int /\ b \in Int /\ c \in Int
      BY <2>2, <2>4, <2>6
    <3> HIDE DEF a, b, c
    <3>2. left \in Int
      BY <1>1, CapacityFact
    <3> QED BY <1>0, <3>1, <3>2, RateAssumption, CapacityFact
  <2>9. (a + Unit) + left <= Capacity + (b + c)
    <3>1. a + lim.credits <= Capacity + b
      BY <2>1
    <3>2. left + Unit <= lim.credits + c
      BY <1>1
    <3> HIDE DEF a, b, c, left
    <3> QED BY <2>8, <3>1, <3>2, OneTaken
  <2>10. Unit * (n + 1 - i + 1) = a + Unit
    BY <2>2, <2>3, <2>7
  <2>11. Rate * (t - lim.allowed[i]) = b + c
    BY <2>4, <2>5
  <2>12. a + Unit \in Int /\ b + c \in Int
    <3> HIDE DEF a, b, c
    <3> QED BY <2>8
  <2> HIDE DEF a, b, c, left
  <2>13. Unit * (n + 1 - i + 1) + left <= Capacity + Rate * (t - lim.allowed[i])
    BY ONLY <2>9, <2>10, <2>11
  <2> QED BY ONLY <2>10, <2>11, <2>12, <2>13
<1>6. Rate * (t - t) = 0 /\ Unit * (n + 1 - (n + 1) + 1) = Unit
  BY <1>3, RateAssumption
<1>7. Conserves(new)
  <2> SUFFICES ASSUME NEW i \in 1..(n + 1)
               PROVE  Unit * (n + 1 - i + 1) + left <= Capacity + Rate * (t - new.allowed[i])
    BY <1>2, <1>3 DEF Conserves
  <2>1. CASE i \in 1..n
    BY <2>1, <1>3, <1>5
  <2>2. CASE i = n + 1
    BY <2>2, <1>1, <1>3, <1>6, CapacityFact, RateAssumption
  <2> QED BY <2>1, <2>2, <1>3
<1>8. Bounded(new)
  <2> SUFFICES ASSUME NEW i \in 1..(n + 1), NEW j \in 1..(n + 1), i <= j
               PROVE  Unit * (j - i + 1) <= Capacity + Rate * (new.allowed[j] - new.allowed[i])
    BY <1>3 DEF Bounded
  <2>1. CASE j \in 1..n
    <3>1. i \in 1..n
      BY <2>1, <1>3
    <3> QED BY <3>1, <2>1, <1>3 DEF BucketInv, Bounded
  <2>2. CASE j = n + 1 /\ i \in 1..n
    <3>1. Unit * (n + 1 - i + 1) <= Capacity + Rate * (t - lim.allowed[i])
      <4> DEFINE a == Unit * (n + 1 - i + 1)
                 b == Rate * (t - lim.allowed[i])
      <4>1. a + left <= Capacity + b /\ a \in Int /\ b \in Int
        BY <2>2, <1>5
      <4>2. left \in Nat
        BY <1>1, CapacityFact
      <4> HIDE DEF a, b, left
      <4>3. a <= Capacity + b
        BY <4>1, <4>2, CapacityFact
      <4> QED BY <4>3 DEF a, b
    <3> QED BY <3>1, <2>2, <1>3
  <2>3. CASE j = n + 1 /\ i = n + 1
    BY <2>3, <1>3, <1>6, CapacityFact, RateAssumption
  <2> QED BY <2>1, <2>2, <2>3, <1>3
<1> QED BY <1>4, <1>7, <1>8, <1>2 DEF BucketInv

\* Waiting keeps the invariant.
LEMMA WaitBucket ==
    ASSUME NEW t \in Nat, NEW lim, BucketInv(lim, t)
    PROVE  BucketInv(lim, t + 1)
BY DEF BucketInv, Limiter

-----------------------------------------------------------------------------
(* Sessions *)

\* A principal with a cookie is what the cookie says, and the cookie passes
\* the checks of a server with configuration cfg.
PrincipalInv(p, cfg) ==
    p.cookie # None =>
        /\ p.user = p.cookie.user
        /\ p.exp = p.cookie.exp
        /\ p.cookie.secret = cfg.secret
        /\ p.cookie.exp - p.cookie.iat <= cfg.ttl + Second
        /\ p.cookie.iat <= p.cookie.login

\* An authenticated client keeps its name, its room and its deadline within
\* what was signed, and has read its frames before the session expired.
ClientInv(c, t, cfg) ==
    /\ PrincipalInv(c.principal, cfg)
    /\ c.principal.cookie # None =>
         /\ c.name = c.principal.cookie.user
         /\ c.room \in c.principal.cookie.rooms
         /\ c.deadline # None => c.deadline <= c.principal.exp
         /\ \A i \in DOMAIN c.buffer : c.buffer[i].readAt < c.principal.exp
    /\ c.limiter # None => BucketInv(c.limiter, t)

OutcomeInv == AcceptedBeforeExpiry /\ SessionsAreShort /\ OnlyWhatWasSigned

\* The inductive invariant.
Inv ==
    /\ TypeOK
    /\ \A b \in Browsers : cookie[b] # None => cookie[b].iat <= cookie[b].login
    /\ \A b \in Browsers : client[b] # None => ClientInv(client[b], now, config)
    /\ \A ip \in Addresses : upgrades[ip] # None => BucketInv(upgrades[ip], now)
    /\ OutcomeInv

\* Initially nothing is issued, connected or allowed.
LEMMA InitInv == Init => Inv
BY SessionAssumption DEF Init, Inv, TypeOK, OutcomeInv, AcceptedBeforeExpiry,
   SessionsAreShort, OnlyWhatWasSigned, Signed

\* A configuration in use has the fields it should have.
LEMMA ConfigFact ==
    ASSUME TypeOK
    PROVE  config.secret \in Secrets /\ config.ttl \in Nat /\ config.grants \in Grants
BY SessionAssumption DEF TypeOK

\* A normalized room is a room or an error.
LEMMA NormalizeFact ==
    ASSUME NEW name \in RoomNames PROVE NormalizeRoom(name) \in Rooms \cup {Invalid}
BY SessionAssumption DEF NormalizeRoom, RoomName

\* Whom Authenticate lets pass has a valid session, or needs none.
LEMMA AuthenticateFact ==
    ASSUME TypeOK, NEW c \in Cookie \cup {None}, c # None => c.iat <= c.login,
           Authenticate(c).error = None
    PROVE  /\ Authenticate(c) \in Principal
           /\ PrincipalInv(Authenticate(c), config)
           /\ Authenticate(c).cookie # None =>
                /\ Authenticate(c).rooms = Authenticate(c).cookie.rooms
                /\ Authenticate(c).user # None
                /\ now < Authenticate(c).exp
<1>1. \A error \in Errors : Denied(error).error # None
  BY SessionAssumption DEF Denied, Anonymous
<1>2. CASE config.mode = "anonymous"
  <2>1. Authenticate(c) = Anonymous
    BY <1>2 DEF Authenticate
  <2> QED BY <2>1 DEF Anonymous, Principal, PrincipalInv
<1>3. CASE config.mode # "anonymous"
  <2>1. /\ c # None /\ c.secret = config.secret /\ ~(c.exp <= now)
        /\ ~(c.exp - c.iat > config.ttl + Second)
        /\ Authenticate(c) = [user |-> c.user, rooms |-> c.rooms, exp |-> c.exp,
                             cookie |-> c, error |-> None]
    <3>1. decode(c) # None => decode(c) \in Errors /\ Denied(decode(c)).error # None
      BY <1>1 DEF decode, Errors
    <3>2. c.secret # config.secret => decode(c) # None
      BY SessionAssumption DEF decode, Errors
    <3> QED BY <1>1, <1>3, <3>1, <3>2 DEF Authenticate, Errors
  <2>2. c \in Cookie
    BY <2>1
  <2>3. /\ config.ttl \in Nat /\ Second \in Nat /\ now \in Nat
        /\ c.exp \in Nat /\ c.iat \in Nat /\ c.user # None
    BY <2>2, ConfigFact, SessionAssumption DEF TypeOK, Cookie
  <2> QED BY <2>1, <2>2, <2>3 DEF Principal, PrincipalInv, Cookie
<1> QED BY <1>2, <1>3

\* Whom Authorize lets pass may enter the room.
LEMMA AuthorizeFact ==
    ASSUME Inv, NEW b \in Browsers, NEW room,
           Authorize(cookie[b], room).error = None
    PROVE  LET p == Authorize(cookie[b], room) IN
           /\ p \in Principal
           /\ PrincipalInv(p, config)
           /\ p.cookie # None => room \in p.cookie.rooms /\ now < p.exp
<1> DEFINE p == Authenticate(cookie[b])
<1>1. Denied("room_denied").error # None
  BY SessionAssumption DEF Denied, Anonymous, Errors
<1>2. Authorize(cookie[b], room) = p /\ (p.error # None \/ p.user = None \/ room \in p.rooms)
  BY <1>1 DEF Authorize
<1>3. cookie[b] \in Cookie \cup {None} /\ (cookie[b] # None => cookie[b].iat <= cookie[b].login)
  BY DEF Inv, TypeOK
<1> HIDE DEF p
<1>4. /\ p \in Principal /\ PrincipalInv(p, config)
      /\ p.cookie # None => p.rooms = p.cookie.rooms /\ p.user # None /\ now < p.exp
  BY <1>2, <1>3, AuthenticateFact DEF p, Inv
<1> QED BY <1>2, <1>4

\* Nothing was decided in the last step.
LEMMA NoOutcome == ASSUME outcome' = None PROVE OutcomeInv'
BY DEF OutcomeInv, AcceptedBeforeExpiry, SessionsAreShort, OnlyWhatWasSigned, Signed

\* What is decided for a valid principal, within its rooms, under its name and
\* before its session expires is as it should be.
LEMMA OutcomeFact ==
    ASSUME TypeOK, NEW p \in Principal, PrincipalInv(p, config), NEW room, NEW name,
           NEW kind, NEW t \in Nat,
           p.cookie # None => /\ room \in p.cookie.rooms /\ t < p.exp
                              /\ name = p.cookie.user,
           outcome' = Outcome(kind, p, name, room, t)
    PROVE  OutcomeInv'
<1>1. /\ outcome'.cookie = p.cookie /\ outcome'.at = t /\ outcome'.room = room
      /\ outcome'.name = name /\ outcome'.secret = config.secret
      /\ outcome'.ttl = config.ttl
  BY DEF Outcome
<1>2. CASE p.cookie = None
  BY <1>1, <1>2 DEF OutcomeInv, AcceptedBeforeExpiry, SessionsAreShort,
     OnlyWhatWasSigned, Signed
<1>3. CASE p.cookie # None
  <2>1. p.cookie \in Cookie
    BY <1>3 DEF Principal
  <2>2. /\ p.cookie.exp \in Nat /\ p.cookie.iat \in Nat /\ p.cookie.login \in Nat
        /\ config.ttl \in Nat /\ Second \in Nat
    BY <2>1, ConfigFact, SessionAssumption DEF Cookie
  <2>3. t < p.cookie.exp /\ t < p.cookie.login + config.ttl + Second
    BY <1>3, <2>2 DEF PrincipalInv
  <2> QED BY <1>1, <1>3, <2>3 DEF OutcomeInv, AcceptedBeforeExpiry, SessionsAreShort,
     OnlyWhatWasSigned, Signed, PrincipalInv
<1> QED BY <1>2, <1>3

\* The deadline never lies beyond the session.
LEMMA DeadlineFact ==
    ASSUME TypeOK, NEW p \in Principal
    PROVE  /\ nextReadDeadline(p.exp) \in Nat
           /\ p.exp # None => nextReadDeadline(p.exp) <= p.exp
BY SessionAssumption DEF TypeOK, nextReadDeadline, Principal

\* A step that only changes one client keeps the invariant if the new client
\* and the outcome are as they should be.
LEMMA SetClient ==
    ASSUME Inv, NEW b \in Browsers, NEW c \in Client \cup {None},
           c # None => ClientInv(c, now, config),
           client' = [client EXCEPT ![b] = c], OutcomeInv',
           UNCHANGED <<now, config, cookie, upgrades, restarts>>
    PROVE  Inv'
<1>1. TypeOK'
  BY DEF Inv, TypeOK
<1>2. \A x \in Browsers : client'[x] # None => ClientInv(client'[x], now, config)
  BY DEF Inv, TypeOK
<1>3. \A x \in Browsers : client'[x] # None => ClientInv(client'[x], now', config')
  BY <1>2
<1> QED BY <1>1, <1>3 DEF Inv

\* Cutting a time to the second does not move it forward.
LEMMA TruncateFact ==
    ASSUME NEW n \in Nat, NEW s \in Nat \ {0}
    PROVE  (n \div s) * s \in Nat /\ (n \div s) * s <= n
<1>1. n = s * (n \div s) + (n % s) /\ n % s \in Nat /\ n \div s \in Int
  OBVIOUS
<1>2. n \div s \in Nat
  OBVIOUS
<1>3. (n \div s) * s = s * (n \div s) /\ (n \div s) * s \in Nat
  BY <1>2
<1> DEFINE product == (n \div s) * s
           rest == n % s
<1>4. n = product + rest /\ product \in Nat /\ rest \in Nat
  BY <1>1, <1>3
<1> HIDE DEF product, rest
<1>5. product <= n
  BY <1>4
<1> QED BY <1>3, <1>5 DEF product

\* One lemma for each action.
LEMMA LoginStep ==
    ASSUME Inv, NEW b \in Browsers, NEW user \in DOMAIN config.grants, NEW origin,
           Login(b, user, origin)
    PROVE  Inv'
<1> DEFINE iat == (now \div Second) * Second
           c == [user |-> user, rooms |-> config.grants[user], iat |-> iat,
                 exp |-> iat + config.ttl, secret |-> config.secret, login |-> now]
<1>1. now \in Nat /\ iat \in Nat /\ iat <= now
  BY SessionAssumption, TruncateFact DEF Inv, TypeOK
<1>2. c \in Cookie
  <2>1. user \in Users /\ config.grants[user] \in SUBSET Rooms
    BY ConfigFact DEF Inv, Grants
  <2> HIDE DEF iat
  <2>2. iat + config.ttl \in Nat
    BY <1>1, ConfigFact DEF Inv
  <2> QED BY <1>1, <2>1, <2>2, ConfigFact DEF Cookie, Inv
<1>3. cookie' = [cookie EXCEPT ![b] = c] /\ outcome' = None
      /\ UNCHANGED <<now, config, client, upgrades, restarts>>
  BY DEF Login, Exchange
<1>4. c.iat <= c.login
  BY <1>1
<1> HIDE DEF c
<1>5. TypeOK'
  BY <1>2, <1>3 DEF Inv, TypeOK
<1>6. OutcomeInv'
  BY <1>3, NoOutcome
<1>7. \A x \in Browsers : cookie'[x] # None => cookie'[x].iat <= cookie'[x].login
  BY <1>3, <1>4 DEF Inv, TypeOK
<1> QED BY <1>3, <1>5, <1>6, <1>7 DEF Inv

\* Dropping a cookie keeps the invariant: it only takes a credential away.
LEMMA ForgetCookieStep ==
    ASSUME Inv, NEW b \in Browsers, ForgetCookie(b) PROVE Inv'
<1>1. OutcomeInv'
  BY NoOutcome DEF ForgetCookie
<1>2. TypeOK'
  BY DEF Inv, TypeOK, ForgetCookie
<1>3. \A x \in Browsers : cookie'[x] # None => cookie'[x] = cookie[x]
  BY DEF Inv, TypeOK, ForgetCookie
<1> QED BY <1>1, <1>2, <1>3 DEF Inv, ForgetCookie

\* A page of history is served only to whom Authorize lets into the room.
LEMMA ReadHistoryStep ==
    ASSUME Inv, NEW b \in Browsers, NEW name \in RoomNames, NEW origin,
           ReadHistory(b, name, origin)
    PROVE  Inv'
<1> DEFINE room == NormalizeRoom(name)
           p == Authorize(cookie[b], room)
<1>1. /\ p.error = None
      /\ outcome' = Outcome("history", p, p.user, room, now)
      /\ UNCHANGED <<now, config, cookie, client, upgrades, restarts>>
  BY DEF ReadHistory
<1>2. /\ p \in Principal /\ PrincipalInv(p, config)
      /\ p.cookie # None => room \in p.cookie.rooms /\ now < p.exp
  BY <1>1, AuthorizeFact
<1> HIDE DEF p, room
<1>3. OutcomeInv'
  BY <1>1, <1>2, OutcomeFact DEF PrincipalInv, Inv, TypeOK
<1> QED BY <1>1, <1>3 DEF Inv, TypeOK

\* Limiters made and used under the current configuration.
LEMMA LimiterFact ==
    ASSUME now \in Nat
    PROVE  /\ NewLimiterIfEnabled # None => BucketInv(NewLimiterIfEnabled, now)
           /\ \A lim : /\ lim # None => BucketInv(lim, now)
                      /\ Allow(lim)
                      => (Taken(lim) # None => BucketInv(Taken(lim), now))
<1>1. NewLimiterIfEnabled # None => BucketInv(NewLimiterIfEnabled, now)
  BY NewBucket DEF NewLimiterIfEnabled
<1>2. ASSUME NEW lim, lim # None => BucketInv(lim, now), Allow(lim), Taken(lim) # None
      PROVE  BucketInv(Taken(lim), now)
  BY <1>2, TakeBucket DEF Allow, Taken
<1> QED BY <1>1, <1>2

\* The upgrade hands the new client a valid principal and a full bucket.
LEMMA serveWsStep ==
    ASSUME Inv, NEW b \in Browsers, NEW ip \in Addresses, NEW name \in RoomNames,
           NEW origin, serveWs(b, ip, name, origin)
    PROVE  Inv'
<1> DEFINE room == NormalizeRoom(name)
           p == Authorize(cookie[b], room)
           lim == IF upgrades[ip] = None THEN NewLimiterIfEnabled ELSE upgrades[ip]
           c == newClient(p, room)
<1>1. /\ room # Invalid
      /\ Allow(lim)
      /\ upgrades' = [upgrades EXCEPT ![ip] = Taken(lim)]
      /\ client' = IF OriginAllowed(origin) /\ p.error = None
                     THEN [client EXCEPT ![b] = c] ELSE client
      /\ outcome' = None
      /\ UNCHANGED <<now, config, cookie, restarts>>
  BY DEF serveWs
<1>2. now \in Nat /\ room \in Rooms
  BY <1>1, NormalizeFact DEF Inv, TypeOK
<1>3. Taken(lim) # None => BucketInv(Taken(lim), now)
  BY <1>1, <1>2, LimiterFact DEF Inv
<1>4. ASSUME p.error = None
      PROVE  c \in Client /\ ClientInv(c, now, config)
  <2>1. /\ p \in Principal /\ PrincipalInv(p, config)
        /\ p.cookie # None => room \in p.cookie.rooms /\ now < p.exp
    BY <1>4, AuthorizeFact
  <2>2. NewLimiterIfEnabled # None => BucketInv(NewLimiterIfEnabled, now)
    BY <1>2, LimiterFact
  <2> HIDE DEF p, room
  <2>3. /\ c.principal = p /\ c.name = p.user /\ c.room = room /\ c.deadline = None
        /\ c.buffer = <<>> /\ c.limiter = NewLimiterIfEnabled
    BY DEF newClient
  <2>4. c \in Client
    BY <1>2, <2>1, <2>2 DEF newClient, Client, Principal, BucketInv
  <2> HIDE DEF c
  <2>5. p.cookie # None => p.user = p.cookie.user
    BY <2>1 DEF PrincipalInv
  <2>6. DOMAIN c.buffer = {}
    BY <2>3
  <2>7. ClientInv(c, now, config)
    BY <2>1, <2>2, <2>3, <2>5, <2>6 DEF ClientInv
  <2> QED BY <2>4, <2>7
<1> HIDE DEF p, room, c, lim
<1>5. /\ upgrades' \in [Addresses -> Limiter \cup {None}]
      /\ \A x \in Addresses : upgrades'[x] # None => BucketInv(upgrades'[x], now)
  BY <1>1, <1>3 DEF Inv, TypeOK, BucketInv
<1>6. /\ client' \in [Browsers -> Client \cup {None}]
      /\ \A x \in Browsers : client'[x] # None => ClientInv(client'[x], now, config)
  BY <1>1, <1>4 DEF Inv, TypeOK
<1>7. OutcomeInv'
  BY <1>1, NoOutcome
<1> QED BY <1>1, <1>5, <1>6, <1>7 DEF Inv, TypeOK

\* What the invariant says of a connected client.
LEMMA ClientFact ==
    ASSUME Inv, NEW b \in Browsers, client[b] # None
    PROVE  /\ client[b] \in Client
           /\ ClientInv(client[b], now, config)
           /\ client[b].principal \in Principal
<1>1. client[b] \in Client
  BY DEF Inv, TypeOK
<1>2. ClientInv(client[b], now, config)
  BY DEF Inv
<1> QED BY <1>1, <1>2 DEF Client

\* A client with a new deadline is as it should be.
LEMMA DeadlineClient ==
    ASSUME TypeOK, NEW d \in Client, ClientInv(d, now, config)
    PROVE  LET c == [d EXCEPT !.deadline = nextReadDeadline(d.principal.exp)]
           IN c \in Client /\ ClientInv(c, now, config)
<1> DEFINE e == nextReadDeadline(d.principal.exp)
           c == [d EXCEPT !.deadline = e]
<1>1. d.principal \in Principal
  BY DEF Client
<1>2. e \in Nat /\ (d.principal.exp # None => e <= d.principal.exp)
  BY <1>1, DeadlineFact
<1>3. d.principal.cookie # None => d.principal.exp # None
  <2>1. d.principal.cookie # None => d.principal.cookie \in Cookie
    BY <1>1 DEF Principal
  <2> QED BY <2>1, SessionAssumption DEF ClientInv, PrincipalInv, Cookie
<1> HIDE DEF e
<1>4. c \in Client /\ c.deadline = e /\ c.buffer = d.buffer
      /\ c.principal = d.principal /\ c.name = d.name /\ c.room = d.room
      /\ c.limiter = d.limiter
  BY <1>2 DEF Client
<1> HIDE DEF c
<1>5. ClientInv(c, now, config)
  BY <1>2, <1>3, <1>4 DEF ClientInv
<1> QED BY <1>4, <1>5 DEF c, e

\* Entering the read loop sets a deadline within the session.
LEMMA readMessagesStep ==
    ASSUME Inv, NEW b \in Browsers, readMessages(b) PROVE Inv'
<1> DEFINE p == client[b].principal
           c == [client[b] EXCEPT !.deadline = nextReadDeadline(p.exp)]
<1>1. client[b] \in Client /\ ClientInv(client[b], now, config) /\ p \in Principal
  BY ClientFact DEF readMessages
<1>2. c \in Client /\ ClientInv(c, now, config)
  BY <1>1, DeadlineClient DEF Inv
<1>3. client' = [client EXCEPT ![b] = c] /\ outcome' = None
      /\ UNCHANGED <<now, config, cookie, upgrades, restarts>>
  BY DEF readMessages
<1> HIDE DEF c
<1> QED BY <1>2, <1>3, SetClient, NoOutcome

\* Frames are buffered only before the deadline, so before the expiry.
LEMMA ReceiveStep ==
    ASSUME Inv, NEW b \in Browsers, NEW frames \in Batches, Receive(b, frames) PROVE Inv'
<1> DEFINE received == [i \in DOMAIN frames |-> [frame |-> frames[i], readAt |-> now]]
           c == [client[b] EXCEPT !.buffer = received]
<1>1. /\ client[b] \in Client /\ ClientInv(client[b], now, config)
      /\ client[b].deadline \in Nat /\ now < client[b].deadline /\ now \in Nat
  BY ClientFact DEF Receive, Reading, Inv, TypeOK, Client
<1>2. frames \in Seq(Frame) /\ received \in Seq([frame : Frame, readAt : Nat])
  <2>1. frames \in Seq(Frame)
    BY SessionAssumption
  <2> DEFINE S == [frame : Frame, readAt : Nat]
  <2>2. \A i \in 1..Len(frames) : frames[i] \in Frame
    BY <2>1
  <2>3. received \in [1..Len(frames) -> S]
    BY <1>1, <2>1, <2>2
  <2>4. Len(frames) \in Nat
    BY <2>1
  <2> HIDE DEF received, S
  <2>5. received \in Seq(S)
    BY <2>3, <2>4
  <2> QED BY <2>1, <2>5 DEF S
<1>3. \A i \in DOMAIN received : received[i].readAt = now
  OBVIOUS
<1>4. client' = [client EXCEPT ![b] = c] /\ outcome' = None
      /\ UNCHANGED <<now, config, cookie, upgrades, restarts>>
  BY DEF Receive
<1> HIDE DEF received
<1>5. client[b].principal.cookie # None => now < client[b].principal.exp
  <2>1. ASSUME client[b].principal.cookie # None
        PROVE  /\ client[b].deadline <= client[b].principal.exp
               /\ client[b].principal.exp \in Nat
    <3>1. client[b].principal.cookie \in Cookie
      BY <1>1, <2>1 DEF Client, Principal
    <3>2. client[b].principal.exp = client[b].principal.cookie.exp
      BY <1>1, <2>1 DEF ClientInv, PrincipalInv
    <3>3. client[b].deadline # None
      BY <1>1, SessionAssumption
    <3>4. client[b].deadline <= client[b].principal.exp
      BY <1>1, <2>1, <3>3 DEF ClientInv
    <3> QED BY <3>1, <3>2, <3>4 DEF Cookie
  <2> QED BY <1>1, <2>1
<1>6. c \in Client
  BY <1>1, <1>2 DEF Client
<1>7. ClientInv(c, now, config)
  BY <1>1, <1>3, <1>5 DEF ClientInv, Client
<1> HIDE DEF c
<1> QED BY <1>4, <1>6, <1>7, SetClient, NoOutcome

\* Without its first frame a client is as it was.
LEMMA TailFact ==
    ASSUME NEW S, NEW s \in Seq(S), s # <<>>
    PROVE  /\ Tail(s) \in Seq(S)
           /\ \A i \in DOMAIN Tail(s) : i + 1 \in DOMAIN s /\ Tail(s)[i] = s[i + 1]
           /\ 1 \in DOMAIN s /\ Head(s) = s[1] /\ Head(s) \in S
OBVIOUS

\* A frame that was handled leaves the rest as it should be.
LEMMA HandledClient ==
    ASSUME Inv, NEW b \in Browsers, client[b] # None, client[b].buffer # <<>>
    PROVE  /\ [client[b] EXCEPT !.buffer = Tail(@)] \in Client
           /\ ClientInv([client[b] EXCEPT !.buffer = Tail(@)], now, config)
           /\ Head(client[b].buffer).frame \in Frame
           /\ Head(client[b].buffer).readAt \in Nat
           /\ client[b].principal.cookie # None =>
                Head(client[b].buffer).readAt < client[b].principal.exp
<1> DEFINE s == client[b].buffer
           c == [client[b] EXCEPT !.buffer = Tail(@)]
<1>1. client[b] \in Client /\ ClientInv(client[b], now, config)
  BY ClientFact
<1>2. s \in Seq([frame : Frame, readAt : Nat])
  BY <1>1 DEF Client
<1>3. /\ Tail(s) \in Seq([frame : Frame, readAt : Nat])
      /\ \A i \in DOMAIN Tail(s) : i + 1 \in DOMAIN s /\ Tail(s)[i] = s[i + 1]
      /\ 1 \in DOMAIN s /\ Head(s) = s[1] /\ Head(s) \in [frame : Frame, readAt : Nat]
  BY <1>2, TailFact
<1>4. c \in Client /\ c.buffer = Tail(s) /\ c.principal = client[b].principal
      /\ c.name = client[b].name /\ c.room = client[b].room
      /\ c.deadline = client[b].deadline /\ c.limiter = client[b].limiter
  BY <1>1, <1>3 DEF Client
<1>5. client[b].principal.cookie # None =>
        \A i \in DOMAIN s : s[i].readAt < client[b].principal.exp
  BY <1>1 DEF ClientInv
<1> HIDE DEF s, c
<1>6. ClientInv(c, now, config)
  BY <1>1, <1>3, <1>4, <1>5 DEF ClientInv
<1> QED BY <1>3, <1>4, <1>5, <1>6 DEF s, c

\* A decision about a frame read in time is as it should be.
LEMMA DecidedFact ==
    ASSUME Inv, NEW b \in Browsers, client[b] # None, NEW t \in Nat, NEW kind,
           client[b].principal.cookie # None => t < client[b].principal.exp,
           Decided(b, kind, t)
    PROVE  OutcomeInv'
<1>1. client[b].principal \in Principal /\ ClientInv(client[b], now, config)
  BY ClientFact
<1>2. TypeOK
  BY DEF Inv
<1> QED BY <1>1, <1>2, OutcomeFact DEF Decided, ClientInv

\* A pong moves the deadline, never beyond the session.
LEMMA PongStep ==
    ASSUME Inv, NEW b \in Browsers, client[b] # None, client[b].buffer # <<>>, Pong(b),
           UNCHANGED <<now, config, cookie, upgrades, restarts>>
    PROVE  Inv'
<1> DEFINE d == [client[b] EXCEPT !.buffer = Tail(@)]
           c == [d EXCEPT !.deadline = nextReadDeadline(client[b].principal.exp)]
<1>1. /\ d \in Client /\ ClientInv(d, now, config) /\ d.principal = client[b].principal
      /\ client[b].principal \in Principal
  BY HandledClient, ClientFact DEF Client
<1>2. client' = [client EXCEPT ![b] = c] /\ outcome' = None
  BY DEF Pong, Inv, TypeOK
<1> HIDE DEF d
<1>3. c \in Client /\ ClientInv(c, now, config)
  BY <1>1, DeadlineClient DEF Inv
<1> HIDE DEF c
<1> QED BY <1>2, <1>3, SetClient, NoOutcome

\* A username frame renames anonymous clients only.
LEMMA UsernameFrameStep ==
    ASSUME Inv, NEW b \in Browsers, client[b] # None, client[b].buffer # <<>>,
           UsernameFrame(b, Head(client[b].buffer).frame, Head(client[b].buffer).readAt),
           UNCHANGED <<now, config, cookie, upgrades, restarts>>
    PROVE  Inv'
<1> DEFINE f == Head(client[b].buffer).frame
           t == Head(client[b].buffer).readAt
           d == [client[b] EXCEPT !.buffer = Tail(@)]
<1>1. /\ d \in Client /\ ClientInv(d, now, config) /\ d.principal = client[b].principal
      /\ f \in Frame /\ t \in Nat
      /\ client[b].principal.cookie # None => t < client[b].principal.exp
  BY HandledClient, ClientFact DEF Client
<1>2. CASE client[b].principal.user = None /\ f.valid
  <2> DEFINE c == [d EXCEPT !.name = f.content]
  <2>1. client' = [client EXCEPT ![b] = c] /\ outcome' = None
    BY <1>2 DEF UsernameFrame, Inv, TypeOK
  <2>2. d.principal.cookie = None
    BY <1>1, <1>2, SessionAssumption DEF ClientInv, PrincipalInv, Client, Principal, Cookie
  <2> HIDE DEF d, f
  <2>3. c \in Client /\ ClientInv(c, now, config)
    BY <1>1, <2>2 DEF Client, ClientInv, Frame
  <2> HIDE DEF c
  <2> QED BY <2>1, <2>3, SetClient, NoOutcome
<1>3. CASE ~(client[b].principal.user = None /\ f.valid)
  <2>1. client' = [client EXCEPT ![b] = d] /\ \E kind : Decided(b, kind, t)
    BY <1>3 DEF UsernameFrame
  <2>2. OutcomeInv'
    BY <1>1, <2>1, DecidedFact
  <2> HIDE DEF d
  <2> QED BY <1>1, <2>1, <2>2, SetClient
<1> QED BY <1>2, <1>3

\* A message is saved under the client's own name, against its bucket.
LEMMA MessageFrameStep ==
    ASSUME Inv, NEW b \in Browsers, client[b] # None, client[b].buffer # <<>>,
           MessageFrame(b, Head(client[b].buffer).frame, Head(client[b].buffer).readAt),
           UNCHANGED <<now, config, cookie, upgrades, restarts>>
    PROVE  Inv'
<1> DEFINE f == Head(client[b].buffer).frame
           t == Head(client[b].buffer).readAt
           d == [client[b] EXCEPT !.buffer = Tail(@)]
           lim == client[b].limiter
<1>1. /\ d \in Client /\ ClientInv(d, now, config) /\ d.limiter = lim /\ t \in Nat
      /\ client[b].principal.cookie # None => t < client[b].principal.exp
  BY HandledClient, ClientFact DEF Client
<1>2. OutcomeInv'
  <2>1. \E kind : Decided(b, kind, t)
    BY DEF MessageFrame
  <2> QED BY <1>1, <2>1, DecidedFact
<1>3. CASE f.valid /\ Allow(lim)
  <2> DEFINE c == [d EXCEPT !.limiter = Taken(lim)]
  <2>1. client' = [client EXCEPT ![b] = c]
    BY <1>3 DEF MessageFrame, Inv, TypeOK
  <2>2. Taken(lim) # None => BucketInv(Taken(lim), now)
    BY <1>1, <1>3, LimiterFact DEF ClientInv, Inv, TypeOK
  <2> HIDE DEF d, lim
  <2>3. Taken(lim) \in Limiter \cup {None}
    BY <2>2 DEF BucketInv
  <2>4. c \in Client /\ ClientInv(c, now, config)
    BY <1>1, <2>2, <2>3 DEF Client, ClientInv
  <2> HIDE DEF c
  <2> QED BY <1>2, <2>1, <2>4, SetClient
<1>4. CASE ~(f.valid /\ Allow(lim))
  <2>1. client' = [client EXCEPT ![b] = d]
    BY <1>4 DEF MessageFrame
  <2> HIDE DEF d
  <2> QED BY <1>1, <1>2, <2>1, SetClient
<1> QED BY <1>3, <1>4

\* A connection that ends leaves no client behind.
LEMMA DisconnectStep ==
    ASSUME Inv, NEW b \in Browsers, Disconnect(b) PROVE Inv'
BY SetClient, NoOutcome DEF Disconnect

\* Time passes without giving any bucket more than its rate.
LEMMA TickStep == ASSUME Inv, Tick PROVE Inv'
<1>1. now \in Nat /\ now' = now + 1 /\ outcome' = None
      /\ UNCHANGED <<config, cookie, client, upgrades, restarts>>
  BY DEF Tick, Inv, TypeOK
<1>2. \A lim : BucketInv(lim, now) => BucketInv(lim, now')
  BY <1>1, WaitBucket
<1>3. TypeOK'
  BY <1>1 DEF Inv, TypeOK
<1>4. \A b \in Browsers : client[b] # None => ClientInv(client[b], now', config)
  BY <1>2 DEF Inv, ClientInv
<1> QED BY <1>1, <1>2, <1>3, <1>4, NoOutcome DEF Inv

\* A restart drops clients and limiters; cookies survive it.
LEMMA RestartStep == ASSUME Inv, NEW cfg \in Configs, Restart(cfg) PROVE Inv'
<1>1. TypeOK'
  BY DEF Restart, Inv, TypeOK
<1>2. /\ \A b \in Browsers : client'[b] = None
      /\ \A ip \in Addresses : upgrades'[ip] = None
  BY DEF Restart
<1>3. OutcomeInv'
  BY NoOutcome DEF Restart
<1> QED BY <1>1, <1>2, <1>3 DEF Inv, Restart

\* Every step keeps the invariant.
LEMMA NextInv == Inv /\ [Next]_vars => Inv'
<1> SUFFICES ASSUME Inv, [Next]_vars PROVE Inv'
  OBVIOUS
<1>1. ASSUME NEW b \in Browsers, HandleFrame(b) PROVE Inv'
  BY <1>1, PongStep, UsernameFrameStep, MessageFrameStep DEF HandleFrame
<1>2. CASE UNCHANGED vars
  BY <1>2 DEF vars, Inv, TypeOK, OutcomeInv, AcceptedBeforeExpiry, SessionsAreShort,
     OnlyWhatWasSigned, Signed
<1>3. ASSUME NEW b \in Browsers, DeadlinePasses(b) \/ ConnectionCloses(b) PROVE Inv'
  BY <1>3, DisconnectStep DEF DeadlinePasses, ConnectionCloses
<1>4. ASSUME NEW b \in Browsers, NEW origin, Logout(b, origin) \/ MaxAgePasses(b)
      PROVE  Inv'
  BY <1>4, ForgetCookieStep DEF Logout, MaxAgePasses
<1> QED BY <1>1, <1>2, <1>3, <1>4, LoginStep, serveWsStep, ReadHistoryStep, ReceiveStep,
     readMessagesStep, RestartStep, TickStep DEF Next

\* The invariant holds throughout.
LEMMA InvHolds == Spec => []Inv
BY InitInv, NextInv, PTL DEF Spec

\* For every configuration, clock and client: the types hold, in particular no
\* bucket overfills.
THEOREM SessionTypes == Spec => []TypeOK
<1>1. Inv => TypeOK
  BY DEF Inv
<1> QED BY <1>1, InvHolds, PTL

\* A server handles only frames read before the session of their sender
\* expired, for every rhythm of pongs, restarts and logins.
THEOREM SessionExpiry == Spec => []AcceptedBeforeExpiry
<1>1. Inv => AcceptedBeforeExpiry
  BY DEF Inv, OutcomeInv
<1> QED BY <1>1, InvHolds, PTL

\* No access is later after its login than the lifetime that the server at the
\* time of the access is configured with, and a second.
THEOREM SessionLifetime == Spec => []SessionsAreShort
<1>1. Inv => SessionsAreShort
  BY DEF Inv, OutcomeInv
<1> QED BY <1>1, InvHolds, PTL

\* A server in session mode acts only on its own signature and within what was
\* signed, however often it is restarted with other secrets and grants.
THEOREM SessionSignature == Spec => []OnlyWhatWasSigned
<1>1. Inv => OnlyWhatWasSigned
  BY DEF Inv, OutcomeInv
<1> QED BY <1>1, InvHolds, PTL

\* In every interval a bucket lets no more through than its size and what was
\* added, for every rate, burst and address.
THEOREM SessionRates == Spec => []RatesAreKept
<1>1. Inv => RatesAreKept
  BY DEF Inv, RatesAreKept, ClientInv, BucketInv
<1> QED BY <1>1, InvHolds, PTL
=============================================================================
