----------------------------- MODULE RateLimit -----------------------------
(***************************************************************************)
(* The token buckets of the server: one per connection for chat messages   *)
(* (client.go newMessageLimiter) and one per client address for WebSocket  *)
(* upgrades (internal/ratelimit).  The bucket is rate.Limiter of           *)
(* golang.org/x/time.  A token is counted as Unit credits, so that a rate  *)
(* of less than one token per clock tick is a whole number of credits.     *)
(***************************************************************************)
EXTENDS Naturals, Sequences

CONSTANTS
    Unit,   \* credits of one token
    Rate,   \* credits added in one tick
    Burst   \* configured size of a bucket, in tokens

ASSUME RateAssumption ==
    /\ Unit \in Nat \ {0} /\ Rate \in Nat /\ Burst \in Nat

\* A burst below one is raised to one.
Capacity == Unit * (IF Burst < 1 THEN 1 ELSE Burst)

\* A full bucket.  allowed is a ghost: when its events were allowed.
NewLimiter(t) == [credits |-> Capacity, last |-> t, allowed |-> <<>>]

\* Mutant: the credits are not capped.
RefilledUncapped(lim, t) == lim.credits + Rate * (t - lim.last)

Refilled(lim, t) ==
    LET credits == lim.credits + Rate * (t - lim.last)
    IN IF credits > Capacity THEN Capacity ELSE credits

Allows(lim, t) == Refilled(lim, t) >= Unit

\* Mutant: the bucket is filled up whenever it is asked.
TakeFull(lim, t) ==
    [credits |-> Capacity, last |-> t, allowed |-> Append(lim.allowed, t)]

Take(lim, t) ==
    [credits |-> Refilled(lim, t) - Unit, last |-> t,
     allowed |-> Append(lim.allowed, t)]

\* A limiter as it can be.
Limiter ==
    [credits : 0..Capacity, last : Nat, allowed : Seq(Nat)]

\* In every interval no more is allowed than a full bucket and what was added
\* during the interval.
Bounded(lim) ==
    \A i, j \in DOMAIN lim.allowed :
        i <= j => Unit * (j - i + 1)
                    <= Capacity + Rate * (lim.allowed[j] - lim.allowed[i])
=============================================================================
