---------------------------- MODULE RateLimiter ----------------------------
(***************************************************************************)
(* app/ratelimit.py: the middleware and its sliding window.  A request is  *)
(* checked and, when refused, told how long to wait, without an await in   *)
(* between: one step, but for the clock, which each of the two calls reads.*)
(* RATE_LIMIT_PER_MINUTE = 0 removes the middleware and is not an instance.*)
(***************************************************************************)
EXTENDS Integers, Sequences

CONSTANTS
    Keys,       \* what identity_key returns: org:user, or the client's address
    Limit,      \* requests allowed in a window
    Window,     \* window_seconds, in ticks of the clock
    Second,     \* the ticks of a second: Retry-After is in whole seconds
    Lag,        \* bound: ticks between the two readings of the clock
    Horizon,    \* bound: the last tick
    NULL

ASSUME LimiterAssumption ==
    /\ Limit \in Nat \ {0} /\ Window \in Nat \ {0} /\ Second \in Nat \ {0}
    /\ Lag \in Nat /\ Horizon \in Nat /\ NULL \notin Nat

VARIABLES
    now,        \* time.monotonic()
    events,     \* _events: the recorded instants of each key, oldest first
    admitted,   \* history: every instant a request of the key was let through
    told        \* the instant the last refused request may come back, or NULL

vars == <<now, events, admitted, told>>

Init ==
    /\ now = 0
    /\ events   = [k \in Keys |-> << >>]
    /\ admitted = [k \in Keys |-> << >>]
    /\ told     = [k \in Keys |-> NULL]

\* Definitions named X_<bug> are X with a plausible bug: each breaks a property.
Cutoff_late == now - Window + 1
Cutoff == now - Window

Expired_strictly(s, n) ==
    /\ \A i \in 1 .. n : s[i] < Cutoff
    /\ n < Len(s) => s[n + 1] >= Cutoff

\* The loop of check pops n instants: those up to the cutoff, itself included.
Expired(s, n) ==
    /\ \A i \in 1 .. n : s[i] <= Cutoff
    /\ n < Len(s) => s[n + 1] > Cutoff

After(s, n) == SubSeq(s, n + 1, Len(s))

Full_late(s) == Len(s) > Limit
Full(s) == Len(s) >= Limit

\* int(window - elapsed) + 1 whole seconds, at least one.
retry_after_floor(s, instant) ==
    LET seconds == (Window - (instant - s[1])) \div Second
    IN  IF seconds > 1 THEN seconds ELSE 1
retry_after(s, instant) ==
    LET seconds == (Window - (instant - s[1])) \div Second + 1
    IN  IF seconds > 1 THEN seconds ELSE 1

Admit(k) ==
    \E n \in 0 .. Len(events[k]) :
        /\ Expired(events[k], n)
        /\ ~Full(After(events[k], n))
        /\ events'   = [events EXCEPT ![k] = Append(After(@, n), now)]
        /\ admitted' = [admitted EXCEPT ![k] = Append(@, now)]
        /\ told'     = [told EXCEPT ![k] = NULL]
        /\ UNCHANGED now

Refuse(k) ==
    \E n \in 0 .. Len(events[k]), lag \in 0 .. Lag :
        /\ now + lag <= Horizon
        /\ Expired(events[k], n)
        /\ Full(After(events[k], n))
        /\ events' = [events EXCEPT ![k] = After(@, n)]
        /\ now'    = now + lag
        /\ told'   = [told EXCEPT ![k] =
                        now' + Second * retry_after(events'[k], now')]
        /\ UNCHANGED admitted

Tick ==
    /\ now < Horizon
    /\ now' = now + 1
    /\ UNCHANGED <<events, admitted, told>>

Next == Tick \/ \E k \in Keys : Admit(k) \/ Refuse(k)

Spec == Init /\ [][Next]_vars
----------------------------------------------------------------------------
(* Types; and the deque of a key never holds more than Limit instants.     *)
TypeOK ==
    /\ now \in Nat
    /\ events   \in [Keys -> Seq(Nat)]
    /\ admitted \in [Keys -> Seq(Nat)]
    /\ told     \in [Keys -> Nat \union {NULL}]
    /\ \A k \in Keys : Len(events[k]) <= Limit

(* No window, wherever it starts, sees more than Limit requests of a key,  *)
(* although check forgets instants as it goes: of Limit + 1 consecutive    *)
(* ones the first and the last are a whole window apart.                   *)
NeverOverLimit ==
    \A k \in Keys : \A i \in 1 .. Len(admitted[k]) - Limit :
        admitted[k][i + Limit] - admitted[k][i] >= Window

(* A request is refused only when Limit requests of its key were let       *)
(* through less than a window ago: an instant at the cutoff does not count,*)
(* and refused requests do not push the window on.                         *)
RefusedOnlyWhenFull ==
    [][\A k \in Keys : told'[k] # told[k] /\ told'[k] # NULL =>
         /\ Len(admitted[k]) >= Limit
         /\ admitted[k][Len(admitted[k]) - Limit + 1] > now - Window]_vars

(* Retry-After is honest: by then the instant that filled the window has   *)
(* expired, whatever was refused meanwhile, and it is not over a second    *)
(* (and the lag of the second reading) too long.                           *)
RetryAfterIsHonest ==
    \A k \in Keys : told[k] # NULL =>
        /\ Len(events[k]) = Limit
        /\ events[k][1] + Window <= told[k]
        /\ told[k] <= events[k][1] + Window + Second + Lag
=============================================================================
