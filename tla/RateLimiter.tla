----------------------------- MODULE RateLimiter -----------------------------
(***************************************************************************)
(* The fixed-window limiter that enforce_rate_limit asks before it turns   *)
(* away a request without a valid key.  A check reads the monotonic clock, *)
(* then takes the lock; other checks and time may come between, so it may  *)
(* work with a reading that is older than the windows it finds.  (The      *)
(* service calls it from the event loop alone; the class promises to be    *)
(* thread-safe, and is modelled with threads.)                             *)
(*                                                                         *)
(* Time is counted in ticks, `Second` to a second.  `ends` and `granted`   *)
(* are history variables: the end of the window a client was last given,   *)
(* and what it was granted before the CLOCK reached that end.              *)
(***************************************************************************)
EXTENDS Integers, FiniteSets

CONSTANTS
    Threads,
    Clients,            \* bucket keys: client addresses
    NoWindow, NoReading,
    LimitSetting,       \* UNAUTH_RATE_LIMIT_REQUESTS
    WindowSetting,      \* RATE_LIMIT_WINDOW_SECONDS
    EvictAt,            \* 1024
    Second,             \* ticks in a second
    MaxClock            \* bound

AtLeastOne(n) == IF n < 1 THEN 1 ELSE n

Limit == AtLeastOne(LimitSetting)
Window == AtLeastOne(WindowSetting) * Second

ASSUME LimiterAssumption ==
    /\ IsFiniteSet(Clients)
    /\ LimitSetting \in Int /\ WindowSetting \in Int
    /\ EvictAt \in Nat /\ MaxClock \in Nat
    /\ Second \in Nat \ {0}
    /\ NoWindow \notin [count : Nat, reset : Nat]
    /\ NoReading \notin Nat

VARIABLES
    clock,      \* the monotonic clock
    windows,    \* _buckets
    reading,    \* the clock as each check under way has read it
    client,     \* whom it is about
    answer,     \* of the check that ended last: 401, or 429 with its Retry-After
    ends, granted

limiterVars == <<clock, windows, reading, client, answer, ends, granted>>

Unauthorized == [code |-> 401, retry |-> 0]
Limited(n) == [code |-> 429, retry |-> n]

LimiterInit ==
    /\ clock = 0
    /\ windows = [c \in Clients |-> NoWindow]
    /\ reading = [t \in Threads |-> NoReading]
    /\ client \in [Threads -> Clients]
    /\ answer = Unauthorized
    /\ ends = [c \in Clients |-> 0]
    /\ granted = [c \in Clients |-> 0]

Held == {c \in Clients : windows[c] # NoWindow}

\* Variant: nothing is evicted until the threshold is passed.
KeptAboveThreshold(n) ==
    IF Cardinality(Held) <= EvictAt THEN Held ELSE {c \in Held : n < windows[c].reset}

\* Variant: the test for expiry is turned round.
KeptExpired(n) ==
    IF Cardinality(Held) < EvictAt THEN Held ELSE {c \in Held : n >= windows[c].reset}

\* _evict_expired: the clients whose window survives.
Kept(n) ==
    IF Cardinality(Held) < EvictAt THEN Held ELSE {c \in Held : n < windows[c].reset}

\* The window of c is still counted in at reading n.
InForce(c, n) == c \in Kept(n) /\ n < windows[c].reset

\* The window a check of c at reading n counts in.
Current(c, n) == IF InForce(c, n) THEN windows[c] ELSE [count |-> 0, reset |-> n + Window]

\* Variant: the part of a second that is left is dropped.
Truncated(n) == n \div Second

\* round(): to the nearest second, halves to the even one.
Rounded(n) ==
    LET q == n \div Second
        r == n % Second
    IN  IF 2 * r < Second \/ (2 * r = Second /\ q % 2 = 0) THEN q ELSE q + 1

Put(c, n, w) ==
    windows' = [d \in Clients |->
                   IF d = c THEN w ELSE IF d \in Kept(n) THEN windows[d] ELSE NoWindow]

\* now = time.monotonic()
ReadClock(t, c) ==
    /\ reading[t] = NoReading
    /\ reading' = [reading EXCEPT ![t] = clock]
    /\ client' = [client EXCEPT ![t] = c]
    /\ UNCHANGED <<clock, windows, answer, ends, granted>>

Return(t, a) ==
    /\ answer' = a
    /\ reading' = [reading EXCEPT ![t] = NoReading]
    /\ UNCHANGED <<clock, client>>

\* Variant: the limit is the last count that still passes.
HasRoomAtLimit(w) == w.count <= Limit

\* Variant: the last request of a window is refused.
HasRoomForMore(w) == w.count + 1 < Limit

HasRoom(w) == w.count < Limit

\* Under the lock: the request is counted, and answered 401.
Allow(t) ==
    LET c == client[t]
        n == reading[t]
        w == Current(c, n)
    IN  /\ n # NoReading /\ HasRoom(w)
        /\ Put(c, n, [w EXCEPT !.count = @ + 1])
        /\ Return(t, Unauthorized)
        /\ IF InForce(c, n) \/ clock < ends[c]
           THEN granted' = [granted EXCEPT ![c] = @ + 1] /\ UNCHANGED ends
           ELSE /\ granted' = [granted EXCEPT ![c] = 1]
                /\ ends' = [ends EXCEPT ![c] = w.reset]

\* Under the lock: the window is used up, 429.
Deny(t) ==
    LET c == client[t]
        n == reading[t]
        w == Current(c, n)
    IN  /\ n # NoReading /\ ~HasRoom(w)
        /\ Put(c, n, w)
        /\ Return(t, Limited(AtLeastOne(Rounded(w.reset - n))))
        /\ UNCHANGED <<ends, granted>>

Tick ==
    /\ clock < MaxClock
    /\ clock' = clock + 1
    /\ UNCHANGED <<windows, reading, client, answer, ends, granted>>

LimiterNext ==
    \/ Tick
    \/ \E t \in Threads : (\E c \in Clients : ReadClock(t, c)) \/ Allow(t) \/ Deny(t)

LimiterSpec == LimiterInit /\ [][LimiterNext]_limiterVars

-----------------------------------------------------------------------------
LimiterTypeOK ==
    /\ clock \in 0 .. MaxClock
    /\ windows \in [Clients -> [count : 1 .. Limit, reset : Nat] \cup {NoWindow}]
    /\ reading \in [Threads -> 0 .. MaxClock \cup {NoReading}]
    /\ client \in [Threads -> Clients]
    /\ answer \in [code : {401, 429}, retry : Nat]
    /\ ends \in [Clients -> Nat]
    /\ granted \in [Clients -> Nat]

\* Before the clock has reached the end of the window a client was given, no
\* more than the limit are granted to it: whatever is evicted, and however old
\* the readings of the checks that find the window, or find it gone.
LimitHolds == \A c \in Clients : granted[c] <= Limit

Ends(t) == reading[t] # NoReading /\ reading'[t] = NoReading

Denied(t) == Ends(t) /\ answer'.code = 429

\* 429 is told only to a client that has used up its own window, and only with
\* a reading from before the end of that window.
DeniedForCause ==
    [][\A t \in Threads : Denied(t) =>
          granted[client[t]] = Limit /\ reading[t] < ends[client[t]]]_limiterVars

\* "Bound memory use": once the threshold is reached, a check leaves windows
\* beyond it only if each of them is still in force.
OnlyLiveWindowsPileUp ==
    [][\A t \in Threads : Ends(t) =>
          \/ Cardinality(Held') <= EvictAt
          \/ \A c \in Held' : reading[t] < windows'[c].reset]_limiterVars

\* Retry-After, in whole seconds, is never zero, ends at most half a second
\* before the window, and, unless it is one, at most half a second after it.
RetryAfterIsClose ==
    [][\A t \in Threads : Denied(t) =>
          LET left == ends[client[t]] - reading[t]
              told == answer'.retry
          IN  /\ told >= 1
              /\ 2 * (left - told * Second) <= Second
              /\ told = 1 \/ 2 * (told * Second - left) <= Second]_limiterVars
=============================================================================
