-------------------------- MODULE RateLimiter_proofs --------------------------
(***************************************************************************)
(* The limit, the cause of every 429 and the bound on memory, for any      *)
(* number of threads and clients and any settings.  What makes them hold   *)
(* although checks work with old readings: a reading is never ahead of the *)
(* clock, so a window that is found expired, or evicted, has ended.        *)
(***************************************************************************)
EXTENDS RateLimiter, FiniteSetTheorems, TLAPS

\* A window is the one its client was given last, and counts what was granted
\* in it; a client without a window has outlived its last one.
WindowIsLastGiven(c) ==
    /\ windows[c] # NoWindow => windows[c].reset = ends[c] /\ windows[c].count = granted[c]
    /\ windows[c] = NoWindow => clock >= ends[c]

ReadingsArePast == \A t \in Threads : reading[t] # NoReading => reading[t] <= clock

LimiterInv ==
    /\ LimiterTypeOK
    /\ LimitHolds
    /\ \A c \in Clients : WindowIsLastGiven(c)
    /\ ReadingsArePast

-----------------------------------------------------------------------------
\* The settings are taken as at least one.
LEMMA SettingsArePositive == Limit \in Nat \ {0} /\ Window \in Nat \ {0}
<1>1. AtLeastOne(LimitSetting) \in Nat \ {0} /\ AtLeastOne(WindowSetting) \in Nat \ {0}
  BY LimiterAssumption DEF AtLeastOne
<1>2. \A m, n \in Nat \ {0} : m * n \in Nat \ {0}
  OBVIOUS
<1>3. QED
  BY <1>1, <1>2, LimiterAssumption DEF Limit, Window

LEMMA WindowFields ==
    ASSUME LimiterTypeOK, NEW c \in Clients, windows[c] # NoWindow
    PROVE  /\ windows[c] \in [count : 1 .. Limit, reset : Nat]
           /\ windows[c].count \in 1 .. Limit /\ windows[c].reset \in Nat
BY DEF LimiterTypeOK

\* A check that does not count in a window of its client finds that the client
\* has outlived it.
LEMMA NotInForce ==
    ASSUME LimiterInv, NEW c \in Clients, NEW n \in Nat, n <= clock, ~InForce(c, n)
    PROVE  clock >= ends[c]
<1>1. CASE windows[c] = NoWindow
  BY <1>1 DEF LimiterInv, WindowIsLastGiven
<1>2. CASE windows[c] # NoWindow
  <2>1. windows[c].reset \in Nat /\ windows[c].reset = ends[c] /\ clock \in Nat
    BY <1>2, WindowFields, LimiterAssumption
    DEF LimiterInv, LimiterTypeOK, WindowIsLastGiven
  <2>2. n >= windows[c].reset
    BY <1>2, <2>1 DEF InForce, Kept, Held
  <2>3. QED
    BY <2>1, <2>2
<1>3. QED
  BY <1>1, <1>2

\* A window in force is a window there is.
LEMMA InForceIsHeld ==
    ASSUME LimiterTypeOK, NEW c \in Clients, NEW n \in Nat, InForce(c, n)
    PROVE  /\ windows[c] # NoWindow /\ Current(c, n) = windows[c]
           /\ n < windows[c].reset
BY DEF InForce, Kept, Held, Current

\* Whatever window a check counts in, it ends after the check's reading.
LEMMA CurrentType ==
    ASSUME LimiterTypeOK, NEW c \in Clients, NEW n \in Nat
    PROVE  /\ Current(c, n) \in [count : 0 .. Limit, reset : Nat]
           /\ n < Current(c, n).reset
           /\ ~InForce(c, n) => Current(c, n) = [count |-> 0, reset |-> n + Window]
<1>1. CASE InForce(c, n)
  BY <1>1, InForceIsHeld, WindowFields, SettingsArePositive
<1>2. CASE ~InForce(c, n)
  BY <1>2, SettingsArePositive DEF Current
<1>3. QED
  BY <1>1, <1>2

\* A check that is told no has found a window in force, and used up.
LEMMA NoRoomInForce ==
    ASSUME LimiterTypeOK, NEW c \in Clients, NEW n \in Nat, ~HasRoom(Current(c, n))
    PROVE  InForce(c, n) /\ windows[c].count = Limit
<1>1. InForce(c, n)
  BY CurrentType, SettingsArePositive DEF HasRoom
<1>2. QED
  BY <1>1, InForceIsHeld, WindowFields, SettingsArePositive DEF HasRoom

\* What Put leaves of the other clients' windows.
LEMMA PutOthers ==
    ASSUME LimiterInv, NEW c \in Clients, NEW n \in Nat, n <= clock, NEW w, Put(c, n, w),
           NEW d \in Clients, d # c
    PROVE  \/ windows'[d] = windows[d]
           \/ windows'[d] = NoWindow /\ clock >= ends[d]
<1>1. windows'[d] = IF d \in Kept(n) THEN windows[d] ELSE NoWindow
  BY DEF Put
<1>2. CASE d \in Kept(n)
  BY <1>1, <1>2
<1>3. CASE d \notin Kept(n)
  BY <1>1, <1>3, NotInForce DEF InForce
<1>4. QED
  BY <1>2, <1>3

LEMMA PutType ==
    ASSUME LimiterTypeOK, NEW c \in Clients, NEW n \in Nat,
           NEW w \in [count : 1 .. Limit, reset : Nat], Put(c, n, w)
    PROVE  /\ windows' \in [Clients -> [count : 1 .. Limit, reset : Nat] \cup {NoWindow}]
           /\ windows'[c] = w
BY DEF Put, LimiterTypeOK

-----------------------------------------------------------------------------
THEOREM InitEstablishes == LimiterInit => LimiterInv
BY LimiterAssumption, SettingsArePositive
DEF LimiterInit, LimiterInv, LimiterTypeOK, LimitHolds, WindowIsLastGiven, ReadingsArePast, Unauthorized

\* What every check that ends does to the readings and the clock.
LEMMA ReturnKeeps ==
    ASSUME LimiterInv, NEW t \in Threads, NEW a \in [code : {401, 429}, retry : Nat], Return(t, a)
    PROVE  /\ clock' \in 0 .. MaxClock /\ client' \in [Threads -> Clients]
           /\ reading' \in [Threads -> 0 .. MaxClock \cup {NoReading}]
           /\ answer' \in [code : {401, 429}, retry : Nat]
           /\ ReadingsArePast'
BY DEF Return, LimiterInv, LimiterTypeOK, ReadingsArePast

\* The reading of a check under way.
LEMMA ReadingOf ==
    ASSUME LimiterInv, NEW t \in Threads, reading[t] # NoReading
    PROVE  reading[t] \in Nat /\ reading[t] <= clock /\ client[t] \in Clients
BY LimiterAssumption DEF LimiterInv, LimiterTypeOK, ReadingsArePast

LEMMA AllowStep ==
    ASSUME LimiterInv, NEW t \in Threads, Allow(t)
    PROVE  LimiterInv'
<1> DEFINE c == client[t]
           n == reading[t]
           w == Current(c, n)
           wn == [w EXCEPT !.count = @ + 1]
<1>1. /\ n \in Nat /\ n <= clock /\ c \in Clients
      /\ w.count < Limit
      /\ Put(c, n, wn)
      /\ Return(t, Unauthorized)
  BY ReadingOf DEF Allow, HasRoom
<1>2. /\ w.count \in Nat /\ w.reset \in Nat /\ w \in [count : 0 .. Limit, reset : Nat]
      /\ wn \in [count : 1 .. Limit, reset : Nat]
      /\ wn.count = w.count + 1 /\ wn.reset = w.reset
  BY <1>1, CurrentType, SettingsArePositive DEF LimiterInv
<1>3. /\ clock' = clock
      /\ \A d \in Clients : d # c =>
            \/ windows'[d] = windows[d]
            \/ windows'[d] = NoWindow /\ clock >= ends[d]
      /\ windows'[c] = wn
      /\ windows' \in [Clients -> [count : 1 .. Limit, reset : Nat] \cup {NoWindow}]
  <2>1. clock' = clock
    BY <1>1 DEF Return
  <2>2. \A d \in Clients : d # c =>
            \/ windows'[d] = windows[d]
            \/ windows'[d] = NoWindow /\ clock >= ends[d]
    BY <1>1, PutOthers
  <2>3. /\ windows'[c] = wn
        /\ windows' \in [Clients -> [count : 1 .. Limit, reset : Nat] \cup {NoWindow}]
    BY <1>1, <1>2, PutType DEF LimiterInv
  <2>4. QED
    BY <2>1, <2>2, <2>3
<1>4. /\ ends' \in [Clients -> Nat] /\ granted' \in [Clients -> Nat]
      /\ ends'[c] = w.reset /\ granted'[c] = wn.count
      /\ \A d \in Clients : d # c => ends'[d] = ends[d] /\ granted'[d] = granted[d]
  <2>0. /\ ends \in [Clients -> Nat] /\ granted \in [Clients -> Nat] /\ clock \in Nat
    BY DEF LimiterInv, LimiterTypeOK
  <2>1. CASE InForce(c, n)
    <3>1. w = windows[c] /\ windows[c] # NoWindow
      BY <1>1, <2>1, InForceIsHeld DEF LimiterInv
    <3>2. w.reset = ends[c] /\ w.count = granted[c]
      BY <1>1, <3>1 DEF LimiterInv, WindowIsLastGiven
    <3>3. granted' = [granted EXCEPT ![c] = @ + 1] /\ ends' = ends
      BY <2>1 DEF Allow
    <3>4. QED
      BY <1>1, <1>2, <2>0, <3>2, <3>3
  <2>2. CASE ~InForce(c, n)
    <3>1. ~(clock < ends[c])
      BY <1>1, <2>0, <2>2, NotInForce
    <3>2. granted' = [granted EXCEPT ![c] = 1] /\ ends' = [ends EXCEPT ![c] = w.reset]
      BY <2>2, <3>1 DEF Allow
    <3>3. w.count = 0
      BY <1>1, <2>2, CurrentType DEF LimiterInv
    <3>4. QED
      BY <1>1, <1>2, <2>0, <3>2, <3>3
  <2>3. QED
    BY <2>1, <2>2
<1>5. LimiterTypeOK' /\ ReadingsArePast'
  BY <1>1, <1>3, <1>4, ReturnKeeps DEF LimiterTypeOK, Unauthorized
<1>6. LimitHolds'
  BY <1>2, <1>4, SettingsArePositive DEF LimitHolds, LimiterInv
<1>7. \A d \in Clients : WindowIsLastGiven(d)'
  <2>1. SUFFICES ASSUME NEW d \in Clients PROVE WindowIsLastGiven(d)'
    OBVIOUS
  <2>2. CASE d = c
    BY <1>1, <1>2, <1>3, <1>4, <2>2, LimiterAssumption DEF WindowIsLastGiven
  <2>3. CASE d # c
    BY <1>3, <1>4, <2>3 DEF WindowIsLastGiven, LimiterInv
  <2>4. QED
    BY <2>2, <2>3
<1>8. QED
  BY <1>5, <1>6, <1>7 DEF LimiterInv

\* Retry-After is a number of seconds.
LEMMA RoundedType ==
    ASSUME NEW n \in Nat
    PROVE  Rounded(n) \in Nat /\ AtLeastOne(Rounded(n)) \in Nat
<1>1. n \div Second \in Nat
  BY LimiterAssumption
<1>2. Rounded(n) \in Nat
  BY <1>1 DEF Rounded
<1>3. QED
  BY <1>2 DEF AtLeastOne

LEMMA DenyStep ==
    ASSUME LimiterInv, NEW t \in Threads, Deny(t)
    PROVE  LimiterInv'
<1> DEFINE c == client[t]
           n == reading[t]
           w == Current(c, n)
           a == Limited(AtLeastOne(Rounded(w.reset - n)))
<1>1. /\ n \in Nat /\ n <= clock /\ c \in Clients
      /\ ~HasRoom(w)
      /\ Put(c, n, w)
      /\ Return(t, a)
      /\ UNCHANGED <<ends, granted>>
  BY ReadingOf DEF Deny
<1>2. InForce(c, n) /\ w = windows[c] /\ windows[c] # NoWindow /\ n < w.reset /\ w.reset \in Nat
  BY <1>1, NoRoomInForce, InForceIsHeld, WindowFields DEF LimiterInv
<1>3. a \in [code : {401, 429}, retry : Nat]
  <2>1. w.reset - n \in Nat
    BY <1>1, <1>2
  <2>2. QED
    BY <2>1, RoundedType DEF Limited
<1>4. /\ clock' = clock
      /\ \A d \in Clients : d # c =>
            \/ windows'[d] = windows[d]
            \/ windows'[d] = NoWindow /\ clock >= ends[d]
      /\ windows'[c] = windows[c]
      /\ windows' \in [Clients -> [count : 1 .. Limit, reset : Nat] \cup {NoWindow}]
  <2>1. clock' = clock
    BY <1>1 DEF Return
  <2>2. \A d \in Clients : d # c =>
            \/ windows'[d] = windows[d]
            \/ windows'[d] = NoWindow /\ clock >= ends[d]
    BY <1>1, PutOthers
  <2>3. /\ windows'[c] = windows[c]
        /\ windows' \in [Clients -> [count : 1 .. Limit, reset : Nat] \cup {NoWindow}]
    BY <1>1, <1>2, WindowFields, PutType DEF LimiterInv
  <2>4. QED
    BY <2>1, <2>2, <2>3
<1>5. LimiterTypeOK' /\ ReadingsArePast'
  BY <1>1, <1>3, <1>4, ReturnKeeps DEF LimiterTypeOK, LimiterInv
<1>6. LimitHolds'
  BY <1>1 DEF LimitHolds, LimiterInv
<1>7. \A d \in Clients : WindowIsLastGiven(d)'
  BY <1>1, <1>4 DEF WindowIsLastGiven, LimiterInv
<1>8. QED
  BY <1>5, <1>6, <1>7 DEF LimiterInv

THEOREM StepPreserves == LimiterInv /\ [LimiterNext]_limiterVars => LimiterInv'
<1>1. SUFFICES ASSUME LimiterInv, [LimiterNext]_limiterVars PROVE LimiterInv'
  OBVIOUS
<1>2. CASE UNCHANGED limiterVars
  BY <1>1, <1>2
  DEF LimiterInv, LimiterTypeOK, LimitHolds, WindowIsLastGiven, ReadingsArePast, limiterVars
<1>3. CASE Tick
  <2>1. clock' \in 0 .. MaxClock /\ clock' > clock /\ clock \in Nat
    BY <1>1, <1>3, LimiterAssumption DEF Tick, LimiterInv, LimiterTypeOK
  <2>2. LimiterTypeOK' /\ LimitHolds'
    BY <1>1, <1>3, <2>1 DEF Tick, LimiterInv, LimiterTypeOK, LimitHolds
  <2>3. ReadingsArePast'
    BY <1>1, <1>3, <2>1, ReadingOf DEF Tick, LimiterInv, LimiterTypeOK, ReadingsArePast
  <2>4. \A c \in Clients : WindowIsLastGiven(c)'
    BY <1>1, <1>3, <2>1 DEF Tick, LimiterInv, LimiterTypeOK, WindowIsLastGiven
  <2>5. QED
    BY <2>2, <2>3, <2>4 DEF LimiterInv
<1>4. ASSUME NEW t \in Threads, NEW c \in Clients, ReadClock(t, c) PROVE LimiterInv'
  <2>1. LimiterTypeOK' /\ LimitHolds'
    BY <1>1, <1>4, LimiterAssumption DEF ReadClock, LimiterInv, LimiterTypeOK, LimitHolds
  <2>2. ReadingsArePast'
    BY <1>1, <1>4 DEF ReadClock, LimiterInv, LimiterTypeOK, ReadingsArePast
  <2>3. \A d \in Clients : WindowIsLastGiven(d)'
    BY <1>1, <1>4 DEF ReadClock, LimiterInv, WindowIsLastGiven
  <2>4. QED
    BY <2>1, <2>2, <2>3 DEF LimiterInv
<1>5. QED
  BY <1>1, <1>2, <1>3, <1>4, AllowStep, DenyStep DEF LimiterNext

\* The inductive invariant holds of every behaviour.
THEOREM InvariantHolds == LimiterSpec => []LimiterInv
BY InitEstablishes, StepPreserves, PTL DEF LimiterSpec

\* Every variable keeps its type; no window is ever over the limit or empty.
THEOREM TypesHold == LimiterSpec => []LimiterTypeOK
<1>1. LimiterInv => LimiterTypeOK
  BY DEF LimiterInv
<1>2. QED
  BY <1>1, InvariantHolds, PTL

\* No client is granted more than the limit in a window, whatever checks overlap
\* and whatever is evicted meanwhile.
THEOREM NeverOverLimit == LimiterSpec => []LimitHolds
<1>1. LimiterInv => LimitHolds
  BY DEF LimiterInv
<1>2. QED
  BY <1>1, InvariantHolds, PTL

-----------------------------------------------------------------------------
\* Only the check of t ends in a step in which the check of t ends.
LEMMA OneCheckEnds ==
    ASSUME LimiterInv, NEW t \in Threads, [LimiterNext]_limiterVars, Ends(t)
    PROVE  Allow(t) \/ Deny(t)
<1>1. LimiterNext
  BY DEF Ends, limiterVars
<1>2. ASSUME NEW u \in Threads, reading' = [reading EXCEPT ![u] = NoReading] PROVE u = t
  BY <1>2 DEF Ends, LimiterInv, LimiterTypeOK
<1>3. ASSUME NEW u \in Threads, Allow(u) \/ Deny(u) PROVE u = t
  BY <1>2, <1>3 DEF Allow, Deny, Return
<1>4. ASSUME NEW u \in Threads, NEW c \in Clients, ReadClock(u, c) PROVE FALSE
  BY <1>4, LimiterAssumption DEF ReadClock, Ends, LimiterInv, LimiterTypeOK
<1>5. ~Tick
  BY DEF Tick, Ends
<1>6. QED
  BY <1>1, <1>3, <1>4, <1>5 DEF LimiterNext

\* A 429 is told only for a window its client has used up, and that has not
\* ended at the check's reading.
THEOREM DenialsHaveCause == LimiterSpec => DeniedForCause
<1>1. ASSUME LimiterInv, [LimiterNext]_limiterVars, NEW t \in Threads, Denied(t)
      PROVE  granted[client[t]] = Limit /\ reading[t] < ends[client[t]]
  <2>1. Deny(t)
    <3>1. Ends(t) /\ answer'.code = 429
      BY <1>1 DEF Denied
    <3>2. ~Allow(t)
      BY <3>1 DEF Allow, Return, Unauthorized
    <3>3. QED
      BY <1>1, <3>1, <3>2, OneCheckEnds
  <2>2. /\ reading[t] \in Nat /\ client[t] \in Clients
        /\ ~HasRoom(Current(client[t], reading[t]))
    BY <1>1, <2>1, ReadingOf DEF Deny
  <2>3. /\ windows[client[t]].count = Limit /\ windows[client[t]] # NoWindow
        /\ reading[t] < windows[client[t]].reset
    BY <1>1, <2>2, NoRoomInForce, InForceIsHeld DEF LimiterInv
  <2>4. QED
    BY <1>1, <2>2, <2>3 DEF LimiterInv, WindowIsLastGiven
<1>2. LimiterInv /\ [LimiterNext]_limiterVars
        => [\A t \in Threads : Denied(t) =>
               granted[client[t]] = Limit /\ reading[t] < ends[client[t]]]_limiterVars
  BY <1>1
<1>3. QED
  BY <1>2, InvariantHolds, PTL DEF LimiterSpec, DeniedForCause

\* The windows a check of c at reading n leaves: those kept, and its own.
LEMMA HeldAfter ==
    ASSUME LimiterInv, NEW c \in Clients, NEW n \in Nat,
           NEW w \in [count : 1 .. Limit, reset : Nat], n < w.reset, Put(c, n, w)
    PROVE  \/ Cardinality(Held') <= EvictAt
           \/ \A d \in Held' : n < windows'[d].reset
<1>1. Kept(n) \subseteq Held /\ Held \subseteq Clients
  BY DEF Kept, Held
<1>2. Held' \subseteq Kept(n) \cup {c}
  BY DEF Held, Put
<1>3. windows'[c] = w /\ \A d \in Kept(n) \ {c} : windows'[d] = windows[d]
  BY <1>1 DEF Put
<1>4. CASE Cardinality(Held) < EvictAt
  <2>1. IsFiniteSet(Held) /\ Cardinality(Held) \in Nat
    BY <1>1, LimiterAssumption, FS_Subset, FS_CardinalityType
  <2>2. IsFiniteSet(Held \cup {c}) /\ Cardinality(Held \cup {c}) <= Cardinality(Held) + 1
        /\ Cardinality(Held \cup {c}) \in Nat
    <3>1. IsFiniteSet(Held \cup {c})
      BY <2>1, FS_AddElement
    <3>2. Cardinality(Held \cup {c}) = IF c \in Held THEN Cardinality(Held) ELSE Cardinality(Held) + 1
      BY <2>1, FS_AddElement
    <3>3. QED
      BY <2>1, <3>1, <3>2
  <2>3. Held' \subseteq Held \cup {c}
    BY <1>1, <1>2
  <2>4. Cardinality(Held') <= Cardinality(Held \cup {c}) /\ Cardinality(Held') \in Nat
    BY <2>2, <2>3, FS_Subset, FS_CardinalityType
  <2>5. QED
    BY <1>4, <2>1, <2>2, <2>4, LimiterAssumption
<1>5. CASE ~(Cardinality(Held) < EvictAt)
  <2>1. \A d \in Kept(n) : n < windows[d].reset
    BY <1>5 DEF Kept
  <2>2. QED
    BY <1>2, <1>3, <2>1
<1>6. QED
  BY <1>4, <1>5

\* From the threshold on, a check leaves more windows than that only if all of
\* them are in force.
THEOREM MemoryIsBounded == LimiterSpec => OnlyLiveWindowsPileUp
<1> DEFINE Bounded(t) == \/ Cardinality(Held') <= EvictAt
                         \/ \A c \in Held' : reading[t] < windows'[c].reset
<1>1. ASSUME LimiterInv, [LimiterNext]_limiterVars, NEW t \in Threads, Ends(t)
      PROVE  Bounded(t)
  <2> DEFINE c == client[t]
             n == reading[t]
             w == Current(c, n)
  <2>1. n \in Nat /\ n <= clock /\ c \in Clients
    BY <1>1, ReadingOf DEF Ends
  <2>2. w \in [count : 0 .. Limit, reset : Nat] /\ n < w.reset
    BY <1>1, <2>1, CurrentType DEF LimiterInv
  <2>3. CASE Allow(t)
    <3> DEFINE wn == [w EXCEPT !.count = @ + 1]
    <3>1. Put(c, n, wn) /\ w.count < Limit
      BY <2>3 DEF Allow, HasRoom
    <3>2. wn \in [count : 1 .. Limit, reset : Nat] /\ wn.reset = w.reset
      BY <2>2, <3>1, SettingsArePositive
    <3>3. QED
      BY <1>1, <2>1, <2>2, <3>1, <3>2, HeldAfter
  <2>4. CASE Deny(t)
    <3>1. Put(c, n, w) /\ ~HasRoom(w)
      BY <2>4 DEF Deny
    <3>2. w \in [count : 1 .. Limit, reset : Nat]
      BY <1>1, <2>1, <3>1, NoRoomInForce, InForceIsHeld, WindowFields DEF LimiterInv
    <3>3. QED
      BY <1>1, <2>1, <2>2, <3>1, <3>2, HeldAfter
  <2>5. QED
    BY <1>1, <2>3, <2>4, OneCheckEnds
<1>2. LimiterInv /\ [LimiterNext]_limiterVars
        => [\A t \in Threads : Ends(t) => Bounded(t)]_limiterVars
  BY <1>1
<1>3. QED
  BY <1>2, InvariantHolds, PTL DEF LimiterSpec, OnlyLiveWindowsPileUp

-----------------------------------------------------------------------------
LEMMA DivMod ==
    ASSUME NEW n \in Nat
    PROVE  /\ n = Second * (n \div Second) + (n % Second)
           /\ n \div Second \in Nat /\ n % Second \in Nat /\ n % Second < Second
BY LimiterAssumption

\* round() is off by half a second at most, in either direction.
LEMMA RoundedIsNear ==
    ASSUME NEW n \in Nat
    PROVE  /\ 2 * (n - Rounded(n) * Second) <= Second
           /\ 2 * (Rounded(n) * Second - n) <= Second
<1>1. \A q, r \in Nat : n = Second * q + r /\ r < Second /\ 2 * r <= Second
        => 2 * (n - q * Second) <= Second /\ 2 * (q * Second - n) <= Second
  BY LimiterAssumption
<1>2. \A q, r \in Nat : n = Second * q + r /\ r < Second /\ 2 * r >= Second
        => 2 * (n - (q + 1) * Second) <= Second /\ 2 * ((q + 1) * Second - n) <= Second
  BY LimiterAssumption
<1>3. CASE 2 * (n % Second) < Second
  <2>1. Rounded(n) = n \div Second
    BY <1>3 DEF Rounded
  <2>2. QED
    BY <1>1, <1>3, <2>1, DivMod, LimiterAssumption
<1>4. CASE 2 * (n % Second) > Second
  <2>1. Rounded(n) = n \div Second + 1
    BY <1>4, DivMod, LimiterAssumption DEF Rounded
  <2>2. QED
    BY <1>2, <1>4, <2>1, DivMod, LimiterAssumption
<1>5. CASE 2 * (n % Second) = Second
  <2>1. 2 * (n % Second) <= Second /\ 2 * (n % Second) >= Second
    BY <1>5, LimiterAssumption
  <2>2. CASE Rounded(n) = n \div Second
    BY <1>1, <2>1, <2>2, DivMod
  <2>3. CASE Rounded(n) = n \div Second + 1
    BY <1>2, <2>1, <2>3, DivMod
  <2>4. QED
    BY <2>2, <2>3 DEF Rounded
<1>6. QED
  BY <1>3, <1>4, <1>5, DivMod, LimiterAssumption

\* Retry-After is the time left, rounded to a second, and at least one.
THEOREM RetryAfterHolds == LimiterSpec => RetryAfterIsClose
<1> DEFINE left(t) == ends[client[t]] - reading[t]
           told == answer'.retry
           Close(t) == /\ told >= 1
                       /\ 2 * (left(t) - told * Second) <= Second
                       /\ told = 1 \/ 2 * (told * Second - left(t)) <= Second
<1>1. ASSUME LimiterInv, [LimiterNext]_limiterVars, NEW t \in Threads, Denied(t)
      PROVE  Close(t)
  <2> DEFINE c == client[t]
             n == reading[t]
             w == Current(c, n)
  <2>1. Deny(t)
    <3>1. Ends(t) /\ answer'.code = 429
      BY <1>1 DEF Denied
    <3>2. ~Allow(t)
      BY <3>1 DEF Allow, Return, Unauthorized
    <3>3. QED
      BY <1>1, <3>1, <3>2, OneCheckEnds
  <2>2. n \in Nat /\ c \in Clients /\ ~HasRoom(w)
    BY <1>1, <2>1, ReadingOf DEF Deny
  <2>3. w = windows[c] /\ windows[c] # NoWindow /\ n < w.reset /\ w.reset \in Nat
    BY <1>1, <2>2, NoRoomInForce, InForceIsHeld, WindowFields DEF LimiterInv
  <2>4. left(t) = w.reset - n /\ left(t) \in Nat /\ left(t) > 0
    BY <1>1, <2>2, <2>3 DEF LimiterInv, WindowIsLastGiven
  <2>5. told = AtLeastOne(Rounded(left(t)))
    BY <2>1, <2>4 DEF Deny, Return, Limited
  <2>6. /\ Rounded(left(t)) \in Nat
        /\ 2 * (left(t) - Rounded(left(t)) * Second) <= Second
        /\ 2 * (Rounded(left(t)) * Second - left(t)) <= Second
    BY <2>4, RoundedType, RoundedIsNear
  <2>7. CASE Rounded(left(t)) < 1
    <3>1. told = 1 /\ Rounded(left(t)) = 0
      BY <2>5, <2>6, <1>1, <2>7 DEF AtLeastOne
    <3>2. 2 * left(t) <= Second
      BY <2>4, <2>6, <3>1, LimiterAssumption
    <3>3. QED
      BY <2>4, <3>1, <3>2, LimiterAssumption
  <2>8. CASE ~(Rounded(left(t)) < 1)
    BY <2>5, <2>6, <2>8 DEF AtLeastOne
  <2>9. QED
    BY <2>7, <2>8
<1>2. LimiterInv /\ [LimiterNext]_limiterVars
        => [\A t \in Threads : Denied(t) => Close(t)]_limiterVars
  BY <1>1
<1>3. QED
  BY <1>2, InvariantHolds, PTL DEF LimiterSpec, RetryAfterIsClose
=============================================================================
