--------------------------- MODULE Encoding_proofs ---------------------------
(***************************************************************************)
(* Proofs about Encoding, for every set of texts and every limit.  The     *)
(* functions on texts are recursive; that they are what their equations    *)
(* say, and every fact about all texts, comes from one principle: a        *)
(* nonempty set of sequences has a shortest one.                           *)
(***************************************************************************)
EXTENDS Encoding, TLAPS, SequenceTheorems, WellFoundedInduction

-----------------------------------------------------------------------------
(* Recursion and induction on the length of a sequence.                    *)

LEMMA LeastNumber ==
    ASSUME NEW S, S \subseteq Nat, S # {}
    PROVE  \E b \in S : \A c \in S : b <= c
<1>1. PICK b \in S : \A c \in S : ~ (<<c, b>> \in OpToRel(<, Nat))
  BY NatLessThanWellFounded, WFMin
<1>2. \A c \in Nat : c < b => <<c, b>> \in OpToRel(<, Nat)
  BY DEF OpToRel
<1>3. ASSUME NEW c \in S PROVE b <= c
  <2>1. ~ (<<c, b>> \in OpToRel(<, Nat))
    BY <1>1
  <2> HIDE DEF OpToRel
  <2>2. c \in Nat /\ b \in Nat
    OBVIOUS
  <2>3. ~ (c < b)
    BY <1>2, <2>1, <2>2, Zenon
  <2>4. QED
    BY <2>2, <2>3
<1>4. QED
  BY <1>3

LEMMA Shortest ==
    ASSUME NEW S, NEW B, B \subseteq Seq(S), B # {}
    PROVE  \E t \in B : \A u \in B : Len(t) <= Len(u)
<1> DEFINE lens == {Len(t) : t \in B}
<1>1. lens \subseteq Nat /\ lens # {}
  BY LenProperties
<1>2. PICK n \in lens : \A m \in lens : n <= m
  BY <1>1, LeastNumber
<1>3. QED
  BY <1>2

\* A step computes the value at a sequence from the values at shorter ones.
IsStep(S, T, step) ==
    /\ step \in [Seq(S) \X [Seq(S) -> T] -> T]
    /\ \A t \in Seq(S) : \A f, g \in [Seq(S) -> T] :
          (\A u \in Seq(S) : Len(u) < Len(t) => f[u] = g[u])
          => step[<<t, f>>] = step[<<t, g>>]

Solves(S, T, step, h) ==
    /\ h \in [Seq(S) -> T]
    /\ \A t \in Seq(S) : h[t] = step[<<t, h>>]

\* A function on sequences may be defined by what it is on shorter ones.
LEMMA RecursionOnLength ==
    ASSUME NEW S, NEW T, T # {}, NEW step, IsStep(S, T, step)
    PROVE  \E h : Solves(S, T, step, h)
<1> USE DEF IsStep
<1> DEFINE Fun == [Seq(S) -> T]
           UpTo(n) == {g \in Fun : \A t \in Seq(S) : Len(t) < n => g[t] = step[<<t, g>>]}
           bad == {n \in Nat : UpTo(n) = {}}
<1>0. \A t \in Seq(S) : Len(t) \in Nat
  BY LenProperties
<1>1. \A n \in Nat : UpTo(n) # {}
  <2>1. SUFFICES ASSUME bad # {} PROVE FALSE
    OBVIOUS
  <2>2. PICK m \in bad : \A n \in bad : m <= n
    <3> HIDE DEF UpTo
    <3>1. bad \subseteq Nat
      OBVIOUS
    <3> HIDE DEF bad
    <3> QED
      BY <2>1, <3>1, LeastNumber
  <2>3. m # 0
    <3>1. PICK x \in T : TRUE
      OBVIOUS
    <3>2. [t \in Seq(S) |-> x] \in UpTo(0)
      BY <1>0
    <3> QED
      BY <2>2, <3>2
  <2>4. m \in Nat /\ m - 1 \in Nat /\ UpTo(m - 1) # {}
    <3> HIDE DEF UpTo
    <3> QED
      BY <2>2, <2>3
  <2>5. PICK g : g \in UpTo(m - 1)
    BY <2>4
  <2> DEFINE h == [t \in Seq(S) |-> step[<<t, g>>]]
  <2>6. h \in Fun
    BY <2>5
  <2>7. ASSUME NEW t \in Seq(S), Len(t) < m PROVE h[t] = step[<<t, h>>]
    <3>1. \A u \in Seq(S) : Len(u) < m - 1 => g[u] = step[<<u, g>>]
      BY <2>5
    <3>2. \A u \in Seq(S) : Len(u) < Len(t) => Len(u) < m - 1
      BY <2>4, <2>7, <1>0
    <3>3. \A u \in Seq(S) : Len(u) < Len(t) => h[u] = g[u]
      BY <3>1, <3>2
    <3> HIDE DEF h
    <3>4. step[<<t, h>>] = step[<<t, g>>]
      BY <3>3, <2>5, <2>6
    <3> QED
      BY <3>4 DEF h
  <2>8. h \in UpTo(m)
    BY <2>6, <2>7
  <2> QED
    BY <2>2, <2>8
<1>2. ASSUME NEW n \in Nat, NEW m \in Nat, NEW f \in UpTo(n), NEW g \in UpTo(m),
             NEW t \in Seq(S), Len(t) < n, Len(t) < m
      PROVE  f[t] = g[t]
  <2> DEFINE B == {u \in Seq(S) : Len(u) < n /\ Len(u) < m /\ f[u] # g[u]}
  <2>1. SUFFICES ASSUME B # {} PROVE FALSE
    BY <1>2
  <2>2. B \subseteq Seq(S)
    OBVIOUS
  <2>3. PICK u \in B : \A v \in B : Len(u) <= Len(v)
    <3> HIDE DEF B
    <3> QED
      BY <2>1, <2>2, Shortest
  <2>4. \A v \in Seq(S) : Len(v) < Len(u) => f[v] = g[v]
    <3>1. SUFFICES ASSUME NEW v \in Seq(S), Len(v) < Len(u) PROVE ~ (f[v] # g[v])
      OBVIOUS
    <3>2. ~ (v \in B)
      BY <2>3, <3>1, <1>0
    <3> QED
      BY <3>1, <3>2, <2>3, <1>0
  <2>5. step[<<u, f>>] = step[<<u, g>>]
    BY <2>3, <2>4
  <2> QED
    BY <2>3, <2>5
<1> DEFINE best(t) == CHOOSE g : g \in UpTo(Len(t) + 1)
           h == [t \in Seq(S) |-> best(t)[t]]
<1>3. \A t \in Seq(S) : best(t) \in UpTo(Len(t) + 1)
  <2> HIDE DEF UpTo
  <2>1. \A t \in Seq(S) : Len(t) + 1 \in Nat
    BY <1>0
  <2>2. \A t \in Seq(S) : \E g : g \in UpTo(Len(t) + 1)
    BY <1>1, <2>1
  <2> QED
    BY <2>2
<1>4. h \in Fun
  <2>1. \A t \in Seq(S) : best(t) \in Fun
    BY <1>3
  <2> HIDE DEF best
  <2> QED
    BY <2>1
<1>5. ASSUME NEW t \in Seq(S) PROVE h[t] = step[<<t, h>>]
  <2> DEFINE g == best(t)
  <2>1. g \in Fun /\ g[t] = step[<<t, g>>]
    <3>1. Len(t) < Len(t) + 1
      BY <1>0
    <3>2. g \in UpTo(Len(t) + 1)
      BY <1>3
    <3> HIDE DEF g
    <3> QED
      BY <3>1, <3>2
  <2>2. ASSUME NEW u \in Seq(S), Len(u) < Len(t) PROVE h[u] = g[u]
    <3>1. best(u) \in UpTo(Len(u) + 1) /\ g \in UpTo(Len(t) + 1)
      BY <1>3
    <3>2. /\ Len(u) + 1 \in Nat /\ Len(t) + 1 \in Nat
          /\ Len(u) < Len(u) + 1 /\ Len(u) < Len(t) + 1
      BY <1>0, <2>2
    <3>3. best(u)[u] = g[u]
      <4> HIDE DEF best, UpTo, g
      <4> QED
        BY <1>2, <3>1, <3>2
    <3> QED
      BY <3>3
  <2> HIDE DEF best, UpTo
  <2>3. h[t] = g[t]
    OBVIOUS
  <2> HIDE DEF h, g
  <2>4. step[<<t, h>>] = step[<<t, g>>]
    BY <1>4, <2>1, <2>2
  <2> QED
    BY <2>1, <2>3, <2>4
<1>6. Solves(S, T, step, h)
  BY <1>4, <1>5 DEF Solves
<1> HIDE DEF h
<1> QED
  BY <1>6

\* A nonempty sequence is its head before its tail, and the tail is shorter.
LEMMA HeadAndTail ==
    ASSUME NEW S, NEW t \in Seq(S), t # <<>>
    PROVE  /\ Len(t) \in Nat \ {0} /\ Head(t) = t[1] /\ Head(t) \in S
           /\ Tail(t) \in Seq(S) /\ Len(Tail(t)) = Len(t) - 1 /\ Len(Tail(t)) < Len(t)
           /\ t = <<Head(t)>> \o Tail(t)
           /\ \A k \in 1 .. Len(t) - 1 : Tail(t)[k] = t[k + 1]
<1>1. Len(t) \in Nat \ {0} /\ Head(t) = t[1] /\ Head(t) \in S
  BY EmptySeq, LenProperties
<1>2. /\ Tail(t) \in Seq(S) /\ Len(Tail(t)) = Len(t) - 1
      /\ \A k \in 1 .. Len(t) - 1 : Tail(t)[k] = t[k + 1]
  BY HeadTailProperties
<1>3. t = <<Head(t)>> \o Tail(t)
  <2>1. <<Head(t)>> \in Seq(S) /\ Len(<<Head(t)>>) = 1 /\ <<Head(t)>>[1] = t[1]
    BY <1>1
  <2> DEFINE u == <<Head(t)>> \o Tail(t)
  <2>2. /\ u \in Seq(S) /\ Len(u) = Len(t)
        /\ \A k \in 1 .. Len(t) : u[k] = IF k <= 1 THEN <<Head(t)>>[k] ELSE Tail(t)[k - 1]
    BY <1>1, <1>2, <2>1, ConcatProperties
  <2>3. \A k \in 1 .. Len(t) : u[k] = t[k]
    BY <1>1, <1>2, <2>1, <2>2
  <2> HIDE DEF u
  <2> QED
    BY <2>2, <2>3, SeqEqual
<1> QED
  BY <1>1, <1>2, <1>3

\* A symbol before a sequence.
LEMMA Cons ==
    ASSUME NEW S, NEW x \in S, NEW r \in Seq(S)
    PROVE  /\ <<x>> \o r \in Seq(S) /\ <<x>> \o r # <<>>
           /\ Head(<<x>> \o r) = x /\ Tail(<<x>> \o r) = r
           /\ Len(<<x>> \o r) = Len(r) + 1 /\ (<<x>> \o r)[1] = x
           /\ \A k \in 1 .. Len(r) : (<<x>> \o r)[k + 1] = r[k]
<1> DEFINE t == <<x>> \o r
<1>1. <<x>> \in Seq(S) /\ Len(<<x>>) = 1 /\ <<x>>[1] = x /\ Len(r) \in Nat
  BY LenProperties
<1>2. /\ t \in Seq(S) /\ Len(t) = Len(r) + 1
      /\ \A k \in 1 .. Len(r) + 1 : t[k] = IF k <= 1 THEN <<x>>[k] ELSE r[k - 1]
  BY <1>1, ConcatProperties
<1>3. t[1] = x /\ \A k \in 1 .. Len(r) : t[k + 1] = r[k]
  BY <1>1, <1>2
<1> HIDE DEF t
<1>4. t # <<>>
  BY <1>1, <1>2, EmptySeq
<1>5. /\ Head(t) = t[1] /\ Tail(t) \in Seq(S) /\ Len(Tail(t)) = Len(t) - 1
      /\ \A k \in 1 .. Len(t) - 1 : Tail(t)[k] = t[k + 1]
  BY <1>2, <1>4, HeadAndTail
<1>6. Tail(t) = r
  <2>1. Len(Tail(t)) = Len(r) /\ \A k \in 1 .. Len(Tail(t)) : Tail(t)[k] = r[k]
    BY <1>1, <1>2, <1>3, <1>5
  <2> QED
    BY <1>5, <2>1, SeqEqual
<1> QED
  BY <1>1, <1>2, <1>3, <1>4, <1>5, <1>6 DEF t

\* What holds of a sequence whenever it holds of all shorter ones holds of all.
LEMMA LengthInduction ==
    ASSUME NEW S, NEW G,
           \A t \in Seq(S) : (\A u \in Seq(S) : Len(u) < Len(t) => u \in G) => t \in G
    PROVE  Seq(S) \subseteq G
<1> DEFINE B == Seq(S) \ G
<1>1. SUFFICES ASSUME B # {} PROVE FALSE
  OBVIOUS
<1>2. PICK t \in B : \A u \in B : Len(t) <= Len(u)
  <2>1. B \subseteq Seq(S)
    OBVIOUS
  <2> HIDE DEF B
  <2> QED
    BY <1>1, <2>1, Shortest
<1>3. \A u \in Seq(S) : Len(u) \in Nat
  BY LenProperties
<1>4. \A u \in Seq(S) : Len(u) < Len(t) => u \in G
  BY <1>2, <1>3
<1> QED
  BY <1>2, <1>4

LEMMA TailInduction ==
    ASSUME NEW S, NEW G, <<>> \in G,
           \A t \in Seq(S) : t # <<>> /\ Tail(t) \in G => t \in G
    PROVE  Seq(S) \subseteq G
<1>1. ASSUME NEW t \in Seq(S), \A u \in Seq(S) : Len(u) < Len(t) => u \in G
      PROVE  t \in G
  <2>1. t # <<>> => Tail(t) \in Seq(S) /\ Len(Tail(t)) < Len(t)
    BY HeadAndTail
  <2> QED
    BY <1>1, <2>1
<1> QED
  BY <1>1, LengthInduction

-----------------------------------------------------------------------------
(* The three functions obey their equations.                               *)

LEMMA WidthType ==
    ASSUME NEW s \in Symbols
    PROVE  Width(s) \in Nat \ {0}
BY DEF Width

LEMMA LengthEquation ==
    /\ Length \in [Seq(Symbols) -> Nat]
    /\ Length[<<>>] = 0
    /\ \A t \in Seq(Symbols) : t # <<>> => Length[t] = Width(Head(t)) + Length[Tail(t)]
<1> DEFINE D == Seq(Symbols)
           V == Nat
           body(f, t) == IF t = <<>> THEN 0 ELSE Width(Head(t)) + f[Tail(t)]
           step == [p \in D \X [D -> V] |-> body(p[2], p[1])]
<1>1. \A t \in D, f \in [D -> V] : body(f, t) \in V
  <2> SUFFICES ASSUME NEW t \in D, NEW f \in [D -> V], t # <<>>
               PROVE  Width(Head(t)) + f[Tail(t)] \in V
    OBVIOUS
  <2>1. Head(t) \in Symbols /\ Tail(t) \in D
    BY HeadAndTail
  <2>2. Width(Head(t)) \in Nat /\ f[Tail(t)] \in Nat
    BY <2>1, WidthType
  <2> QED
    BY <2>2
<1>2. step \in [D \X [D -> V] -> V]
  BY <1>1
<1>3. \A t \in D : \A f, g \in [D -> V] :
          (\A u \in D : Len(u) < Len(t) => f[u] = g[u]) => step[<<t, f>>] = step[<<t, g>>]
  <2> SUFFICES ASSUME NEW t \in D, NEW f \in [D -> V], NEW g \in [D -> V],
                      \A u \in D : Len(u) < Len(t) => f[u] = g[u]
               PROVE  body(f, t) = body(g, t)
    OBVIOUS
  <2>1. t # <<>> => f[Tail(t)] = g[Tail(t)]
    BY HeadAndTail
  <2> QED
    BY <2>1
<1>4. IsStep(Symbols, V, step)
  <2> HIDE DEF step
  <2> QED
    BY <1>2, <1>3 DEF IsStep
<1>5. \E h : h = [t \in D |-> body(h, t)]
  <2>1. PICK h : Solves(Symbols, V, step, h)
    <3>1. V # {}
      OBVIOUS
    <3> HIDE DEF step, V
    <3> QED
      BY <1>4, <3>1, RecursionOnLength
  <2>2. h \in [D -> V] /\ \A t \in D : h[t] = step[<<t, h>>]
    BY <2>1 DEF Solves
  <2>3. \A t \in D : h[t] = body(h, t)
    BY <2>2
  <2> HIDE DEF body
  <2> QED
    BY <2>2, <2>3
<1>6. Length = [t \in D |-> body(Length, t)]
  BY <1>5 DEF Length
<1>7. \A t \in D : Length[t] = body(Length, t)
  BY <1>6, Zenon
<1>8. \A t \in D : Length[t] \in Nat
  <2> DEFINE G == {t \in D : Length[t] \in Nat}
  <2>1. <<>> \in G
    <3>1. <<>> \in D
      BY EmptySeq
    <3>2. Length[<<>>] = 0
      BY <1>7, <3>1, Zenon
    <3> QED
      BY <3>1, <3>2
  <2>2. ASSUME NEW t \in D, t # <<>>, Tail(t) \in G PROVE t \in G
    <3>1. Length[t] = Width(Head(t)) + Length[Tail(t)]
      BY <1>7, <2>2
    <3>2. Width(Head(t)) \in Nat
      BY <2>2, HeadAndTail, WidthType
    <3> QED
      BY <2>2, <3>1, <3>2
  <2> HIDE DEF G
  <2>3. D \subseteq G
    BY <2>1, <2>2, TailInduction
  <2> QED
    BY <2>3 DEF G
<1>9. <<>> \in D
  BY EmptySeq
<1> QED
  BY <1>6, <1>7, <1>8, <1>9

LEMMA EscapeType ==
    ASSUME NEW s \in Symbols
    PROVE  Escape(s) \in Seq(Plain) /\ Escape(s) # <<>>
<1>1. CASE s = "emoji"
  <2>1. Escape(s) = <<"[", "U+", "c1F600", "]">>
    BY <1>1 DEF Escape, Token
  <2>2. {"[", "U+", "c1F600", "]"} \subseteq Plain
    BY DEF Plain, Digits, Decodable
  <2> QED
    BY <2>1, <2>2
<1>2. CASE s # "emoji"
  <2>1. Escape(s) = <<s>> /\ s \in Plain
    BY <1>2 DEF Escape, Symbols
  <2> QED
    BY <2>1
<1> QED
  BY <1>1, <1>2

LEMMA EncodeEquation ==
    /\ Encode \in [Seq(Symbols) -> Seq(Plain)]
    /\ Encode[<<>>] = <<>>
    /\ \A t \in Seq(Symbols) : t # <<>> => Encode[t] = Escape(Head(t)) \o Encode[Tail(t)]
<1> DEFINE D == Seq(Symbols)
           V == Seq(Plain)
           body(f, t) == IF t = <<>> THEN <<>> ELSE Escape(Head(t)) \o f[Tail(t)]
           step == [p \in D \X [D -> V] |-> body(p[2], p[1])]
<1>0. <<>> \in D /\ <<>> \in V
  BY EmptySeq
<1>1. \A t \in D, f \in [D -> V] : body(f, t) \in V
  <2> SUFFICES ASSUME NEW t \in D, NEW f \in [D -> V], t # <<>>
               PROVE  Escape(Head(t)) \o f[Tail(t)] \in V
    BY <1>0
  <2>1. Head(t) \in Symbols /\ Tail(t) \in D
    BY HeadAndTail
  <2>2. Escape(Head(t)) \in V /\ f[Tail(t)] \in V
    BY <2>1, EscapeType
  <2> QED
    BY <2>2, ConcatProperties
<1>2. step \in [D \X [D -> V] -> V]
  BY <1>1
<1>3. \A t \in D : \A f, g \in [D -> V] :
          (\A u \in D : Len(u) < Len(t) => f[u] = g[u]) => step[<<t, f>>] = step[<<t, g>>]
  <2> SUFFICES ASSUME NEW t \in D, NEW f \in [D -> V], NEW g \in [D -> V],
                      \A u \in D : Len(u) < Len(t) => f[u] = g[u]
               PROVE  body(f, t) = body(g, t)
    OBVIOUS
  <2>1. t # <<>> => f[Tail(t)] = g[Tail(t)]
    BY HeadAndTail
  <2> QED
    BY <2>1
<1>4. IsStep(Symbols, V, step)
  <2> HIDE DEF step
  <2> QED
    BY <1>2, <1>3 DEF IsStep
<1>5. \E h : h = [t \in D |-> body(h, t)]
  <2>1. PICK h : Solves(Symbols, V, step, h)
    <3>1. V # {}
      BY <1>0
    <3> HIDE DEF step, V
    <3> QED
      BY <1>4, <3>1, RecursionOnLength
  <2>2. h \in [D -> V] /\ \A t \in D : h[t] = step[<<t, h>>]
    BY <2>1 DEF Solves
  <2>3. \A t \in D : h[t] = body(h, t)
    BY <2>2
  <2> HIDE DEF body
  <2> QED
    BY <2>2, <2>3
<1>6. Encode = [t \in D |-> body(Encode, t)]
  BY <1>5 DEF Encode
<1>7. \A t \in D : Encode[t] = body(Encode, t)
  BY <1>6, Zenon
<1>8. Encode[<<>>] = <<>>
  BY <1>0, <1>7, Zenon
<1>9. \A t \in D : Encode[t] \in V
  <2> DEFINE G == {t \in D : Encode[t] \in V}
  <2>1. <<>> \in G
    BY <1>0, <1>8
  <2>2. ASSUME NEW t \in D, t # <<>>, Tail(t) \in G PROVE t \in G
    <3>1. Encode[t] = Escape(Head(t)) \o Encode[Tail(t)]
      BY <1>7, <2>2
    <3>2. Escape(Head(t)) \in V
      BY <2>2, HeadAndTail, EscapeType
    <3> QED
      BY <2>2, <3>1, <3>2, ConcatProperties
  <2> HIDE DEF G
  <2>3. D \subseteq G
    BY <2>1, <2>2, TailInduction
  <2> QED
    BY <2>3 DEF G
<1> QED
  BY <1>6, <1>7, <1>8, <1>9

\* What is behind the first four symbols.
LEMMA AfterFour ==
    ASSUME NEW S, NEW t \in Seq(S), 4 <= Len(t)
    PROVE  /\ SubSeq(t, 5, Len(t)) \in Seq(S)
           /\ Len(SubSeq(t, 5, Len(t))) = Len(t) - 4
           /\ Len(SubSeq(t, 5, Len(t))) < Len(t)
           /\ \A k \in 1 .. Len(t) - 4 : SubSeq(t, 5, Len(t))[k] = t[k + 4]
           /\ t = <<t[1], t[2], t[3], t[4]>> \o SubSeq(t, 5, Len(t))
<1> DEFINE n == Len(t)
           r == SubSeq(t, 5, n)
           a == <<t[1], t[2], t[3], t[4]>>
<1>1. n \in Nat /\ 4 <= n /\ \A k \in 1 .. n : t[k] \in S
  BY LenProperties, ElementOfSeq
<1>2. /\ r \in Seq(S) /\ Len(r) = IF 5 <= n THEN n - 5 + 1 ELSE 0
      /\ \A k \in 1 .. n - 5 + 1 : r[k] = t[5 + k - 1]
  BY <1>1, SubSeqProperties
<1>3. Len(r) = n - 4 /\ \A k \in 1 .. n - 4 : r[k] = t[k + 4]
  <2> HIDE DEF r, n
  <2>1. n - 5 + 1 = n - 4 /\ (5 <= n \/ n - 4 = 0)
    BY <1>1
  <2>2. \A k \in 1 .. n - 4 : k \in Nat /\ 5 + k - 1 = k + 4
    OBVIOUS
  <2> QED
    BY <1>2, <2>1, <2>2
<1>4. a \in Seq(S) /\ Len(a) = 4 /\ a[1] = t[1] /\ a[2] = t[2] /\ a[3] = t[3] /\ a[4] = t[4]
  BY <1>1
<1>5. t = a \o r
  <2>1. /\ a \o r \in Seq(S) /\ Len(a \o r) = n
        /\ \A k \in 1 .. n : (a \o r)[k] = IF k <= 4 THEN a[k] ELSE r[k - 4]
    <3> HIDE DEF a, r, n
    <3>1. Len(a) + Len(r) = n
      BY <1>1, <1>3, <1>4
    <3>2. /\ a \o r \in Seq(S) /\ Len(a \o r) = Len(a) + Len(r)
          /\ \A k \in 1 .. Len(a) + Len(r) :
                (a \o r)[k] = IF k <= Len(a) THEN a[k] ELSE r[k - Len(a)]
      BY <1>2, <1>4, ConcatProperties
    <3> QED
      BY <1>4, <3>1, <3>2
  <2>2. \A k \in 1 .. n : (a \o r)[k] = t[k]
    <3> SUFFICES ASSUME NEW k \in 1 .. n PROVE (a \o r)[k] = t[k]
      OBVIOUS
    <3>1. k <= 4 => k = 1 \/ k = 2 \/ k = 3 \/ k = 4
      BY <1>1
    <3> HIDE DEF a, r
    <3> QED
      BY <1>1, <1>3, <1>4, <2>1, <3>1
  <2> HIDE DEF a, r
  <2> QED
    BY <2>1, <2>2, SeqEqual
<1> QED
  BY <1>1, <1>2, <1>3, <1>5

LEMMA CharType ==
    ASSUME NEW c \in Decodable
    PROVE  Char(c) \in Symbols
BY DEF Char, Decodable, Symbols, Plain

LEMMA DecodeEquation ==
    /\ Decode \in [Seq(Plain) -> Seq(Symbols)]
    /\ Decode[<<>>] = <<>>
    /\ \A t \in Seq(Plain) : t # <<>> =>
          Decode[t] = IF Replaced(t, 1) THEN <<Char(t[3])>> \o Decode[SubSeq(t, 5, Len(t))]
                      ELSE <<Head(t)>> \o Decode[Tail(t)]
<1> DEFINE D == Seq(Plain)
           V == Seq(Symbols)
           rest(t) == SubSeq(t, 5, Len(t))
           body(f, t) ==
               IF t = <<>> THEN <<>>
               ELSE IF Replaced(t, 1) THEN <<Char(t[3])>> \o f[rest(t)]
               ELSE <<Head(t)>> \o f[Tail(t)]
           step == [p \in D \X [D -> V] |-> body(p[2], p[1])]
<1>0. <<>> \in D /\ <<>> \in V
  BY EmptySeq
<1>a. \A t \in D : Replaced(t, 1) =>
          rest(t) \in D /\ Len(rest(t)) < Len(t) /\ <<Char(t[3])>> \in V
  <2> SUFFICES ASSUME NEW t \in D, Replaced(t, 1)
               PROVE  rest(t) \in D /\ Len(rest(t)) < Len(t) /\ <<Char(t[3])>> \in V
    OBVIOUS
  <2>1. 4 <= Len(t) /\ t[3] \in Decodable
    BY DEF Replaced, TokenAt
  <2> QED
    BY <2>1, AfterFour, CharType
<1>b. \A t \in D : t # <<>> =>
          Tail(t) \in D /\ Len(Tail(t)) < Len(t) /\ <<Head(t)>> \in V
  <2> SUFFICES ASSUME NEW t \in D, t # <<>>
               PROVE  Tail(t) \in D /\ Len(Tail(t)) < Len(t) /\ <<Head(t)>> \in V
    OBVIOUS
  <2>1. Head(t) \in Symbols
    BY HeadAndTail DEF Symbols
  <2> QED
    BY <2>1, HeadAndTail
<1>1. \A t \in D, f \in [D -> V] : body(f, t) \in V
  <2> HIDE DEF rest
  <2> SUFFICES ASSUME NEW t \in D, NEW f \in [D -> V] PROVE body(f, t) \in V
    OBVIOUS
  <2>1. Replaced(t, 1) => <<Char(t[3])>> \o f[rest(t)] \in V
    BY <1>a, ConcatProperties
  <2>2. t # <<>> => <<Head(t)>> \o f[Tail(t)] \in V
    BY <1>b, ConcatProperties
  <2> QED
    BY <1>0, <2>1, <2>2
<1>2. step \in [D \X [D -> V] -> V]
  BY <1>1
<1>3. \A t \in D : \A f, g \in [D -> V] :
          (\A u \in D : Len(u) < Len(t) => f[u] = g[u]) => step[<<t, f>>] = step[<<t, g>>]
  <2> HIDE DEF rest
  <2> SUFFICES ASSUME NEW t \in D, NEW f \in [D -> V], NEW g \in [D -> V],
                      \A u \in D : Len(u) < Len(t) => f[u] = g[u]
               PROVE  body(f, t) = body(g, t)
    OBVIOUS
  <2>1. t # <<>> => f[Tail(t)] = g[Tail(t)]
    BY <1>b
  <2>2. Replaced(t, 1) => f[rest(t)] = g[rest(t)]
    BY <1>a
  <2> QED
    BY <2>1, <2>2
<1>4. IsStep(Plain, V, step)
  <2> HIDE DEF step
  <2> QED
    BY <1>2, <1>3 DEF IsStep
<1>5. \E h : h = [t \in D |-> body(h, t)]
  <2>1. PICK h : Solves(Plain, V, step, h)
    <3>1. V # {}
      BY <1>0
    <3> HIDE DEF step, V
    <3> QED
      BY <1>4, <3>1, RecursionOnLength
  <2>2. h \in [D -> V] /\ \A t \in D : h[t] = step[<<t, h>>]
    BY <2>1 DEF Solves
  <2>3. \A t \in D : h[t] = body(h, t)
    BY <2>2
  <2> HIDE DEF body
  <2> QED
    BY <2>2, <2>3
<1>6. Decode = [t \in D |-> body(Decode, t)]
  BY <1>5 DEF Decode
<1>7. \A t \in D : Decode[t] = body(Decode, t)
  BY <1>6, Zenon
<1>8. Decode[<<>>] = <<>>
  BY <1>0, <1>7, Zenon
<1>9. \A t \in D : Decode[t] \in V
  <2> DEFINE G == {t \in D : Decode[t] \in V}
  <2>1. ASSUME NEW t \in D, \A u \in D : Len(u) < Len(t) => u \in G
        PROVE  t \in G
    <3> HIDE DEF rest
    <3>1. t = <<>> => Decode[t] \in V
      BY <1>0, <1>8
    <3>2. Replaced(t, 1) /\ t # <<>> => Decode[t] \in V
      <4> SUFFICES ASSUME Replaced(t, 1), t # <<>> PROVE Decode[t] \in V
        OBVIOUS
      <4>1. Decode[rest(t)] \in V /\ <<Char(t[3])>> \in V
        BY <1>a, <2>1
      <4>2. Decode[t] = <<Char(t[3])>> \o Decode[rest(t)]
        BY <1>7
      <4> QED
        BY <4>1, <4>2, ConcatProperties
    <3>3. ~Replaced(t, 1) /\ t # <<>> => Decode[t] \in V
      <4> SUFFICES ASSUME ~Replaced(t, 1), t # <<>> PROVE Decode[t] \in V
        OBVIOUS
      <4>1. Decode[Tail(t)] \in V /\ <<Head(t)>> \in V
        BY <1>b, <2>1
      <4>2. Decode[t] = <<Head(t)>> \o Decode[Tail(t)]
        BY <1>7
      <4> QED
        BY <4>1, <4>2, ConcatProperties
    <3> QED
      BY <3>1, <3>2, <3>3
  <2> HIDE DEF G
  <2>2. D \subseteq G
    BY <2>1, LengthInduction
  <2> QED
    BY <2>2 DEF G
<1> QED
  BY <1>6, <1>7, <1>8, <1>9

-----------------------------------------------------------------------------
(* Encoding a text and decoding it again.                                  *)

\* The first four symbols one by one, and what is behind them.
LEMMA FourTails ==
    ASSUME NEW S, NEW t \in Seq(S), 4 <= Len(t)
    PROVE  /\ t # <<>> /\ Tail(t) # <<>> /\ Tail(Tail(t)) # <<>> /\ Tail(Tail(Tail(t))) # <<>>
           /\ Tail(t) \in Seq(S) /\ Tail(Tail(t)) \in Seq(S) /\ Tail(Tail(Tail(t))) \in Seq(S)
           /\ Head(t) = t[1] /\ Head(Tail(t)) = t[2]
           /\ Head(Tail(Tail(t))) = t[3] /\ Head(Tail(Tail(Tail(t)))) = t[4]
           /\ Tail(Tail(Tail(Tail(t)))) = SubSeq(t, 5, Len(t))
<1> DEFINE t1 == Tail(t)
           t2 == Tail(t1)
           t3 == Tail(t2)
           t4 == Tail(t3)
           r == SubSeq(t, 5, Len(t))
<1>1. /\ t # <<>> /\ Head(t) = t[1] /\ t1 \in Seq(S) /\ Len(t) \in Nat /\ Len(t1) = Len(t) - 1
      /\ \A k \in 1 .. Len(t) - 1 : t1[k] = t[k + 1]
  BY EmptySeq, HeadAndTail
<1> HIDE DEF t1
<1>2. /\ t1 # <<>> /\ Head(t1) = t[2] /\ t2 \in Seq(S) /\ Len(t2) = Len(t) - 2
      /\ \A k \in 1 .. Len(t) - 2 : t2[k] = t[k + 2]
  <2>1. t1 # <<>>
    BY <1>1, EmptySeq
  <2>2. /\ Head(t1) = t1[1] /\ t2 \in Seq(S) /\ Len(t2) = Len(t1) - 1
        /\ \A k \in 1 .. Len(t1) - 1 : t2[k] = t1[k + 1]
    BY <1>1, <2>1, HeadAndTail
  <2> HIDE DEF t2
  <2> QED
    BY <1>1, <2>1, <2>2
<1> HIDE DEF t2
<1>3. /\ t2 # <<>> /\ Head(t2) = t[3] /\ t3 \in Seq(S) /\ Len(t3) = Len(t) - 3
      /\ \A k \in 1 .. Len(t) - 3 : t3[k] = t[k + 3]
  <2>1. t2 # <<>>
    BY <1>1, <1>2, EmptySeq
  <2>2. /\ Head(t2) = t2[1] /\ t3 \in Seq(S) /\ Len(t3) = Len(t2) - 1
        /\ \A k \in 1 .. Len(t2) - 1 : t3[k] = t2[k + 1]
    BY <1>2, <2>1, HeadAndTail
  <2> HIDE DEF t3
  <2> QED
    BY <1>1, <1>2, <2>1, <2>2
<1> HIDE DEF t3
<1>4. /\ t3 # <<>> /\ Head(t3) = t[4] /\ t4 \in Seq(S) /\ Len(t4) = Len(t) - 4
      /\ \A k \in 1 .. Len(t) - 4 : t4[k] = t[k + 4]
  <2>1. t3 # <<>>
    BY <1>1, <1>3, EmptySeq
  <2>2. /\ Head(t3) = t3[1] /\ t4 \in Seq(S) /\ Len(t4) = Len(t3) - 1
        /\ \A k \in 1 .. Len(t3) - 1 : t4[k] = t3[k + 1]
    BY <1>3, <2>1, HeadAndTail
  <2> HIDE DEF t4
  <2> QED
    BY <1>1, <1>3, <2>1, <2>2
<1> HIDE DEF t4
<1>5. t4 = r
  <2>1. r \in Seq(S) /\ Len(r) = Len(t) - 4 /\ \A k \in 1 .. Len(t) - 4 : r[k] = t[k + 4]
    BY AfterFour
  <2> HIDE DEF r
  <2>2. Len(t4) = Len(r) /\ \A k \in 1 .. Len(t4) : t4[k] = r[k]
    BY <1>4, <2>1
  <2> QED
    BY <1>4, <2>1, <2>2, SeqEqual
<1> QED
  BY <1>1, <1>2, <1>3, <1>4, <1>5 DEF t1, t2, t3, t4, r

\* Four symbols before a sequence.
LEMMA FourBefore ==
    ASSUME NEW S, NEW w \in S, NEW x \in S, NEW y \in S, NEW z \in S, NEW r \in Seq(S),
           NEW t, t = <<w, x, y, z>> \o r
    PROVE  /\ t \in Seq(S) /\ t # <<>> /\ 4 <= Len(t) /\ Len(t) = Len(r) + 4
           /\ t[1] = w /\ t[2] = x /\ t[3] = y /\ t[4] = z
           /\ SubSeq(t, 5, Len(t)) = r
<1> DEFINE a == <<w, x, y, z>>
           u == SubSeq(t, 5, Len(t))
<1>1. a \in Seq(S) /\ Len(a) = 4 /\ a[1] = w /\ a[2] = x /\ a[3] = y /\ a[4] = z
  OBVIOUS
<1>2. Len(r) \in Nat
  BY LenProperties
<1>3. /\ t \in Seq(S) /\ Len(t) = 4 + Len(r)
      /\ \A k \in 1 .. 4 + Len(r) : t[k] = IF k <= 4 THEN a[k] ELSE r[k - 4]
  <2> HIDE DEF a
  <2>1. /\ a \o r \in Seq(S) /\ Len(a \o r) = Len(a) + Len(r)
        /\ \A k \in 1 .. Len(a) + Len(r) :
              (a \o r)[k] = IF k <= Len(a) THEN a[k] ELSE r[k - Len(a)]
    BY <1>1, ConcatProperties
  <2>2. t = a \o r
    BY DEF a
  <2> QED
    BY <1>1, <2>1, <2>2
<1>4. t[1] = w /\ t[2] = x /\ t[3] = y /\ t[4] = z /\ 4 <= Len(t)
  <2> HIDE DEF a
  <2> QED
    BY <1>1, <1>2, <1>3
<1>5. t # <<>>
  BY <1>3, <1>4, EmptySeq
<1>6. u = r
  <2>1. u \in Seq(S) /\ Len(u) = Len(t) - 4 /\ \A k \in 1 .. Len(t) - 4 : u[k] = t[k + 4]
    BY <1>3, <1>4, AfterFour
  <2>2. Len(u) = Len(r) /\ \A k \in 1 .. Len(r) : u[k] = r[k]
    <3> HIDE DEF u, a
    <3> QED
      BY <1>2, <1>3, <2>1
  <2> HIDE DEF u
  <2> QED
    BY <2>1, <2>2, SeqEqual
<1> QED
  BY <1>2, <1>3, <1>4, <1>5, <1>6

\* The encoding of a text, one symbol after the other.
LEMMA EncodeStep ==
    ASSUME NEW t \in Seq(Symbols), t # <<>>
    PROVE  /\ Tail(t) \in Seq(Symbols) /\ Encode[Tail(t)] \in Seq(Plain)
           /\ Encode[t] \in Seq(Plain) /\ Encode[t] # <<>>
           /\ Head(t) = "emoji" =>
                 /\ Encode[t] = <<"[", "U+", "c1F600", "]">> \o Encode[Tail(t)]
                 /\ Replaced(Encode[t], 1) /\ Encode[t][1] = "[" /\ Encode[t][3] = "c1F600"
                 /\ SubSeq(Encode[t], 5, Len(Encode[t])) = Encode[Tail(t)]
           /\ Head(t) # "emoji" =>
                 /\ Head(t) \in Plain
                 /\ Encode[t] = <<Head(t)>> \o Encode[Tail(t)]
                 /\ Encode[t][1] = Head(t) /\ Head(Encode[t]) = Head(t)
                 /\ Tail(Encode[t]) = Encode[Tail(t)]
<1>1. Tail(t) \in Seq(Symbols) /\ Head(t) \in Symbols
  BY HeadAndTail
<1>2. Encode[Tail(t)] \in Seq(Plain) /\ Encode[t] \in Seq(Plain)
  BY <1>1, EncodeEquation
<1>3. Encode[t] = Escape(Head(t)) \o Encode[Tail(t)]
  BY EncodeEquation
<1>4. CASE Head(t) = "emoji"
  <2>1. Encode[t] = <<"[", "U+", "c1F600", "]">> \o Encode[Tail(t)]
    BY <1>3, <1>4 DEF Escape, Token
  <2>2. "[" \in Plain /\ "U+" \in Plain /\ "c1F600" \in Plain /\ "]" \in Plain
    BY DEF Plain, Digits, Decodable
  <2> DEFINE e == Encode[t]
  <2>3. /\ e # <<>> /\ 4 <= Len(e) /\ SubSeq(e, 5, Len(e)) = Encode[Tail(t)]
        /\ e[1] = "[" /\ e[2] = "U+" /\ e[3] = "c1F600" /\ e[4] = "]"
    BY <1>2, <2>1, <2>2, FourBefore
  <2>4. Replaced(e, 1)
    <3>1. 1 + 3 <= Len(e) /\ 1 + 1 = 2 /\ 1 + 2 = 3 /\ 1 + 3 = 4
      BY <2>3
    <3> QED
      BY <2>3, <3>1 DEF Replaced, TokenAt, Digits, Decodable
  <2> QED
    BY <1>1, <1>2, <1>4, <2>1, <2>3, <2>4
<1>5. CASE Head(t) # "emoji"
  <2>1. Escape(Head(t)) = <<Head(t)>> /\ Head(t) \in Plain
    BY <1>1, <1>5 DEF Escape, Symbols
  <2>2. Encode[t] = <<Head(t)>> \o Encode[Tail(t)]
    BY <1>3, <2>1
  <2>3. /\ Encode[t] # <<>> /\ Encode[t][1] = Head(t) /\ Head(Encode[t]) = Head(t)
        /\ Tail(Encode[t]) = Encode[Tail(t)]
    BY <1>2, <2>1, <2>2, Cons
  <2> QED
    BY <1>1, <1>2, <1>5, <2>1, <2>2, <2>3
<1> QED
  BY <1>4, <1>5

\* A symbol of an encoding that starts no token is a symbol of the text.
LEMMA EncodedSymbol ==
    ASSUME NEW t \in Seq(Symbols), NEW e, e = Encode[t], 1 <= Len(e), e[1] # "["
    PROVE  /\ t # <<>> /\ Head(t) = e[1]
           /\ Tail(t) \in Seq(Symbols) /\ Encode[Tail(t)] = Tail(e)
           /\ e \in Seq(Plain) /\ e # <<>>
<1>1. t # <<>>
  <2>1. Len(<<>>) = 0
    BY EmptySeq
  <2> QED
    BY <2>1, EncodeEquation
<1>2. Head(t) # "emoji"
  BY <1>1, EncodeStep
<1> QED
  BY <1>1, <1>2, EncodeStep

\* A token the client typed is encoded as it is.
LEMMA TypedToken ==
    ASSUME NEW t \in Seq(Symbols), Replaced(t, 1)
    PROVE  /\ t # <<>> /\ Head(t) # "emoji"
           /\ Replaced(Encode[t], 1) /\ Encode[t][3] = t[3]
           /\ SubSeq(Encode[t], 5, Len(Encode[t])) = Encode[SubSeq(t, 5, Len(t))]
<1> DEFINE e == Encode[t]
<1>1. 4 <= Len(t) /\ t[1] = "[" /\ t[2] = "U+" /\ t[3] \in Decodable /\ t[4] = "]"
  BY DEF Replaced, TokenAt
<1> DEFINE t1 == Tail(t)
           t2 == Tail(t1)
           t3 == Tail(t2)
           t4 == Tail(t3)
           r == SubSeq(t, 5, Len(t))
<1>2. /\ t # <<>> /\ t1 # <<>> /\ t2 # <<>> /\ t3 # <<>>
      /\ t1 \in Seq(Symbols) /\ t2 \in Seq(Symbols) /\ t3 \in Seq(Symbols)
      /\ Head(t) = t[1] /\ Head(t1) = t[2] /\ Head(t2) = t[3] /\ Head(t3) = t[4]
      /\ t4 = r
  BY <1>1, FourTails
<1>3. "emoji" \notin Decodable
  BY DEF Decodable
<1> HIDE DEF t1, t2, t3, t4, r
<1>4. e # <<>> /\ e \in Seq(Plain) /\ Head(e) = t[1] /\ Tail(e) = Encode[t1]
  BY <1>1, <1>2, <1>3, EncodeStep DEF t1
<1>5. Encode[t1] # <<>> /\ Encode[t1] \in Seq(Plain) /\ Head(Encode[t1]) = t[2]
      /\ Tail(Encode[t1]) = Encode[t2]
  BY <1>1, <1>2, <1>3, EncodeStep DEF t2
<1>6. Encode[t2] # <<>> /\ Encode[t2] \in Seq(Plain) /\ Head(Encode[t2]) = t[3]
      /\ Tail(Encode[t2]) = Encode[t3]
  BY <1>1, <1>2, <1>3, EncodeStep DEF t3
<1>7. Encode[t3] # <<>> /\ Encode[t3] \in Seq(Plain) /\ Head(Encode[t3]) = t[4]
      /\ Tail(Encode[t3]) = Encode[t4]
  BY <1>1, <1>2, <1>3, EncodeStep DEF t4
<1>8. 4 <= Len(e)
  <2> DEFINE n == Len(e)
             n1 == Len(Encode[t1])
             n2 == Len(Encode[t2])
             n3 == Len(Encode[t3])
  <2>1. n \in Nat /\ n1 = n - 1
    BY <1>4, HeadAndTail
  <2>2. n1 \in Nat /\ n2 = n1 - 1
    BY <1>5, HeadAndTail
  <2>3. n2 \in Nat /\ n3 = n2 - 1
    BY <1>6, HeadAndTail
  <2>4. n3 \in Nat \ {0}
    BY <1>7, HeadAndTail
  <2> HIDE DEF n, n1, n2, n3
  <2>5. 4 <= n
    BY <2>1, <2>2, <2>3, <2>4
  <2> QED
    BY <2>5 DEF n
<1>9. e[1] = t[1] /\ e[2] = t[2] /\ e[3] = t[3] /\ e[4] = t[4]
  <2>1. /\ Head(e) = e[1] /\ Head(Tail(e)) = e[2]
        /\ Head(Tail(Tail(e))) = e[3] /\ Head(Tail(Tail(Tail(e)))) = e[4]
    BY <1>4, <1>8, FourTails
  <2> HIDE DEF e
  <2> QED
    BY <1>4, <1>5, <1>6, <1>7, <2>1
<1>10. SubSeq(e, 5, Len(e)) = Encode[r]
  <2>1. Tail(Tail(Tail(Tail(e)))) = SubSeq(e, 5, Len(e))
    BY <1>4, <1>8, FourTails
  <2> HIDE DEF e
  <2> QED
    BY <1>2, <1>4, <1>5, <1>6, <1>7, <2>1
<1> HIDE DEF e
<1>11. Replaced(e, 1)
  <2>1. 1 + 3 = 4 /\ 1 + 1 = 2 /\ 1 + 2 = 3
    OBVIOUS
  <2> QED
    BY <1>1, <1>8, <1>9, <2>1 DEF Replaced, TokenAt, Digits
<1>12. t # <<>> /\ Head(t) # "emoji"
  BY <1>1, <1>2
<1> QED
  BY <1>9, <1>10, <1>11, <1>12 DEF e, r

\* An encoding starts with a token the decoder replaces only if the text starts
\* with an emoji or with that token: none is put together by accident.
LEMMA NoAccidentalToken ==
    ASSUME NEW t \in Seq(Symbols), t # <<>>
    PROVE  Replaced(Encode[t], 1) <=> Head(t) = "emoji" \/ Replaced(t, 1)
<1> DEFINE e == Encode[t]
<1>1. Head(t) = "emoji" => Replaced(e, 1)
  BY EncodeStep
<1>2. Replaced(t, 1) => Replaced(e, 1)
  BY TypedToken
<1>3. ASSUME Head(t) # "emoji", Replaced(e, 1) PROVE Replaced(t, 1)
  <2>1. 4 <= Len(e) /\ e[1] = "[" /\ e[2] = "U+" /\ e[3] \in Decodable /\ e[4] = "]"
    BY <1>3 DEF Replaced, TokenAt
  <2> DEFINE t1 == Tail(t)
             t2 == Tail(t1)
             t3 == Tail(t2)
             e1 == Tail(e)
             e2 == Tail(e1)
             e3 == Tail(e2)
  <2>2. t1 \in Seq(Symbols) /\ Encode[t1] = e1 /\ e \in Seq(Plain) /\ Head(t) = e[1]
    BY <1>3, EncodeStep
  <2>3. /\ e1 # <<>> /\ e2 # <<>> /\ e3 # <<>>
        /\ e1 \in Seq(Plain) /\ e2 \in Seq(Plain) /\ e3 \in Seq(Plain)
        /\ Head(e1) = e[2] /\ Head(e2) = e[3] /\ Head(e3) = e[4]
    BY <2>1, <2>2, FourTails
  <2>4. /\ 1 <= Len(e1) /\ 1 <= Len(e2) /\ 1 <= Len(e3)
        /\ e1[1] = e[2] /\ e2[1] = e[3] /\ e3[1] = e[4]
    <3> HIDE DEF e1, e2, e3
    <3>1. Len(e1) \in Nat \ {0} /\ Len(e2) \in Nat \ {0} /\ Len(e3) \in Nat \ {0}
      BY <2>3, HeadAndTail
    <3>2. Head(e1) = e1[1] /\ Head(e2) = e2[1] /\ Head(e3) = e3[1]
      BY <2>3, HeadAndTail
    <3> QED
      BY <2>3, <3>1, <3>2
  <2>5. e1[1] # "[" /\ e2[1] # "[" /\ e3[1] # "["
    BY <2>1, <2>4 DEF Decodable
  <2> HIDE DEF e, e1, e2, e3, t1, t2, t3
  <2>6. /\ t1 # <<>> /\ Head(t1) = e[2]
        /\ t2 \in Seq(Symbols) /\ Encode[t2] = e2
    BY <2>2, <2>4, <2>5, EncodedSymbol DEF t2, e2
  <2>7. /\ t2 # <<>> /\ Head(t2) = e[3]
        /\ t3 \in Seq(Symbols) /\ Encode[t3] = e3
    BY <2>4, <2>5, <2>6, EncodedSymbol DEF t3, e3
  <2>8. t3 # <<>> /\ Head(t3) = e[4]
    BY <2>4, <2>5, <2>7, EncodedSymbol
  <2>9. 4 <= Len(t)
    <3>1. Len(t) \in Nat /\ Len(t1) = Len(t) - 1
      BY HeadAndTail DEF t1
    <3>2. Len(t1) \in Nat /\ Len(t2) = Len(t1) - 1
      BY <2>2, <2>6, HeadAndTail DEF t2
    <3>3. Len(t2) \in Nat /\ Len(t3) = Len(t2) - 1
      BY <2>6, <2>7, HeadAndTail DEF t3
    <3>4. Len(t3) \in Nat \ {0}
      BY <2>7, <2>8, HeadAndTail
    <3> QED
      BY <3>1, <3>2, <3>3, <3>4
  <2>10. t[1] = e[1] /\ t[2] = e[2] /\ t[3] = e[3] /\ t[4] = e[4]
    BY <2>2, <2>6, <2>7, <2>8, <2>9, FourTails DEF t1, t2, t3
  <2> QED
    BY <2>1, <2>9, <2>10 DEF Replaced, TokenAt, Digits
<1> QED
  BY <1>1, <1>2, <1>3

\* What a client reads of a text it sent.
Again(t) == Decode[Encode[t]]

LEMMA AgainType ==
    /\ \A t \in Seq(Symbols) : Again(t) \in Seq(Symbols)
    /\ Again(<<>>) = <<>>
<1>1. \A t \in Seq(Symbols) : Again(t) \in Seq(Symbols)
  BY EncodeEquation, DecodeEquation DEF Again
<1>2. Again(<<>>) = <<>>
  BY EncodeEquation, DecodeEquation, Zenon DEF Again
<1> QED
  BY <1>1, <1>2

LEMMA AgainStep ==
    ASSUME NEW t \in Seq(Symbols), t # <<>>
    PROVE  /\ Head(t) = "emoji" => Again(t) = <<"emoji">> \o Again(Tail(t))
           /\ Replaced(t, 1) => /\ Head(t) # "emoji"
                                /\ Again(t) = <<Char(t[3])>> \o Again(SubSeq(t, 5, Len(t)))
           /\ Head(t) # "emoji" /\ ~Replaced(t, 1) =>
                 Again(t) = <<Head(t)>> \o Again(Tail(t))
<1> DEFINE e == Encode[t]
           r == SubSeq(t, 5, Len(t))
<1>1. e \in Seq(Plain) /\ e # <<>>
  BY EncodeStep
<1>2. Decode[e] = IF Replaced(e, 1) THEN <<Char(e[3])>> \o Decode[SubSeq(e, 5, Len(e))]
                  ELSE <<Head(e)>> \o Decode[Tail(e)]
  BY <1>1, DecodeEquation
<1>3. ASSUME Head(t) = "emoji" PROVE Again(t) = <<"emoji">> \o Again(Tail(t))
  <2>1. /\ Replaced(e, 1) /\ e[3] = "c1F600"
        /\ SubSeq(e, 5, Len(e)) = Encode[Tail(t)]
    BY <1>3, EncodeStep
  <2>2. Char("c1F600") = "emoji"
    BY DEF Char
  <2> HIDE DEF e
  <2>3. Decode[e] = <<"emoji">> \o Decode[Encode[Tail(t)]]
    BY <1>2, <2>1, <2>2
  <2> QED
    BY <2>3 DEF Again, e
<1>4. ASSUME Replaced(t, 1)
      PROVE  Head(t) # "emoji" /\ Again(t) = <<Char(t[3])>> \o Again(r)
  <2>1. /\ Head(t) # "emoji" /\ Replaced(e, 1) /\ e[3] = t[3]
        /\ SubSeq(e, 5, Len(e)) = Encode[r]
    BY <1>4, TypedToken
  <2> HIDE DEF e, r
  <2>2. Decode[e] = <<Char(t[3])>> \o Decode[Encode[r]]
    BY <1>2, <2>1
  <2> QED
    BY <2>1, <2>2 DEF Again, e
<1>5. ASSUME Head(t) # "emoji", ~Replaced(t, 1)
      PROVE  Again(t) = <<Head(t)>> \o Again(Tail(t))
  <2>1. ~Replaced(e, 1)
    BY <1>5, NoAccidentalToken
  <2>2. Head(e) = Head(t) /\ Tail(e) = Encode[Tail(t)]
    BY <1>5, EncodeStep
  <2> HIDE DEF e
  <2>3. Decode[e] = <<Head(t)>> \o Decode[Encode[Tail(t)]]
    BY <1>2, <2>1, <2>2
  <2> QED
    BY <2>3 DEF Again, e
<1> QED
  BY <1>3, <1>4, <1>5

-----------------------------------------------------------------------------
(* Lengths.                                                                *)

LEMMA LengthOfCons ==
    ASSUME NEW x \in Symbols, NEW r \in Seq(Symbols)
    PROVE  /\ Length[<<x>> \o r] = Width(x) + Length[r]
           /\ Width(x) \in Nat \ {0} /\ Length[r] \in Nat /\ Length[<<x>> \o r] \in Nat
<1> DEFINE t == <<x>> \o r
<1>1. t \in Seq(Symbols) /\ t # <<>> /\ Head(t) = x /\ Tail(t) = r
  BY Cons
<1> HIDE DEF t
<1>2. Length[t] = Width(x) + Length[r]
  BY <1>1, LengthEquation
<1>3. Length[t] \in Nat /\ Length[r] \in Nat /\ Width(x) \in Nat \ {0}
  BY <1>1, LengthEquation, WidthType
<1> QED
  BY <1>2, <1>3 DEF t

\* A typed token that is decoded gets shorter by at least five characters.
LEMMA LengthOfToken ==
    ASSUME NEW t \in Seq(Symbols), Replaced(t, 1)
    PROVE  /\ SubSeq(t, 5, Len(t)) \in Seq(Symbols)
           /\ Len(SubSeq(t, 5, Len(t))) < Len(t)
           /\ Char(t[3]) \in Symbols /\ Width(Char(t[3])) = 1
           /\ Length[t] >= 6 + Length[SubSeq(t, 5, Len(t))]
<1> DEFINE t1 == Tail(t)
           t2 == Tail(t1)
           t3 == Tail(t2)
           r == SubSeq(t, 5, Len(t))
<1>1. 4 <= Len(t) /\ t[1] = "[" /\ t[2] = "U+" /\ t[3] \in Decodable /\ t[4] = "]"
  BY DEF Replaced, TokenAt
<1>2. r \in Seq(Symbols) /\ Len(r) < Len(t)
  BY <1>1, AfterFour
<1>3. /\ t # <<>> /\ t1 # <<>> /\ t2 # <<>> /\ t3 # <<>>
      /\ t1 \in Seq(Symbols) /\ t2 \in Seq(Symbols) /\ t3 \in Seq(Symbols)
      /\ Head(t) = t[1] /\ Head(t1) = t[2] /\ Head(t2) = t[3] /\ Head(t3) = t[4]
      /\ Tail(t3) = r
  BY <1>1, FourTails
<1>4. /\ Width("[") = 1 /\ Width("U+") = 2 /\ Width("]") = 1
      /\ Width(t[3]) \in Nat /\ Width(t[3]) >= 2
      /\ Char(t[3]) \in Symbols /\ Width(Char(t[3])) = 1
  BY <1>1 DEF Width, Char, Decodable, Symbols, Plain
<1> HIDE DEF t1, t2, t3, r
<1>5. /\ Length[t] = 1 + Length[t1] /\ Length[t1] = 2 + Length[t2]
      /\ Length[t2] = Width(t[3]) + Length[t3] /\ Length[t3] = 1 + Length[r]
      /\ Length[r] \in Nat /\ Length[t3] \in Nat /\ Length[t2] \in Nat /\ Length[t1] \in Nat
  BY <1>1, <1>2, <1>3, <1>4, LengthEquation DEF t1, t2, t3
<1>6. Length[t] >= 6 + Length[r]
  BY <1>4, <1>5
<1> QED
  BY <1>2, <1>4, <1>6 DEF r

\* What is read of a text is the text, or shorter.
LEMMA AgainSettles ==
    ASSUME NEW t \in Seq(Symbols)
    PROVE  Again(t) = t \/ Length[Again(t)] < Length[t]
<1> DEFINE settles(u) == Again(u) = u \/ Length[Again(u)] < Length[u]
           G == {u \in Seq(Symbols) : settles(u)}
<1>1. ASSUME NEW u \in Seq(Symbols), \A v \in Seq(Symbols) : Len(v) < Len(u) => v \in G
      PROVE  u \in G
  <2>1. CASE u = <<>>
    BY <2>1, AgainType
  <2>2. CASE u # <<>> /\ ~Replaced(u, 1)
    <3> DEFINE v == Tail(u)
               x == Head(u)
    <3>1. v \in Seq(Symbols) /\ Len(v) < Len(u) /\ x \in Symbols /\ u = <<x>> \o v
      BY <2>2, HeadAndTail
    <3>2. Again(u) = <<x>> \o Again(v)
      BY <2>2, AgainStep
    <3>3. settles(v) /\ Again(v) \in Seq(Symbols)
      BY <1>1, <3>1, AgainType
    <3> HIDE DEF v, x
    <3>4. /\ Length[u] = Width(x) + Length[v]
          /\ Length[Again(u)] = Width(x) + Length[Again(v)]
          /\ Width(x) \in Nat /\ Length[v] \in Nat /\ Length[Again(v)] \in Nat
      BY <3>1, <3>2, <3>3, LengthOfCons
    <3>5. Again(v) = v => Again(u) = u
      BY <3>1, <3>2
    <3>6. Length[Again(v)] < Length[v] => Length[Again(u)] < Length[u]
      BY <3>4
    <3> QED
      BY <3>3, <3>5, <3>6
  <2>3. CASE Replaced(u, 1)
    <3> DEFINE r == SubSeq(u, 5, Len(u))
               c == Char(u[3])
    <3>1. /\ r \in Seq(Symbols) /\ Len(r) < Len(u) /\ c \in Symbols /\ Width(c) = 1
          /\ Length[u] >= 6 + Length[r]
      BY <2>3, LengthOfToken
    <3>2. Again(u) = <<c>> \o Again(r)
      BY <2>3, TypedToken, AgainStep
    <3>3. settles(r) /\ Again(r) \in Seq(Symbols)
      BY <1>1, <3>1, AgainType
    <3> HIDE DEF r, c
    <3>4. /\ Length[Again(u)] = 1 + Length[Again(r)]
          /\ Length[r] \in Nat /\ Length[Again(r)] \in Nat /\ Length[u] \in Nat
      BY <3>1, <3>2, <3>3, LengthOfCons, LengthEquation
    <3>5. Length[Again(u)] < Length[u]
      BY <3>1, <3>3, <3>4
    <3> QED
      BY <3>5
  <2> QED
    BY <2>1, <2>2, <2>3
<1> HIDE DEF G
<1>2. Seq(Symbols) \subseteq G
  BY <1>1, LengthInduction
<1> QED
  BY <1>2 DEF G

\* The tail of a text has the tokens of the text, one place earlier.
LEMMA TailTokens ==
    ASSUME NEW S, NEW t \in Seq(S), t # <<>>, NEW k \in DOMAIN Tail(t)
    PROVE  /\ k + 1 \in DOMAIN t
           /\ TokenAt(Tail(t), k) => TokenAt(t, k + 1) /\ Tail(t)[k + 2] = t[(k + 1) + 2]
<1> DEFINE u == Tail(t)
<1>1. /\ u \in Seq(S) /\ Len(t) \in Nat \ {0} /\ Len(u) = Len(t) - 1
      /\ \A j \in 1 .. Len(t) - 1 : u[j] = t[j + 1]
  BY HeadAndTail
<1>2. DOMAIN u = 1 .. Len(u) /\ DOMAIN t = 1 .. Len(t)
  BY <1>1, LenProperties
<1> HIDE DEF u
<1>3. k \in 1 .. Len(t) - 1
  BY <1>1, <1>2 DEF u
<1>4. k + 1 \in DOMAIN t
  BY <1>1, <1>2, <1>3
<1>5. ASSUME TokenAt(u, k)
      PROVE  TokenAt(t, k + 1) /\ u[k + 2] = t[(k + 1) + 2]
  <2>1. /\ k + 3 <= Len(t) - 1
        /\ u[k] = "[" /\ u[k + 1] = "U+" /\ u[k + 2] \in Digits /\ u[k + 3] = "]"
    BY <1>1, <1>5 DEF TokenAt
  <2>2. /\ u[k] = t[k + 1] /\ u[k + 1] = t[(k + 1) + 1]
        /\ u[k + 2] = t[(k + 1) + 2] /\ u[k + 3] = t[(k + 1) + 3]
    <3>1. /\ k \in 1 .. Len(t) - 1 /\ k + 1 \in 1 .. Len(t) - 1
          /\ k + 2 \in 1 .. Len(t) - 1 /\ k + 3 \in 1 .. Len(t) - 1
      BY <1>1, <1>3, <2>1
    <3>2. (k + 2) + 1 = (k + 1) + 2 /\ (k + 3) + 1 = (k + 1) + 3
      BY <1>3
    <3>3. u[k] = t[k + 1] /\ u[k + 1] = t[(k + 1) + 1]
      BY <1>1, <3>1
    <3>4. u[k + 2] = t[(k + 2) + 1]
      BY <1>1, <3>1
    <3>5. u[k + 3] = t[(k + 3) + 1]
      BY <1>1, <3>1
    <3> QED
      BY <3>2, <3>3, <3>4, <3>5, Zenon
  <2>3. (k + 1) + 3 <= Len(t)
    BY <1>1, <1>3, <2>1
  <2> QED
    BY <2>1, <2>2, <2>3 DEF TokenAt
<1> QED
  BY <1>4, <1>5 DEF u

\* A text without typed tokens is read as it was sent.
LEMMA AgainTheSame ==
    ASSUME NEW t \in Seq(Symbols), NoTypedToken(t)
    PROVE  Again(t) = t
<1> DEFINE G == {u \in Seq(Symbols) : NoTypedToken(u) => Again(u) = u}
<1>1. <<>> \in G
  BY AgainType, EmptySeq
<1>2. ASSUME NEW u \in Seq(Symbols), u # <<>>, Tail(u) \in G PROVE u \in G
  <2> SUFFICES ASSUME NoTypedToken(u) PROVE Again(u) = u
    OBVIOUS
  <2>1. /\ Head(u) \in Symbols /\ Tail(u) \in Seq(Symbols) /\ u = <<Head(u)>> \o Tail(u)
        /\ 1 \in DOMAIN u
    BY <1>2, HeadAndTail, LenProperties
  <2>2. ~Replaced(u, 1)
    BY <2>1 DEF NoTypedToken
  <2>3. NoTypedToken(Tail(u))
    BY <1>2, <2>1, TailTokens DEF NoTypedToken, Replaced
  <2>4. Again(Tail(u)) = Tail(u)
    BY <1>2, <2>3
  <2>5. Again(u) = <<Head(u)>> \o Again(Tail(u))
    BY <1>2, <2>2, AgainStep
  <2> QED
    BY <2>1, <2>4, <2>5
<1> HIDE DEF G
<1>3. Seq(Symbols) \subseteq G
  BY <1>1, <1>2, TailInduction
<1> QED
  BY <1>3 DEF G

\* A text without emoji is stored as it is.
LEMMA EncodePlain ==
    ASSUME NEW t \in Seq(Symbols), \A k \in DOMAIN t : t[k] # "emoji"
    PROVE  Encode[t] = t
<1> DEFINE G == {u \in Seq(Symbols) : (\A k \in DOMAIN u : u[k] # "emoji") => Encode[u] = u}
<1>1. <<>> \in G
  BY EncodeEquation, EmptySeq
<1>2. ASSUME NEW u \in Seq(Symbols), u # <<>>, Tail(u) \in G PROVE u \in G
  <2> SUFFICES ASSUME \A k \in DOMAIN u : u[k] # "emoji" PROVE Encode[u] = u
    OBVIOUS
  <2>1. /\ Head(u) = u[1] /\ Tail(u) \in Seq(Symbols) /\ u = <<Head(u)>> \o Tail(u)
        /\ Len(u) \in Nat \ {0} /\ Len(Tail(u)) = Len(u) - 1
        /\ \A k \in 1 .. Len(u) - 1 : Tail(u)[k] = u[k + 1]
    BY <1>2, HeadAndTail
  <2>2. DOMAIN u = 1 .. Len(u) /\ DOMAIN Tail(u) = 1 .. Len(u) - 1
    BY <2>1, LenProperties
  <2>3. \A k \in DOMAIN Tail(u) : Tail(u)[k] # "emoji"
    <3>1. \A k \in 1 .. Len(u) - 1 : k + 1 \in 1 .. Len(u)
      BY <2>1
    <3> QED
      BY <2>1, <2>2, <3>1
  <2>4. Head(u) # "emoji"
    BY <2>1, <2>2
  <2>5. Encode[u] = <<Head(u)>> \o Encode[Tail(u)]
    BY <1>2, <2>4, EncodeStep
  <2> QED
    BY <1>2, <2>1, <2>3, <2>5
<1> HIDE DEF G
<1>3. Seq(Symbols) \subseteq G
  BY <1>1, <1>2, TailInduction
<1> QED
  BY <1>3 DEF G

\* What is behind a token has the tokens of the text, four places earlier.
LEMMA RestTokens ==
    ASSUME NEW S, NEW t \in Seq(S), 4 <= Len(t), CanonicalTokens(t)
    PROVE  CanonicalTokens(SubSeq(t, 5, Len(t)))
<1> DEFINE u == SubSeq(t, 5, Len(t))
<1>1. /\ u \in Seq(S) /\ Len(u) = Len(t) - 4 /\ Len(t) \in Nat
      /\ \A k \in 1 .. Len(t) - 4 : u[k] = t[k + 4]
  BY AfterFour, LenProperties
<1>2. DOMAIN u = 1 .. Len(t) - 4 /\ DOMAIN t = 1 .. Len(t)
  BY <1>1, LenProperties
<1> HIDE DEF u
<1>3. ASSUME NEW k \in DOMAIN u, TokenAt(u, k) PROVE u[k + 2] \in {"c1F600", "cD800"}
  <2>1. /\ k \in Nat /\ 1 <= k /\ k + 3 <= Len(t) - 4
        /\ u[k] = "[" /\ u[k + 1] = "U+" /\ u[k + 2] \in Digits /\ u[k + 3] = "]"
    BY <1>1, <1>2, <1>3 DEF TokenAt
  <2>2. /\ u[k] = t[k + 4] /\ u[k + 1] = t[(k + 4) + 1]
        /\ u[k + 2] = t[(k + 4) + 2] /\ u[k + 3] = t[(k + 4) + 3]
    <3>1. /\ k \in 1 .. Len(t) - 4 /\ k + 1 \in 1 .. Len(t) - 4
          /\ k + 2 \in 1 .. Len(t) - 4 /\ k + 3 \in 1 .. Len(t) - 4
      BY <1>1, <2>1
    <3>2. /\ (k + 1) + 4 = (k + 4) + 1 /\ (k + 2) + 4 = (k + 4) + 2
          /\ (k + 3) + 4 = (k + 4) + 3
      BY <2>1
    <3>3. u[k] = t[k + 4] /\ u[k + 1] = t[(k + 1) + 4]
      BY <1>1, <3>1
    <3>4. u[k + 2] = t[(k + 2) + 4]
      BY <1>1, <3>1
    <3>5. u[k + 3] = t[(k + 3) + 4]
      BY <1>1, <3>1
    <3> QED
      BY <3>2, <3>3, <3>4, <3>5, Zenon
  <2>3. k + 4 \in DOMAIN t /\ (k + 4) + 3 <= Len(t)
    BY <1>1, <1>2, <2>1
  <2>4. TokenAt(t, k + 4)
    BY <2>1, <2>2, <2>3 DEF TokenAt
  <2> QED
    BY <2>2, <2>3, <2>4 DEF CanonicalTokens
<1> QED
  BY <1>3 DEF CanonicalTokens, u

\* A column that holds no tokens but the encoder's is what its text encodes to.
LEMMA EncodeOfDecode ==
    ASSUME NEW s \in Seq(Plain), CanonicalTokens(s)
    PROVE  Encode[Decode[s]] = s
<1> DEFINE G == {u \in Seq(Plain) : CanonicalTokens(u) => Encode[Decode[u]] = u}
<1>1. ASSUME NEW u \in Seq(Plain), \A v \in Seq(Plain) : Len(v) < Len(u) => v \in G
      PROVE  u \in G
  <2> SUFFICES ASSUME CanonicalTokens(u) PROVE Encode[Decode[u]] = u
    OBVIOUS
  <2>1. CASE u = <<>>
    BY <2>1, DecodeEquation, EncodeEquation
  <2>2. CASE u # <<>> /\ Replaced(u, 1)
    <3> DEFINE r == SubSeq(u, 5, Len(u))
               d == Decode[r]
    <3>1. 4 <= Len(u) /\ u[1] = "[" /\ u[2] = "U+" /\ u[3] \in Decodable /\ u[4] = "]"
          /\ TokenAt(u, 1)
      BY <2>2 DEF Replaced, TokenAt
    <3>2. /\ r \in Seq(Plain) /\ Len(r) < Len(u) /\ 1 \in DOMAIN u
          /\ u = <<u[1], u[2], u[3], u[4]>> \o r
      BY <2>2, <3>1, AfterFour, HeadAndTail, LenProperties
    <3>3. u[3] = "c1F600"
      BY <3>1, <3>2 DEF CanonicalTokens, Decodable
    <3>4. Encode[d] = r /\ d \in Seq(Symbols)
      BY <1>1, <3>1, <3>2, RestTokens, DecodeEquation
    <3>5. Decode[u] = <<"emoji">> \o d
      <4>1. Char("c1F600") = "emoji"
        BY DEF Char
      <4> QED
        BY <2>2, <3>3, <4>1, DecodeEquation
    <3> HIDE DEF r, d
    <3>6. "emoji" \in Symbols
      BY DEF Symbols
    <3>7. /\ Decode[u] \in Seq(Symbols) /\ Decode[u] # <<>>
          /\ Head(Decode[u]) = "emoji" /\ Tail(Decode[u]) = d
      BY <3>4, <3>5, <3>6, Cons
    <3>8. Encode[Decode[u]] = <<"[", "U+", "c1F600", "]">> \o r
      BY <3>4, <3>7, EncodeStep
    <3> QED
      BY <3>1, <3>2, <3>3, <3>8
  <2>3. CASE u # <<>> /\ ~Replaced(u, 1)
    <3> DEFINE v == Tail(u)
               x == Head(u)
               d == Decode[v]
    <3>1. v \in Seq(Plain) /\ Len(v) < Len(u) /\ x \in Plain /\ u = <<x>> \o v
      BY <2>3, HeadAndTail
    <3>2. CanonicalTokens(v)
      BY <2>3, TailTokens DEF CanonicalTokens
    <3>3. Encode[d] = v /\ d \in Seq(Symbols)
      BY <1>1, <3>1, <3>2, DecodeEquation
    <3>4. Decode[u] = <<x>> \o d
      BY <2>3, DecodeEquation
    <3> HIDE DEF v, x, d
    <3>5. x \in Symbols /\ x # "emoji"
      BY <3>1 DEF Symbols, Plain, Digits, Decodable
    <3>6. /\ Decode[u] \in Seq(Symbols) /\ Decode[u] # <<>>
          /\ Head(Decode[u]) = x /\ Tail(Decode[u]) = d
      BY <3>3, <3>4, <3>5, Cons
    <3>7. Encode[Decode[u]] = <<x>> \o v
      BY <3>3, <3>5, <3>6, EncodeStep
    <3> QED
      BY <3>1, <3>7
  <2> QED
    BY <2>1, <2>2, <2>3
<1> HIDE DEF G
<1>2. Seq(Plain) \subseteq G
  BY <1>1, LengthInduction
<1> QED
  BY <1>2 DEF G

-----------------------------------------------------------------------------
(* The first characters of a text, and how much of a detail is stored.     *)

LEMMA FirstType ==
    ASSUME NEW S, NEW t \in Seq(S), NEW n \in 0 .. Len(t)
    PROVE  /\ First(t, n) \in Seq(S) /\ Len(First(t, n)) = n
           /\ n = 0 => First(t, n) = <<>>
           /\ n = Len(t) => First(t, n) = t
           /\ \A k \in 1 .. n : First(t, n)[k] = t[k]
<1>1. \A i \in 1 .. n : t[i] \in S
  BY LenProperties, ElementOfSeq
<1>2. /\ First(t, n) \in Seq(S)
      /\ Len(First(t, n)) = IF 1 <= n THEN n - 1 + 1 ELSE 0
      /\ \A i \in 1 .. n - 1 + 1 : First(t, n)[i] = t[1 + i - 1]
  BY <1>1, SubSeqProperties DEF First
<1>3. n - 1 + 1 = n /\ (1 <= n \/ n = 0) /\ \A i \in 1 .. n : 1 + i - 1 = i
  OBVIOUS
<1>4. n = 0 => First(t, n) = <<>>
  BY SubSeqEmpty DEF First
<1>5. n = Len(t) => First(t, n) = t
  BY SubSeqFull DEF First
<1> QED
  BY <1>2, <1>3, <1>4, <1>5

LEMMA FirstStep ==
    ASSUME NEW S, NEW t \in Seq(S), t # <<>>, NEW n \in 1 .. Len(t)
    PROVE  /\ n - 1 \in 0 .. Len(Tail(t))
           /\ First(t, n) = <<Head(t)>> \o First(Tail(t), n - 1)
<1> DEFINE f == First(t, n)
           u == Tail(t)
           g == First(u, n - 1)
           h == <<Head(t)>> \o g
<1>1. /\ Head(t) = t[1] /\ Head(t) \in S /\ u \in Seq(S) /\ Len(u) = Len(t) - 1
      /\ \A k \in 1 .. Len(t) - 1 : u[k] = t[k + 1]
  BY HeadAndTail
<1>2. n - 1 \in 0 .. Len(u) /\ n \in 0 .. Len(t) /\ n \in Nat /\ Len(t) \in Nat
  <2> HIDE DEF u
  <2> QED
    BY <1>1, LenProperties
<1>3. f \in Seq(S) /\ Len(f) = n /\ \A k \in 1 .. n : f[k] = t[k]
  BY <1>2, FirstType
<1>4. g \in Seq(S) /\ Len(g) = n - 1 /\ \A k \in 1 .. n - 1 : g[k] = u[k]
  <2> HIDE DEF u
  <2> QED
    BY <1>1, <1>2, FirstType
<1>5. /\ h \in Seq(S) /\ Len(h) = n /\ h[1] = t[1]
      /\ \A k \in 1 .. n : k # 1 => h[k] = g[k - 1]
  <2> HIDE DEF g
  <2>1. /\ <<Head(t)>> \in Seq(S) /\ Len(<<Head(t)>>) = 1
        /\ <<Head(t)>>[1] = Head(t)
    BY <1>1
  <2>2. /\ h \in Seq(S) /\ Len(h) = 1 + Len(g)
        /\ \A k \in 1 .. 1 + Len(g) : h[k] = IF k <= 1 THEN <<Head(t)>>[k] ELSE g[k - 1]
    BY <1>4, <2>1, ConcatProperties
  <2> HIDE DEF h
  <2>3. 1 + Len(g) = n
    BY <1>2, <1>4
  <2> QED
    BY <1>1, <1>2, <2>1, <2>2, <2>3
<1> HIDE DEF f, g, h, u
<1>6. \A k \in 1 .. n : f[k] = h[k]
  <2> SUFFICES ASSUME NEW k \in 1 .. n PROVE f[k] = h[k]
    OBVIOUS
  <2>1. CASE k = 1
    BY <1>3, <1>5, <2>1
  <2>2. CASE k # 1
    <3>1. k - 1 \in 1 .. n - 1 /\ k - 1 \in 1 .. Len(t) - 1 /\ (k - 1) + 1 = k
      BY <1>2, <2>2
    <3>2. h[k] = g[k - 1] /\ g[k - 1] = u[k - 1] /\ u[k - 1] = t[(k - 1) + 1] /\ f[k] = t[k]
      BY <1>1, <1>3, <1>4, <1>5, <2>2, <3>1
    <3> QED
      BY <3>1, <3>2
  <2> QED
    BY <2>1, <2>2
<1>7. f = h
  BY <1>3, <1>5, <1>6, SeqEqual
<1> QED
  BY <1>2, <1>7 DEF f, h, g, u

\* A text that was cut off is shorter.
LEMMA FirstIsShorter ==
    ASSUME NEW t \in Seq(Symbols), NEW n \in 0 .. Len(t)
    PROVE  Length[First(t, n)] <= Length[t] /\ (n < Len(t) => Length[First(t, n)] < Length[t])
<1> DEFINE shorter(u, m) == /\ Length[First(u, m)] <= Length[u]
                            /\ m < Len(u) => Length[First(u, m)] < Length[u]
           G == {u \in Seq(Symbols) : \A m \in 0 .. Len(u) : shorter(u, m)}
<1>1. <<>> \in G
  <2> SUFFICES ASSUME NEW m \in 0 .. Len(<<>>) PROVE shorter(<<>>, m)
    BY EmptySeq
  <2>1. m = 0 /\ Len(<<>>) = 0
    BY EmptySeq
  <2>2. First(<<>>, m) = <<>>
    BY <2>1, SubSeqEmpty DEF First
  <2>3. Length[First(<<>>, m)] = 0 /\ Length[<<>>] = 0
    BY <2>2, LengthEquation, Zenon
  <2> QED
    BY <2>1, <2>3
<1>2. ASSUME NEW u \in Seq(Symbols), u # <<>>, Tail(u) \in G PROVE u \in G
  <2> SUFFICES ASSUME NEW m \in 0 .. Len(u) PROVE shorter(u, m)
    OBVIOUS
  <2>1. /\ Head(u) \in Symbols /\ Tail(u) \in Seq(Symbols)
        /\ Len(u) \in Nat /\ Len(Tail(u)) = Len(u) - 1
    BY <1>2, HeadAndTail
  <2>2. /\ Length[u] = Width(Head(u)) + Length[Tail(u)] /\ Width(Head(u)) \in Nat \ {0}
        /\ Length[Tail(u)] \in Nat
    BY <1>2, <2>1, LengthEquation, WidthType
  <2>3. CASE m = 0
    <3>1. First(u, m) = <<>>
      BY <2>3, FirstType
    <3>2. Length[First(u, m)] = 0
      BY <3>1, LengthEquation, Zenon
    <3> QED
      BY <2>2, <3>2
  <2>4. CASE m # 0
    <3> DEFINE v == Tail(u)
               f == First(v, m - 1)
    <3>1. m \in 1 .. Len(u)
      BY <2>1, <2>4
    <3>2. m - 1 \in 0 .. Len(v) /\ First(u, m) = <<Head(u)>> \o f
      BY <1>2, <3>1, FirstStep
    <3>3. shorter(v, m - 1)
      BY <1>2, <3>2
    <3> HIDE DEF v
    <3>4. f \in Seq(Symbols)
      BY <2>1, <3>2, FirstType DEF v
    <3> HIDE DEF f
    <3>5. Length[First(u, m)] = Width(Head(u)) + Length[f] /\ Length[f] \in Nat
      BY <2>1, <3>2, <3>4, LengthOfCons
    <3>6. Length[f] <= Length[v] /\ (m - 1 < Len(v) => Length[f] < Length[v])
      BY <3>3 DEF f
    <3>7. m < Len(u) => m - 1 < Len(v)
      BY <2>1, <3>1 DEF v
    <3>8. Length[u] = Width(Head(u)) + Length[v] /\ Length[v] \in Nat
      BY <2>2 DEF v
    <3> QED
      BY <2>2, <3>5, <3>6, <3>7, <3>8
  <2> QED
    BY <2>3, <2>4
<1> HIDE DEF G
<1>3. Seq(Symbols) \subseteq G
  BY <1>1, <1>2, TailInduction
<1> QED
  BY <1>3 DEF G

LEMMA FirstTokens ==
    ASSUME NEW t \in Seq(Symbols), NEW n \in 0 .. Len(t), NoTypedToken(t)
    PROVE  NoTypedToken(First(t, n))
<1> DEFINE f == First(t, n)
<1>1. f \in Seq(Symbols) /\ Len(f) = n /\ \A k \in 1 .. n : f[k] = t[k]
  BY FirstType
<1>2. DOMAIN f = 1 .. n /\ DOMAIN t = 1 .. Len(t) /\ n \in Nat /\ Len(t) \in Nat /\ n <= Len(t)
  BY <1>1, LenProperties
<1> HIDE DEF f
<1>3. ASSUME NEW k \in DOMAIN f, Replaced(f, k) PROVE FALSE
  <2>1. k + 3 <= n /\ f[k] = "[" /\ f[k + 1] = "U+" /\ f[k + 2] \in Digits /\ f[k + 3] = "]"
        /\ f[k + 2] \in Decodable
    BY <1>1, <1>3 DEF Replaced, TokenAt
  <2>2. k \in 1 .. n /\ k + 1 \in 1 .. n /\ k + 2 \in 1 .. n /\ k + 3 \in 1 .. n
    BY <1>2, <2>1
  <2>3. f[k] = t[k] /\ f[k + 1] = t[k + 1] /\ f[k + 2] = t[k + 2] /\ f[k + 3] = t[k + 3]
    BY <1>1, <2>2
  <2>4. k \in DOMAIN t /\ k + 3 <= Len(t)
    BY <1>2, <2>1, <2>2
  <2>5. Replaced(t, k)
    BY <2>1, <2>3, <2>4 DEF Replaced, TokenAt
  <2> QED
    BY <2>4, <2>5 DEF NoTypedToken
<1> QED
  BY <1>3 DEF NoTypedToken, f

\* encode_detail stops where a character does not fit for the first time: there
\* is such a place, and what is stored fits.
LEMMA EncodeDetailIsCut ==
    ASSUME NEW t \in Seq(Symbols)
    PROVE  \E n \in 0 .. Len(t) :
              /\ EncodeDetail(t) = Encode[First(t, n)]
              /\ n < Len(t) => ~Fits(t, n + 1)
              /\ EncodeDetail(t) \in Seq(Plain) /\ Length[EncodeDetail(t)] <= DetailMax
<1> DEFINE stop(n) == /\ \A k \in 1 .. n : Fits(t, k)
                      /\ n < Len(t) => ~Fits(t, n + 1)
           bad == {k \in 1 .. Len(t) : ~Fits(t, k)}
<1>1. Len(t) \in Nat
  BY LenProperties
<1>2. \E n \in 0 .. Len(t) : stop(n)
  <2>1. CASE bad = {}
    <3>1. \A k \in 1 .. Len(t) : Fits(t, k)
      BY <2>1
    <3>2. stop(Len(t)) /\ Len(t) \in 0 .. Len(t)
      BY <1>1, <3>1
    <3> QED
      BY <3>2
  <2>2. CASE bad # {}
    <3>1. bad \subseteq Nat
      OBVIOUS
    <3>2. PICK b \in bad : \A c \in bad : b <= c
      BY <2>2, <3>1, LeastNumber
    <3>3. b - 1 \in 0 .. Len(t) /\ (b - 1) + 1 = b /\ b \in 1 .. Len(t) /\ ~Fits(t, b)
      BY <1>1
    <3>4. \A k \in 1 .. b - 1 : Fits(t, k)
      <4> SUFFICES ASSUME NEW k \in 1 .. b - 1, ~Fits(t, k) PROVE FALSE
        OBVIOUS
      <4>1. k \in 1 .. Len(t)
        BY <1>1, <3>3
      <4>2. k \in bad
        BY <4>1
      <4>3. b <= k
        BY <3>2, <4>2
      <4> QED
        BY <3>3, <4>3
    <3>5. stop(b - 1)
      BY <3>3, <3>4
    <3> QED
      BY <3>3, <3>5
  <2> QED
    BY <2>1, <2>2
<1>3. PICK n \in 0 .. Len(t) : stop(n) /\ EncodeDetail(t) = Encode[First(t, n)]
  <2> DEFINE m == CHOOSE n \in 0 .. Len(t) : stop(n)
  <2>1. m \in 0 .. Len(t) /\ stop(m)
    BY <1>2
  <2>2. EncodeDetail(t) = Encode[First(t, m)]
    BY DEF EncodeDetail
  <2> QED
    BY <2>1, <2>2
<1>4. First(t, n) \in Seq(Symbols) /\ (n = 0 => First(t, n) = <<>>)
  BY FirstType
<1>5. EncodeDetail(t) \in Seq(Plain)
  BY <1>3, <1>4, EncodeEquation
<1>6. CASE n = 0
  <2>1. Length[EncodeDetail(t)] = 0
    BY <1>3, <1>4, <1>6, EncodeEquation, LengthEquation, Zenon
  <2> QED
    BY <1>3, <1>5, <2>1, EncodingAssumption
<1>7. CASE n # 0
  <2>1. n \in 1 .. n
    BY <1>7
  <2>2. Fits(t, n)
    BY <1>3, <2>1
  <2> QED
    BY <1>3, <1>5, <2>2 DEF Fits
<1> QED
  BY <1>6, <1>7

-----------------------------------------------------------------------------
(* The invariant.                                                          *)

\* The column holds what was made of the text that was sent last.
StoredIsEncoded ==
    IsSent => stored = IF field = "title" THEN Encode[sent] ELSE EncodeDetail(sent)

SeenIsDecoded == seen # NoText => seen = Decode[stored]

\* The database refuses a title that was short enough when it was sent.
RefusedIsTooLong ==
    refused => /\ sent \in Seq(Symbols) /\ Length[sent] <= TitleMax
               /\ Length[Encode[sent]] > TitleColumn

EncodingInv == TextTypeOK /\ StoredIsEncoded /\ SeenIsDecoded /\ RefusedIsTooLong

LEMMA PlainIsSymbols ==
    Seq(Plain) \subseteq Seq(Symbols)
BY DEF Symbols

LEMMA EncodingInvInit ==
    EncodingInit => EncodingInv
<1> SUFFICES ASSUME EncodingInit PROVE EncodingInv
  OBVIOUS
<1>1. /\ stored \in DeviceTexts /\ Length[stored] <= TitleColumn /\ Length[stored] <= DetailMax
      /\ sent = NoText /\ seen = NoText /\ refused = FALSE /\ field \in {"title", "detail"}
  BY DEF EncodingInit
<1>2. TextTypeOK
  BY <1>1, EncodingAssumption DEF TextTypeOK
<1> QED
  BY <1>1, <1>2 DEF EncodingInv, StoredIsEncoded, SeenIsDecoded, RefusedIsTooLong, IsSent

\* Whatever text is sent, and whether the database takes it or not.
LEMMA WriteKeepsInv ==
    ASSUME EncodingInv, NEW t \in Seq(Symbols), Write(t)
    PROVE  EncodingInv'
<1>1. sent' = t /\ seen' = NoText /\ field' = field /\ t # NoText /\ field \in {"title", "detail"}
      /\ stored \in Seq(Plain)
      /\ Length[stored] <= IF field = "title" THEN TitleColumn ELSE DetailMax
  BY EncodingAssumption DEF Write, EncodingInv, TextTypeOK
<1>2. SeenIsDecoded'
  BY <1>1 DEF SeenIsDecoded
<1>3. CASE WriteTitle(t)
  <2>1. /\ field = "title" /\ stored' = Encode[t] /\ refused' = FALSE
        /\ Length[Encode[t]] <= TitleColumn
    BY <1>3 DEF WriteTitle
  <2>2. TextTypeOK'
    BY <1>1, <2>1, EncodeEquation DEF TextTypeOK
  <2>3. StoredIsEncoded' /\ RefusedIsTooLong'
    BY <1>1, <2>1 DEF StoredIsEncoded, RefusedIsTooLong
  <2> QED
    BY <1>2, <2>2, <2>3 DEF EncodingInv
<1>4. CASE RefuseTitle(t)
  <2>1. /\ stored' = stored /\ refused' = TRUE
        /\ Length[t] <= TitleMax /\ Length[Encode[t]] > TitleColumn
    BY <1>4 DEF RefuseTitle, ValidTitle
  <2>2. TextTypeOK'
    BY <1>1, <2>1 DEF TextTypeOK
  <2>3. StoredIsEncoded' /\ RefusedIsTooLong'
    BY <1>1, <2>1 DEF StoredIsEncoded, RefusedIsTooLong, IsSent
  <2> QED
    BY <1>2, <2>2, <2>3 DEF EncodingInv
<1>5. CASE WriteDetail(t)
  <2>1. field = "detail" /\ stored' = EncodeDetail(t) /\ refused' = FALSE
    BY <1>5 DEF WriteDetail
  <2>2. EncodeDetail(t) \in Seq(Plain) /\ Length[EncodeDetail(t)] <= DetailMax
    BY EncodeDetailIsCut
  <2>3. TextTypeOK'
    BY <1>1, <2>1, <2>2 DEF TextTypeOK
  <2>4. StoredIsEncoded' /\ RefusedIsTooLong'
    BY <1>1, <2>1 DEF StoredIsEncoded, RefusedIsTooLong
  <2> QED
    BY <1>2, <2>3, <2>4 DEF EncodingInv
<1> QED
  BY <1>3, <1>4, <1>5 DEF Write

LEMMA ReadKeepsInv ==
    ASSUME EncodingInv, Read
    PROVE  EncodingInv'
<1>1. seen' = Decode[stored] /\ stored \in Seq(Plain)
      /\ field' = field /\ sent' = sent /\ stored' = stored /\ refused' = refused
  BY DEF Read, EncodingInv, TextTypeOK
<1>2. seen' \in Seq(Symbols)
  BY <1>1, DecodeEquation
<1>3. TextTypeOK'
  BY <1>1, <1>2 DEF EncodingInv, TextTypeOK
<1>4. StoredIsEncoded' /\ RefusedIsTooLong'
  BY <1>1 DEF EncodingInv, StoredIsEncoded, RefusedIsTooLong, IsSent
<1>5. SeenIsDecoded'
  BY <1>1 DEF SeenIsDecoded
<1> QED
  BY <1>3, <1>4, <1>5 DEF EncodingInv

LEMMA EncodingInvNext ==
    EncodingInv /\ [EncodingNext]_vars => EncodingInv'
<1> SUFFICES ASSUME EncodingInv, [EncodingNext]_vars PROVE EncodingInv'
  OBVIOUS
<1>1. CASE WriteNew
  BY <1>1, WriteKeepsInv, EncodingAssumption DEF WriteNew
<1>2. CASE WriteBack
  <2>1. seen \in Seq(Symbols) /\ Write(seen)
    BY <1>2 DEF WriteBack, EncodingInv, TextTypeOK
  <2> QED
    BY <2>1, WriteKeepsInv
<1>3. CASE Read
  BY <1>3, ReadKeepsInv
<1>4. CASE UNCHANGED vars
  BY <1>4 DEF vars, EncodingInv, TextTypeOK, StoredIsEncoded, SeenIsDecoded, RefusedIsTooLong,
              IsSent
<1> QED
  BY <1>1, <1>2, <1>3, <1>4 DEF EncodingNext

LEMMA EncodingInvariant ==
    EncodingSpec => []EncodingInv
<1> QED
  BY EncodingInvInit, EncodingInvNext, PTL DEF EncodingSpec

-----------------------------------------------------------------------------
(* What follows for the client.                                            *)

\* What a client reads of a text it sent: a beginning of it, encoded and
\* decoded, that is all of it unless the next character does not fit.
LEMMA WhatIsRead ==
    ASSUME EncodingInv, IsSent, IsSeen
    PROVE  /\ sent \in Seq(Symbols) /\ seen \in Seq(Symbols)
           /\ field = "title" => seen = Again(sent)
           /\ \E n \in 0 .. Len(sent) :
                 /\ seen = Again(First(sent, n))
                 /\ n < Len(sent) => ~Fits(sent, n + 1)
<1>1. /\ sent \in Seq(Symbols) /\ seen \in Seq(Symbols)
      /\ seen = Decode[stored]
      /\ stored = IF field = "title" THEN Encode[sent] ELSE EncodeDetail(sent)
  BY DEF EncodingInv, TextTypeOK, StoredIsEncoded, SeenIsDecoded, IsSent, IsSeen
<1>2. CASE field = "title"
  <2>1. seen = Again(sent)
    BY <1>1, <1>2 DEF Again
  <2>2. Len(sent) \in 0 .. Len(sent) /\ ~ (Len(sent) < Len(sent))
    BY <1>1, LenProperties
  <2>3. First(sent, Len(sent)) = sent
    BY <1>1, <2>2, FirstType
  <2>4. /\ seen = Again(First(sent, Len(sent)))
        /\ Len(sent) < Len(sent) => ~Fits(sent, Len(sent) + 1)
    BY <2>1, <2>2, <2>3
  <2> QED
    BY <1>1, <2>1, <2>2, <2>4
<1>3. CASE field # "title"
  <2>1. PICK n \in 0 .. Len(sent) : /\ EncodeDetail(sent) = Encode[First(sent, n)]
                                    /\ n < Len(sent) => ~Fits(sent, n + 1)
    BY <1>1, EncodeDetailIsCut
  <2>2. seen = Again(First(sent, n))
    BY <1>1, <1>3, <2>1 DEF Again
  <2> QED
    BY <1>1, <1>3, <2>1, <2>2
<1> QED
  BY <1>2, <1>3

LEMMA InvReadsAsSent ==
    EncodingInv => ReadsAsSent
<1> SUFFICES ASSUME EncodingInv, IsSent, IsSeen, NoTypedToken(sent)
             PROVE  IF field = "title" THEN seen = sent
                    ELSE /\ Len(seen) <= Len(sent) /\ seen = First(sent, Len(seen))
                         /\ seen # sent => ~Fits(sent, Len(seen) + 1)
  BY DEF ReadsAsSent
<1>1. sent \in Seq(Symbols) /\ (field = "title" => seen = Again(sent))
  BY WhatIsRead
<1>2. PICK n \in 0 .. Len(sent) : /\ seen = Again(First(sent, n))
                                  /\ n < Len(sent) => ~Fits(sent, n + 1)
  BY WhatIsRead
<1>3. CASE field = "title"
  BY <1>1, <1>3, AgainTheSame
<1>4. CASE field # "title"
  <2>1. /\ First(sent, n) \in Seq(Symbols) /\ Len(First(sent, n)) = n
        /\ n = Len(sent) => First(sent, n) = sent
    BY <1>1, FirstType
  <2>2. seen = First(sent, n)
    BY <1>1, <1>2, <2>1, FirstTokens, AgainTheSame
  <2>3. Len(seen) = n /\ n <= Len(sent) /\ n \in Nat /\ Len(sent) \in Nat
    BY <1>1, <2>1, <2>2, LenProperties
  <2>4. seen # sent => n < Len(sent)
    BY <2>1, <2>2, <2>3
  <2> QED
    BY <1>2, <1>4, <2>2, <2>3, <2>4
<1> QED
  BY <1>3, <1>4

LEMMA InvReadBackSettles ==
    EncodingInv => ReadBackSettles
<1> SUFFICES ASSUME EncodingInv, IsSent, IsSeen
             PROVE  seen = sent \/ Length[seen] < Length[sent]
  BY DEF ReadBackSettles
<1>1. sent \in Seq(Symbols) /\ seen \in Seq(Symbols)
  BY WhatIsRead
<1>2. PICK n \in 0 .. Len(sent) : seen = Again(First(sent, n))
  BY WhatIsRead
<1> DEFINE f == First(sent, n)
<1>3. f \in Seq(Symbols) /\ (n = Len(sent) => f = sent)
  BY <1>1, FirstType
<1>4. Length[f] <= Length[sent] /\ (n < Len(sent) => Length[f] < Length[sent])
  BY <1>1, FirstIsShorter
<1>5. Length[f] \in Nat /\ Length[sent] \in Nat /\ Length[seen] \in Nat
  BY <1>1, <1>3, LengthEquation
<1>6. seen = f \/ Length[seen] < Length[f]
  BY <1>2, <1>3, AgainSettles
<1>7. n = Len(sent) \/ n < Len(sent)
  BY <1>1, LenProperties
<1> HIDE DEF f
<1>8. CASE n < Len(sent)
  BY <1>4, <1>5, <1>6, <1>8
<1>9. CASE n = Len(sent)
  BY <1>3, <1>6, <1>9
<1> QED
  BY <1>7, <1>8, <1>9

LEMMA InvReadTitleIsFound ==
    EncodingInv => ReadTitleIsFound
BY EncodeOfDecode DEF EncodingInv, TextTypeOK, SeenIsDecoded, ReadTitleIsFound, TitleKey, IsSeen

LEMMA InvRefusedOnlyForEmoji ==
    EncodingInv => RefusedOnlyForEmoji
<1> SUFFICES ASSUME EncodingInv, refused, \A k \in DOMAIN sent : sent[k] # "emoji"
             PROVE  FALSE
  BY DEF RefusedOnlyForEmoji
<1>1. /\ sent \in Seq(Symbols) /\ Length[sent] <= TitleMax
      /\ Length[Encode[sent]] > TitleColumn
  BY DEF EncodingInv, RefusedIsTooLong
<1>2. Encode[sent] = sent
  BY <1>1, EncodePlain
<1>3. Length[sent] > TitleColumn /\ Length[sent] \in Nat
  BY <1>1, <1>2, LengthEquation
<1> QED
  BY <1>1, <1>3, EncodingAssumption

\* What is stored fits its column, whatever is sent or was there, and it is of
\* characters the column can hold: encode_emoji, encode_detail and the length
\* checks of the request models leave nothing out.
THEOREM ColumnsHoldTexts == EncodingSpec => []TextTypeOK
<1> QED
  BY EncodingInvariant, PTL DEF EncodingInv

\* A client reads the text it sent, unless it typed a token: an emoji next to
\* brackets and digits makes no other token, and encode_detail leaves out only
\* what is behind the first character that does not fit.
THEOREM TextIsReadAsSent == EncodingSpec => []ReadsAsSent
<1> QED
  BY EncodingInvariant, InvReadsAsSent, PTL

\* A client that sends back what it read makes the text no longer and changes
\* it only finitely often, even if decoding made a new token: decode_emoji
\* shortens whatever it changes.
THEOREM ReadingBackSettles == EncodingSpec => []ReadBackSettles
<1> QED
  BY EncodingInvariant, InvReadBackSettles, PTL

\* get_list_by_title finds the list under the title that was read, also where
\* the device stored it, if every token in it is one encode_emoji writes.
THEOREM TitleReadIsFound == EncodingSpec => []ReadTitleIsFound
<1> QED
  BY EncodingInvariant, InvReadTitleIsFound, PTL

\* The 503 of a title that is too long for its column is due to its emoji.
THEOREM OnlyEmojiAreRefused == EncodingSpec => []RefusedOnlyForEmoji
<1> QED
  BY EncodingInvariant, InvRefusedOnlyForEmoji, PTL
=============================================================================
