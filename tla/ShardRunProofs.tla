-------------------------- MODULE ShardRunProofs --------------------------
(***************************************************************************)
(* A shard tests what the user asked for: proof of ShardArgs for any tree  *)
(* of configurations and any command line that parse_cli accepts.  LTM's   *)
(* parser, getConfigs and Without are loops over sequences; what they      *)
(* compute is proved turn by turn, from the first turn that would differ.  *)
(***************************************************************************)
EXTENDS ShardRun, Integers, WellFoundedInduction, TLAPS

-----------------------------------------------------------------------------
(***************************************************************************)
(* Loops over a sequence.  A recursive function is what its definition     *)
(* says only once some function fits the definition: LoopExists shows it,  *)
(* and what the loop computes then follows turn by turn (UpTo).            *)
(***************************************************************************)

\* The states g that a loop over s goes through from base; F is one turn.
IsLoop(g, A, base, F, s) ==
  /\ g \in [0..Len(s) -> A] /\ g[0] = base
  /\ \A i \in 1..Len(s) : g[i] = F[<<g[i - 1], s[i]>>]

\* Every loop whose turn is a function has such states.
LEMMA LoopExists ==
  ASSUME NEW A, NEW B, NEW s \in Seq(B), NEW base \in A, NEW F \in [A \X B -> A]
  PROVE  \E g : IsLoop(g, A, base, F, s)
<1> DEFINE Fits(g, n) == g[0] = base /\ \A i \in 1..n : g[i] = F[<<g[i - 1], s[i]>>]
           Bad == {n \in Nat : n <= Len(s) /\ ~\E g \in [0..n -> A] : Fits(g, n)}
<1>0. Len(s) \in Nat
  OBVIOUS
<1>1. Bad = {}
  <2> SUFFICES ASSUME Bad # {} PROVE FALSE
    OBVIOUS
  <2>1. PICK n \in Bad : \A m \in Bad : ~(<<m, n>> \in OpToRel(<, Nat))
    BY NatLessThanWellFounded, WFMin, Zenon
  <2>2. n \in Nat /\ n <= Len(s) /\ ~\E g \in [0..n -> A] : Fits(g, n)
    OBVIOUS
  <2>3. \A m \in Nat : m < n => m \notin Bad
    BY <2>1, Zenon DEF OpToRel
  <2>4. n # 0
    <3>1. Fits([i \in 0..0 |-> base], 0) /\ [i \in 0..0 |-> base] \in [0..0 -> A]
      OBVIOUS
    <3> QED
      BY <3>1, <2>2, Zenon
  <2>5. n - 1 \in Nat /\ n - 1 < n /\ n - 1 <= Len(s)
    BY <2>2, <2>4, <1>0
  <2>6. PICK g \in [0..(n - 1) -> A] : Fits(g, n - 1)
    BY <2>3, <2>5, Zenon
  <2> DEFINE h == [i \in 0..n |-> IF i = n THEN F[<<g[n - 1], s[n]>>] ELSE g[i]]
  <2>7. s[n] \in B /\ g[n - 1] \in A
    BY <2>2, <2>4, <2>5
  <2>8. F[<<g[n - 1], s[n]>>] \in A
    BY <2>7
  <2>9. h \in [0..n -> A]
    BY <2>8, <2>2, <2>6
  <2>10. Fits(h, n)
    <3>1. h[0] = base
      BY <2>2, <2>4, <2>6
    <3>2. ASSUME NEW i \in 1..n PROVE h[i] = F[<<h[i - 1], s[i]>>]
      <4>1. CASE i = n
        <5>1. i - 1 \in 0..n /\ i \in 0..n /\ i - 1 # n
          BY <2>2
        <5>2. h[i] = F[<<g[n - 1], s[n]>>] /\ h[i - 1] = g[i - 1]
          BY <5>1, <4>1
        <5> QED
          BY <5>2, <4>1, Zenon
      <4>2. CASE i # n
        <5>1. i \in 1..(n - 1) /\ i - 1 \in 0..n /\ i \in 0..n /\ i - 1 # n
          BY <4>2, <2>2
        <5> QED
          BY <5>1, <2>6, <4>2
      <4> QED
        BY <4>1, <4>2
    <3> QED
      BY <3>1, <3>2, Zenon
  <2> QED
    BY <2>2, <2>9, <2>10, Zenon
<1>2. Len(s) \notin Bad
  BY <1>1
<1>3. \E g \in [0..Len(s) -> A] : Fits(g, Len(s))
  BY <1>2, <1>0
<1> QED
  BY <1>3 DEF IsLoop

\* What holds at 0 and is handed on holds up to n.
LEMMA UpTo ==
  ASSUME NEW n \in Nat, NEW T, 0 \in T, \A i \in 1..n : i - 1 \in T => i \in T
  PROVE  0..n \subseteq T
<1> DEFINE Bad == {m \in Nat : m <= n /\ m \notin T}
<1> SUFFICES ASSUME Bad # {} PROVE FALSE
  OBVIOUS
<1>1. PICK m \in Bad : \A k \in Bad : ~(<<k, m>> \in OpToRel(<, Nat))
  BY NatLessThanWellFounded, WFMin, Zenon
<1>2. \A k \in Nat : k < m => k \notin Bad
  BY <1>1, Zenon DEF OpToRel
<1>3. m # 0 /\ m \in Nat /\ m <= n /\ m \notin T
  OBVIOUS
<1>4. m - 1 \in Nat /\ m - 1 < m /\ m \in 1..n /\ m - 1 <= n
  BY <1>3
<1>5. m - 1 \in T
  BY <1>2, <1>4
<1> QED
  BY <1>3, <1>4, <1>5

\* What a loop's definition says makes its states those of IsLoop.
LEMMA LoopIs ==
  ASSUME NEW A, NEW B, NEW s \in Seq(B), NEW base \in A, NEW F \in [A \X B -> A], NEW f,
         f = [i \in 0..Len(s) |-> f[i]], f[0] = base,
         \A i \in 1..Len(s) : f[i - 1] \in A => f[i] = F[<<f[i - 1], s[i]>>]
  PROVE  IsLoop(f, A, base, F, s)
<1> DEFINE T == {i \in 0..Len(s) : f[i] \in A}
<1>0. Len(s) \in Nat /\ 0 \in 0..Len(s)
  OBVIOUS
<1>1. 0 \in T
  BY <1>0
<1>2. ASSUME NEW i \in 1..Len(s), i - 1 \in T PROVE i \in T
  <2>1. f[i - 1] \in A /\ s[i] \in B /\ i \in 0..Len(s)
    BY <1>2, <1>0
  <2>2. f[i] = F[<<f[i - 1], s[i]>>]
    BY <2>1, Zenon
  <2> QED
    BY <2>1, <2>2
<1>3. 0..Len(s) \subseteq T
  <2> HIDE DEF T
  <2> QED
    BY <1>0, <1>1, <1>2, UpTo
<1>4. \A i \in 1..Len(s) : f[i - 1] \in A
  BY <1>3, <1>0
<1>5. f \in [0..Len(s) -> A]
  BY <1>3
<1> QED
  BY <1>4, <1>5, Zenon DEF IsLoop

\* The states that Without goes through.
Dropping(g, B, s, set) ==
  /\ g \in [0..Len(s) -> Seq(B)] /\ g[0] = <<>> /\ Without(s, set) = g[Len(s)]
  /\ \A i \in 1..Len(s) : g[i] = IF s[i] \in set THEN g[i - 1] ELSE Append(g[i - 1], s[i])

LEMMA WithoutLoop ==
  ASSUME NEW B, NEW s \in Seq(B), NEW set
  PROVE  \E g : Dropping(g, B, s, set)
<1> DEFINE F == [p \in Seq(B) \X B |-> IF p[2] \in set THEN p[1] ELSE Append(p[1], p[2])]
           G(g) == [i \in 0..Len(s) |->
                      IF i = 0 THEN <<>>
                      ELSE IF s[i] \in set THEN g[i - 1] ELSE Append(g[i - 1], s[i])]
           f == CHOOSE g : g = G(g)
<1>0. Len(s) \in Nat /\ 0 \in 0..Len(s) /\ <<>> \in Seq(B)
  OBVIOUS
<1>1. F \in [Seq(B) \X B -> Seq(B)]
  OBVIOUS
<1>2. PICK g \in [0..Len(s) -> Seq(B)] :
        g[0] = <<>> /\ \A i \in 1..Len(s) : g[i] = F[<<g[i - 1], s[i]>>]
  <2> HIDE DEF F
  <2>1. \E g : IsLoop(g, Seq(B), <<>>, F, s)
    BY <1>0, <1>1, LoopExists, Zenon
  <2> QED
    BY <2>1, Zenon DEF IsLoop
<1>3. \A i \in 1..Len(s) : s[i] \in B /\ i \in 0..Len(s) /\ i # 0 /\ i - 1 \in 0..Len(s)
  OBVIOUS
<1>4. \A i \in 1..Len(s) : g[i] = IF s[i] \in set THEN g[i - 1] ELSE Append(g[i - 1], s[i])
  BY <1>2, <1>3, Zenon
<1>5. g = G(g)
  <2>1. \A i \in 0..Len(s) : i = 0 \/ i \in 1..Len(s)
    BY <1>0
  <2>2. \A i \in 0..Len(s) :
          g[i] = IF i = 0 THEN <<>>
                 ELSE IF s[i] \in set THEN g[i - 1] ELSE Append(g[i - 1], s[i])
    BY <1>2, <1>4, <2>1, Zenon
  <2> QED
    BY <2>2
<1>6. f = G(f)
  BY <1>5, Zenon
<1> HIDE DEF f
<1>7. f = [i \in 0..Len(s) |-> f[i]]
  BY <1>6
<1>8. /\ f[0] = <<>>
      /\ \A i \in 1..Len(s) : f[i] = IF s[i] \in set THEN f[i - 1] ELSE Append(f[i - 1], s[i])
  <2>1. \A i \in 0..Len(s) :
          f[i] = IF i = 0 THEN <<>>
                 ELSE IF s[i] \in set THEN f[i - 1] ELSE Append(f[i - 1], s[i])
    BY <1>6, Zenon
  <2> QED
    BY <2>1, <1>0, <1>3, Zenon
<1>9. f \in [0..Len(s) -> Seq(B)]
  <2>1. \A i \in 1..Len(s) : f[i - 1] \in Seq(B) => f[i] = F[<<f[i - 1], s[i]>>]
    BY <1>3, <1>8
  <2> HIDE DEF F
  <2>2. IsLoop(f, Seq(B), <<>>, F, s)
    BY <2>1, <1>0, <1>1, <1>7, <1>8, LoopIs, Zenon
  <2> QED
    BY <2>2 DEF IsLoop
<1>10. Without(s, set) = f[Len(s)]
  BY DEF Without, f
<1> QED
  BY <1>8, <1>9, <1>10 DEF Dropping

LEMMA Appended ==
  ASSUME NEW B, NEW q \in Seq(B), NEW x \in B
  PROVE  /\ Append(q, x) \in Seq(B) /\ Len(Append(q, x)) = Len(q) + 1
         /\ \A i \in 1..Len(q) : Append(q, x)[i] = q[i]
         /\ Append(q, x)[Len(q) + 1] = x
         /\ Members(Append(q, x)) = Members(q) \cup {x}
<1>1. /\ Append(q, x) \in Seq(B) /\ Len(q) \in Nat /\ Len(Append(q, x)) = Len(q) + 1
      /\ DOMAIN q = 1..Len(q) /\ DOMAIN Append(q, x) = 1..(Len(q) + 1)
  OBVIOUS
<1>2. /\ \A i \in 1..Len(q) : Append(q, x)[i] = q[i]
      /\ Append(q, x)[Len(q) + 1] = x
  OBVIOUS
<1>3. \A i \in 1..(Len(q) + 1) : i \in 1..Len(q) \/ i = Len(q) + 1
  BY <1>1
<1>4. Len(q) + 1 \in 1..(Len(q) + 1) /\ \A i \in 1..Len(q) : i \in 1..(Len(q) + 1)
  BY <1>1
<1>5. Members(Append(q, x)) \subseteq Members(q) \cup {x}
  BY <1>1, <1>2, <1>3 DEF Members
<1>6. Members(q) \subseteq Members(Append(q, x)) /\ x \in Members(Append(q, x))
  <2>1. \A i \in DOMAIN q : q[i] \in Members(Append(q, x))
    BY <1>1, <1>2, <1>4 DEF Members
  <2>2. x \in Members(Append(q, x))
    BY <1>1, <1>2, <1>4 DEF Members
  <2> QED
    BY <2>1, <2>2 DEF Members
<1> QED
  BY <1>1, <1>2, <1>5, <1>6

\* Without drops the members of set, and only those.
LEMMA WithoutIs ==
  ASSUME NEW B, NEW s \in Seq(B), NEW set
  PROVE  /\ Without(s, set) \in Seq(B)
         /\ Members(Without(s, set)) = Members(s) \ set
         /\ IF Members(s) \cap set = {} THEN Without(s, set) = s
            ELSE Len(Without(s, set)) < Len(s)
<1>0. Len(s) \in Nat /\ DOMAIN s = 1..Len(s) /\ \A i \in 1..Len(s) : s[i] \in B
  OBVIOUS
<1>1. PICK g \in [0..Len(s) -> Seq(B)] :
        /\ g[0] = <<>> /\ Without(s, set) = g[Len(s)]
        /\ \A i \in 1..Len(s) :
             g[i] = IF s[i] \in set THEN g[i - 1] ELSE Append(g[i - 1], s[i])
  <2>1. \E g : Dropping(g, B, s, set)
    BY WithoutLoop
  <2> QED
    BY <2>1, Zenon DEF Dropping
<1>2. /\ Len(s) \in 0..Len(s) /\ 0 \in 0..Len(s) /\ Len(<<>>) = 0
      /\ \A i \in 1..Len(s) : i \in 0..Len(s) /\ i - 1 \in 0..Len(s)
  BY <1>0
<1> DEFINE Before(i) == {s[k] : k \in 1..i}
           Good(i) == /\ Members(g[i]) = Before(i) \ set
                      /\ Len(g[i]) <= i /\ (Before(i) \cap set # {} => Len(g[i]) < i)
                      /\ Before(i) \cap set = {} => Len(g[i]) = i /\ \A k \in 1..i : g[i][k] = s[k]
           T == {i \in 0..Len(s) : Good(i)}
<1>3. 0 \in T
  <2>1. Before(0) = {} /\ Members(<<>>) = {}
    BY DEF Members
  <2> QED
    BY <2>1, <1>1, <1>2
<1>4. ASSUME NEW i \in 1..Len(s), i - 1 \in T PROVE i \in T
  <2>1. /\ Before(i) = Before(i - 1) \cup {s[i]}
        /\ i - 1 \in Nat /\ \A k \in 1..i : k \in 1..(i - 1) \/ k = i
    <3>1. \A k \in 1..i : k \in 1..(i - 1) \/ k = i
      OBVIOUS
    <3>2. i \in 1..i /\ \A k \in 1..(i - 1) : k \in 1..i
      OBVIOUS
    <3> QED
      BY <3>1, <3>2
  <2>2. Good(i - 1) /\ g[i - 1] \in Seq(B) /\ Len(g[i - 1]) \in Nat /\ s[i] \in B
    <3>1. Good(i - 1)
      BY <1>4, Zenon
    <3>2. g[i - 1] \in Seq(B)
      BY <1>2, Zenon
    <3>3. Len(g[i - 1]) \in Nat
      BY <3>2
    <3>4. s[i] \in B
      BY <1>0, Zenon
    <3> HIDE DEF Good
    <3> QED
      BY <3>1, <3>2, <3>3, <3>4, Zenon
  <2> HIDE DEF Before
  <2>3. CASE s[i] \in set
    <3>1. g[i] = g[i - 1]
      BY <2>3, <1>1
    <3>2. Before(i) \cap set # {} /\ Before(i) \ set = Before(i - 1) \ set
      BY <2>1, <2>3
    <3>3. Len(g[i]) < i
      BY <3>1, <2>2
    <3> QED
      BY <3>1, <3>2, <3>3, <2>2, <1>2
  <2>4. CASE s[i] \notin set
    <3>1. g[i] = Append(g[i - 1], s[i])
      BY <2>4, <1>1, Zenon
    <3>2. /\ Members(g[i]) = Members(g[i - 1]) \cup {s[i]} /\ Len(g[i]) = Len(g[i - 1]) + 1
          /\ \A k \in 1..Len(g[i - 1]) : g[i][k] = g[i - 1][k]
          /\ g[i][Len(g[i - 1]) + 1] = s[i]
      BY <3>1, <2>2, Appended
    <3>3. Members(g[i]) = Before(i) \ set
      BY <3>2, <2>1, <2>2, <2>4
    <3>4. Before(i) \cap set = Before(i - 1) \cap set
      BY <2>1, <2>4
    <3>5. Len(g[i]) <= i /\ (Before(i) \cap set # {} => Len(g[i]) < i)
      BY <3>4, <3>2, <2>2
    <3>6. ASSUME Before(i) \cap set = {}
          PROVE  Len(g[i]) = i /\ \A k \in 1..i : g[i][k] = s[k]
      <4>1. Len(g[i - 1]) = i - 1 /\ \A k \in 1..(i - 1) : g[i - 1][k] = s[k]
        BY <3>6, <3>4, <2>2
      <4> QED
        BY <4>1, <3>2, <2>1
    <3> QED
      BY <3>3, <3>5, <3>6, <1>2
  <2> QED
    BY <2>3, <2>4
<1>5. Good(Len(s))
  <2> HIDE DEF T
  <2>1. 0..Len(s) \subseteq T
    BY <1>3, <1>4, <1>0, UpTo, Zenon
  <2> QED
    BY <2>1, <1>2 DEF T
<1>6. Before(Len(s)) = Members(s)
  BY <1>0 DEF Members
<1>7. Without(s, set) = g[Len(s)] /\ g[Len(s)] \in Seq(B)
  BY <1>1, <1>2
<1>8. ASSUME Members(s) \cap set = {} PROVE g[Len(s)] = s
  <2>1. Len(g[Len(s)]) = Len(s) /\ \A k \in 1..Len(s) : g[Len(s)][k] = s[k]
    BY <1>5, <1>6, <1>8
  <2> QED
    BY <2>1, <1>7
<1> HIDE DEF Before
<1> QED
  BY <1>5, <1>6, <1>7, <1>8

LEMMA Indexed ==
  ASSUME NEW B, NEW q \in Seq(B)
  PROVE  /\ Len(q) \in Nat /\ DOMAIN q = 1..Len(q)
         /\ \A k \in 1..Len(q) : q[k] \in B
OBVIOUS

LEMMA PairIsWord ==
  ASSUME NEW B, NEW a \in B, NEW b \in B
  PROVE  <<a, b>> \in Seq(B)
OBVIOUS

LEMMA Joined ==
  ASSUME NEW B, NEW s \in Seq(B), NEW u \in Seq(B)
  PROVE  s \o u \in Seq(B) /\ Members(s \o u) = Members(s) \cup Members(u)
<1>1. /\ Len(s) \in Nat /\ Len(u) \in Nat /\ DOMAIN s = 1..Len(s) /\ DOMAIN u = 1..Len(u)
      /\ DOMAIN (s \o u) = 1..(Len(s) + Len(u)) /\ s \o u \in Seq(B)
  OBVIOUS
<1>2. /\ \A i \in 1..Len(s) : (s \o u)[i] = s[i]
      /\ \A i \in 1..Len(u) : (s \o u)[Len(s) + i] = u[i]
  OBVIOUS
<1>3. \A i \in DOMAIN (s \o u) : (s \o u)[i] \in Members(s) \cup Members(u)
  <2> TAKE i \in DOMAIN (s \o u)
  <2>1. CASE i <= Len(s)
    BY <2>1, <1>1, <1>2 DEF Members
  <2>2. CASE i > Len(s)
    <3>1. i - Len(s) \in 1..Len(u) /\ Len(s) + (i - Len(s)) = i
      BY <2>2, <1>1
    <3> QED
      BY <3>1, <1>1, <1>2 DEF Members
  <2> QED
    BY <2>1, <2>2, <1>1
<1>4. \A i \in DOMAIN s : s[i] \in Members(s \o u)
  <2>1. \A i \in DOMAIN s : i \in DOMAIN (s \o u) /\ (s \o u)[i] = s[i]
    BY <1>1, <1>2
  <2> QED
    BY <2>1 DEF Members
<1>5. \A i \in DOMAIN u : u[i] \in Members(s \o u)
  <2>1. \A i \in DOMAIN u : Len(s) + i \in DOMAIN (s \o u) /\ (s \o u)[Len(s) + i] = u[i]
    BY <1>1, <1>2
  <2> QED
    BY <2>1, Zenon DEF Members
<1>6. Members(s) \subseteq Members(s \o u) /\ Members(u) \subseteq Members(s \o u)
  BY <1>4, <1>5, Zenon DEF Members
<1>7. Members(s \o u) \subseteq Members(s) \cup Members(u)
  <2>1. \A w \in Members(s \o u) : \E i \in DOMAIN (s \o u) : w = (s \o u)[i]
    BY Zenon DEF Members
  <2> QED
    BY <2>1, <1>3
<1> QED
  BY <1>1, <1>6, <1>7

\* The lines of a list, without its comments.
LEMMA LinesAre ==
  ASSUME NEW fs \in FileSystems, NEW lines \in Seq(STRING)
  PROVE  /\ Lines(fs, lines) \in Seq(Word)
         /\ Members(Lines(fs, lines)) = {<<fs, line>> : line \in Members(lines) \ Comments}
<1> DEFINE kept == Without(lines, Comments)
<1>1. kept \in Seq(STRING) /\ Members(kept) = Members(lines) \ Comments
  BY WithoutIs, Zenon
<1>2. Lines(fs, lines) = [i \in DOMAIN kept |-> <<fs, kept[i]>>]
  BY DEF Lines
<1> HIDE DEF kept
<1>3. Len(kept) \in Nat /\ DOMAIN kept = 1..Len(kept) /\ \A i \in 1..Len(kept) : kept[i] \in STRING
  BY <1>1, Indexed, Zenon
<1>4. fs \in STRING
  BY TreeAssumption, Zenon
<1>5. \A i \in 1..Len(kept) : <<fs, kept[i]>> \in Word
  BY <1>3, <1>4, PairIsWord, Zenon DEF Word
<1>6. Lines(fs, lines) \in Seq(Word)
  <2> HIDE DEF Word
  <2> QED
    BY <1>2, <1>3, <1>5
<1>7. Members(Lines(fs, lines)) = {<<fs, line>> : line \in Members(kept)}
  BY <1>2 DEF Members
<1> QED
  BY <1>1, <1>6, <1>7

LEMMA InsideIsIn == \A w : Inside(w) \subseteq AllInside
BY DEF Inside, AllInside, IsList

\* Reached is the least closed set.
LEMMA ReachedIsClosed ==
  ASSUME NEW words
  PROVE  words \subseteq Reached(words) /\ Closed(Reached(words))
<1>1. words \subseteq Reached(words)
  BY DEF Reached
<1>2. ASSUME NEW w \in Reached(words), NEW v \in Inside(w)
      PROVE  v \in Reached(words)
  <2>1. v \in words \cup AllInside
    BY <1>2, InsideIsIn
  <2>2. ASSUME NEW set \in SUBSET (words \cup AllInside), words \subseteq set, Closed(set)
        PROVE  v \in set
    <3>1. w \in set
      BY <2>2 DEF Reached
    <3> QED
      BY <3>1, <2>2, <1>2 DEF Closed
  <2> QED
    BY <2>1, <2>2 DEF Reached
<1> QED
  BY <1>1, <1>2 DEF Closed

LEMMA ReachedIsLeast ==
  ASSUME NEW words, NEW set, words \subseteq set, Closed(set)
  PROVE  Reached(words) \subseteq set
<1> DEFINE part == set \cap (words \cup AllInside)
<1>1. Closed(part)
  BY InsideIsIn DEF Closed
<1>2. part \in SUBSET (words \cup AllInside) /\ words \subseteq part
  OBVIOUS
<1>3. \A w \in Reached(words) : w \in part
  <2> HIDE DEF part
  <2> QED
    BY <1>1, <1>2 DEF Reached
<1> QED
  BY <1>3

-----------------------------------------------------------------------------
(***************************************************************************)
(* LTM's parser and getConfigs: what they find for a command line names,   *)
(* read again by the VM, what the words of the command line name.          *)
(***************************************************************************)

Configs == [FileSystems -> Seq(STRING)]
Asking == Word \ {<<>>}

LEMMA FoundType ==
  ASSUME NEW w \in Asking
  PROVE  Found(w)[1] \in FileSystems /\ Found(w)[2] \in Seq(STRING)
<1> DEFINE path == IF Len(w) = 1 THEN <<PrimaryFS, w[1]>> ELSE w
<1>1. CASE path \in DOMAIN Lists
  <2>1. Found(w) = <<path[1], Lists[path]>>
    BY <1>1 DEF Found
  <2>2. path[1] \in FileSystems /\ Lists[path] \in Seq(STRING)
    <3> HIDE DEF path
    <3> QED
      BY <1>1, TreeAssumption
  <2> QED
    BY <2>1, <2>2
<1>2. CASE path \notin DOMAIN Lists /\ path \in Files
  <2>1. Found(w) = <<path[1], <<path[2]>> >>
    BY <1>2 DEF Found
  <2>2. path[1] \in FileSystems /\ path[2] \in STRING
    <3> HIDE DEF path
    <3> QED
      BY <1>2, TreeAssumption
  <2> HIDE DEF path
  <2> QED
    BY <2>1, <2>2
<1>3. CASE path \notin DOMAIN Lists /\ path \notin Files
  <2>1. Found(w) = <<PrimaryFS, <<>> >>
    BY <1>3 DEF Found
  <2>2. PrimaryFS \in FileSystems
    BY TreeAssumption, Zenon
  <2>3. \A B : <<>> \in Seq(B)
    OBVIOUS
  <2>4. Found(w)[1] = PrimaryFS /\ Found(w)[2] = <<>>
    BY <2>1
  <2> QED
    BY <2>2, <2>3, <2>4, Zenon
<1> QED
  BY <1>1, <1>2, <1>3

\* The states that the loop of processConfigs goes through.
Adding(g, words) ==
  /\ g \in [0..Len(words) -> Configs] /\ g[0] = NoConfigs
  /\ allConfigs(words) = g[Len(words)]
  /\ \A i \in 1..Len(words) : g[i] = singleConfig(g[i - 1], words[i])

LEMMA SingleType ==
  ASSUME NEW configs \in Configs, NEW w \in Asking
  PROVE  singleConfig(configs, w) \in Configs
<1>1. Found(w)[1] \in FileSystems /\ Found(w)[2] \in Seq(STRING)
  BY FoundType
<1>2. configs[Found(w)[1]] \in Seq(STRING)
  BY <1>1 DEF Configs
<1>3. configs[Found(w)[1]] \o Found(w)[2] \in Seq(STRING)
  BY <1>1, <1>2
<1> QED
  BY <1>1, <1>3 DEF singleConfig, Configs

LEMMA ConfigsLoop ==
  ASSUME NEW words \in Seq(Asking)
  PROVE  \E g : Adding(g, words)
<1> DEFINE F == [p \in Configs \X Asking |-> singleConfig(p[1], p[2])]
           G(g) == [i \in 0..Len(words) |->
                      IF i = 0 THEN NoConfigs ELSE singleConfig(g[i - 1], words[i])]
           f == CHOOSE g : g = G(g)
<1>0. Len(words) \in Nat /\ 0 \in 0..Len(words)
  OBVIOUS
<1>1. F \in [Configs \X Asking -> Configs]
  BY SingleType
<1>2. NoConfigs \in Configs
  BY DEF NoConfigs, Configs
<1>3. \A i \in 1..Len(words) :
        words[i] \in Asking /\ i \in 0..Len(words) /\ i # 0 /\ i - 1 \in 0..Len(words)
  OBVIOUS
<1>4. PICK g \in [0..Len(words) -> Configs] :
        g[0] = NoConfigs /\ \A i \in 1..Len(words) : g[i] = F[<<g[i - 1], words[i]>>]
  <2> HIDE DEF F
  <2>1. \E g : IsLoop(g, Configs, NoConfigs, F, words)
    BY <1>1, <1>2, LoopExists, Zenon
  <2> QED
    BY <2>1, Zenon DEF IsLoop
<1>5. g = G(g)
  <2>1. \A i \in 0..Len(words) : i = 0 \/ i \in 1..Len(words)
    BY <1>0
  <2>2. \A i \in 1..Len(words) : g[i] = singleConfig(g[i - 1], words[i])
    BY <1>3, <1>4, Zenon
  <2>3. \A i \in 0..Len(words) :
          g[i] = IF i = 0 THEN NoConfigs ELSE singleConfig(g[i - 1], words[i])
    BY <1>4, <2>1, <2>2, Zenon
  <2> QED
    BY <2>3
<1>6. f = G(f)
  BY <1>5, Zenon
<1> HIDE DEF f
<1>7. f = [i \in 0..Len(words) |-> f[i]]
  BY <1>6
<1>8. f[0] = NoConfigs /\ \A i \in 1..Len(words) : f[i] = singleConfig(f[i - 1], words[i])
  <2>1. \A i \in 0..Len(words) :
          f[i] = IF i = 0 THEN NoConfigs ELSE singleConfig(f[i - 1], words[i])
    BY <1>6, Zenon
  <2> QED
    BY <2>1, <1>0, <1>3, Zenon
<1>9. f \in [0..Len(words) -> Configs]
  <2>1. \A i \in 1..Len(words) : f[i - 1] \in Configs => f[i] = F[<<f[i - 1], words[i]>>]
    BY <1>3, <1>8
  <2> HIDE DEF F
  <2>2. IsLoop(f, Configs, NoConfigs, F, words)
    BY <2>1, <1>1, <1>2, <1>7, <1>8, LoopIs, Zenon
  <2> QED
    BY <2>2 DEF IsLoop
<1>10. allConfigs(words) = f[Len(words)]
  BY DEF allConfigs, f
<1> QED
  BY <1>8, <1>9, <1>10 DEF Adding

\* The words <<fs, line>> of a map of configurations, and those that some words
\* of the command line lead to.
Held(configs) == UNION {{<<fs, line>> : line \in Members(configs[fs])} : fs \in FileSystems}
AllFound(words) == UNION {{<<Found(w)[1], line>> : line \in Members(Found(w)[2])} : w \in words}

LEMMA SingleAdds ==
  ASSUME NEW configs \in Configs, NEW w \in Asking
  PROVE  Held(singleConfig(configs, w)) = Held(configs) \cup AllFound({w})
<1> DEFINE fs0 == Found(w)[1]
           new == Found(w)[2]
           next == singleConfig(configs, w)
<1>1. fs0 \in FileSystems /\ new \in Seq(STRING)
  BY FoundType
<1>2. configs[fs0] \in Seq(STRING)
  BY <1>1 DEF Configs
<1>3. Members(configs[fs0] \o new) = Members(configs[fs0]) \cup Members(new)
  BY <1>1, <1>2, Joined
<1>4. next[fs0] = configs[fs0] \o new /\ \A fs \in FileSystems : fs # fs0 => next[fs] = configs[fs]
  BY <1>1, Zenon DEF singleConfig, Configs
<1>5. AllFound({w}) = {<<fs0, line>> : line \in Members(new)}
  BY DEF AllFound
<1> HIDE DEF fs0, new, next
<1>6. Held(next) \subseteq Held(configs) \cup AllFound({w})
  <2> SUFFICES ASSUME NEW fs \in FileSystems, NEW line \in Members(next[fs])
               PROVE  <<fs, line>> \in Held(configs) \cup AllFound({w})
    BY DEF Held
  <2>1. CASE fs = fs0
    <3>1. line \in Members(configs[fs0]) \/ line \in Members(new)
      BY <2>1, <1>3, <1>4
    <3>2. line \in Members(configs[fs0]) => <<fs0, line>> \in Held(configs)
      BY <1>1 DEF Held
    <3>3. line \in Members(new) => <<fs0, line>> \in AllFound({w})
      BY <1>5
    <3> QED
      BY <2>1, <3>1, <3>2, <3>3
  <2>2. CASE fs # fs0
    BY <2>2, <1>4 DEF Held
  <2> QED
    BY <2>1, <2>2
<1>7. Held(configs) \subseteq Held(next)
  <2> SUFFICES ASSUME NEW fs \in FileSystems, NEW line \in Members(configs[fs])
               PROVE  <<fs, line>> \in Held(next)
    BY DEF Held
  <2>1. line \in Members(next[fs])
    BY <1>3, <1>4, Zenon
  <2> QED
    BY <2>1 DEF Held
<1>8. AllFound({w}) \subseteq Held(next)
  <2> SUFFICES ASSUME NEW line \in Members(new) PROVE <<fs0, line>> \in Held(next)
    BY <1>5
  <2>1. line \in Members(next[fs0])
    BY <1>3, <1>4
  <2> QED
    BY <2>1, <1>1 DEF Held
<1> QED
  BY <1>6, <1>7, <1>8 DEF next

LEMMA NothingHeld == Held(NoConfigs) = {}
<1>1. \A fs \in FileSystems : Members(NoConfigs[fs]) = {}
  BY DEF NoConfigs, Members
<1> QED
  BY <1>1 DEF Held

\* processConfigs finds what each word of -c leads to, and nothing else.
LEMMA AllConfigsIs ==
  ASSUME NEW words \in Seq(Asking)
  PROVE  allConfigs(words) \in Configs /\ Held(allConfigs(words)) = AllFound(Members(words))
<1>0. Len(words) \in Nat /\ DOMAIN words = 1..Len(words) /\ \A i \in 1..Len(words) : words[i] \in Asking
  OBVIOUS
<1>1. PICK g \in [0..Len(words) -> Configs] :
        /\ g[0] = NoConfigs /\ allConfigs(words) = g[Len(words)]
        /\ \A i \in 1..Len(words) : g[i] = singleConfig(g[i - 1], words[i])
  <2>1. \E g : Adding(g, words)
    BY ConfigsLoop
  <2> QED
    BY <2>1, Zenon DEF Adding
<1>2. /\ Len(words) \in 0..Len(words) /\ 0 \in 0..Len(words)
      /\ \A i \in 1..Len(words) : i \in 0..Len(words) /\ i - 1 \in 0..Len(words)
  BY <1>0
<1> DEFINE Before(i) == {words[k] : k \in 1..i}
           T == {i \in 0..Len(words) : Held(g[i]) = AllFound(Before(i))}
<1>3. 0 \in T
  <2>1. Before(0) = {} /\ AllFound({}) = {}
    BY DEF AllFound
  <2> QED
    BY <2>1, <1>1, <1>2, NothingHeld
<1>4. ASSUME NEW i \in 1..Len(words), i - 1 \in T PROVE i \in T
  <2>1. Before(i) = Before(i - 1) \cup {words[i]}
    <3>1. \A k \in 1..i : k \in 1..(i - 1) \/ k = i
      OBVIOUS
    <3>2. i \in 1..i /\ \A k \in 1..(i - 1) : k \in 1..i
      OBVIOUS
    <3> QED
      BY <3>1, <3>2
  <2> HIDE DEF Before
  <2>2. g[i] = singleConfig(g[i - 1], words[i]) /\ g[i - 1] \in Configs /\ words[i] \in Asking
    BY <1>0, <1>1, <1>2
  <2>3. Held(g[i]) = Held(g[i - 1]) \cup AllFound({words[i]})
    BY <2>2, SingleAdds
  <2>4. AllFound(Before(i - 1) \cup {words[i]}) = AllFound(Before(i - 1)) \cup AllFound({words[i]})
    BY DEF AllFound
  <2> QED
    BY <2>1, <2>3, <2>4, <1>4, <1>2
<1>5. Held(g[Len(words)]) = AllFound(Before(Len(words)))
  <2> HIDE DEF T
  <2>1. 0..Len(words) \subseteq T
    BY <1>3, <1>4, <1>0, UpTo, Zenon
  <2> QED
    BY <2>1, <1>2 DEF T
<1>6. Before(Len(words)) = Members(words)
  BY <1>0 DEF Members
<1> QED
  BY <1>1, <1>2, <1>5, <1>6, Zenon

\* The loop that joins the sequences of s, one after the other.
Joining(g, s) == g = [i \in 0..Len(s) |-> IF i = 0 THEN <<>> ELSE g[i - 1] \o s[i]]

LEMMA JoiningExists ==
  ASSUME NEW B, NEW s \in Seq(Seq(B))
  PROVE  \E g : Joining(g, s)
<1> DEFINE F == [p \in Seq(B) \X Seq(B) |-> p[1] \o p[2]]
<1>0. /\ Len(s) \in Nat /\ <<>> \in Seq(B) /\ \A i \in 1..Len(s) : s[i] \in Seq(B)
      /\ \A i \in 0..Len(s) : i = 0 \/ (i \in 1..Len(s) /\ i - 1 \in 0..Len(s))
  OBVIOUS
<1>1. F \in [Seq(B) \X Seq(B) -> Seq(B)]
  OBVIOUS
<1>2. PICK g \in [0..Len(s) -> Seq(B)] :
        g[0] = <<>> /\ \A i \in 1..Len(s) : g[i] = F[<<g[i - 1], s[i]>>]
  <2> HIDE DEF F
  <2>1. \E g : IsLoop(g, Seq(B), <<>>, F, s)
    BY <1>0, <1>1, LoopExists, Zenon
  <2> QED
    BY <2>1, Zenon DEF IsLoop
<1>3. \A i \in 1..Len(s) : i - 1 \in 0..Len(s)
  BY <1>0
<1>4. \A i \in 1..Len(s) : g[i] = g[i - 1] \o s[i]
  BY <1>0, <1>2, <1>3, Zenon
<1>5. \A i \in 0..Len(s) : g[i] = IF i = 0 THEN <<>> ELSE g[i - 1] \o s[i]
  BY <1>0, <1>2, <1>4, Zenon
<1>6. Joining(g, s)
  BY <1>2, <1>5, Zenon DEF Joining
<1> QED
  BY <1>6

LEMMA JoiningIs ==
  ASSUME NEW B, NEW s \in Seq(Seq(B)), NEW f, Joining(f, s)
  PROVE  f[Len(s)] \in Seq(B) /\ Members(f[Len(s)]) = UNION {Members(s[i]) : i \in DOMAIN s}
<1>0. /\ Len(s) \in Nat /\ DOMAIN s = 1..Len(s)
      /\ <<>> \in Seq(B) /\ \A i \in 1..Len(s) : s[i] \in Seq(B)
  OBVIOUS
<1>1. /\ 0 \in 0..Len(s) /\ Len(s) \in 0..Len(s)
      /\ \A i \in 1..Len(s) : i \in 0..Len(s) /\ i # 0
  BY <1>0
<1>2. /\ f[0] = <<>>
      /\ \A i \in 1..Len(s) : f[i] = f[i - 1] \o s[i]
  <2>1. \A i \in 0..Len(s) : f[i] = IF i = 0 THEN <<>> ELSE f[i - 1] \o s[i]
    BY Zenon DEF Joining
  <2> QED
    BY <2>1, <1>1, Zenon
<1> DEFINE Before(i) == UNION {Members(s[k]) : k \in 1..i}
           T == {i \in 0..Len(s) : f[i] \in Seq(B) /\ Members(f[i]) = Before(i)}
<1>3. 0 \in T
  <2>1. Members(<<>>) = {} /\ Before(0) = {}
    BY DEF Members
  <2> QED
    BY <2>1, <1>0, <1>1, <1>2, Zenon
<1>4. ASSUME NEW i \in 1..Len(s), i - 1 \in T PROVE i \in T
  <2>1. Before(i) = Before(i - 1) \cup Members(s[i])
    <3>1. \A k \in 1..i : k \in 1..(i - 1) \/ k = i
      OBVIOUS
    <3>2. i \in 1..i /\ \A k \in 1..(i - 1) : k \in 1..i
      OBVIOUS
    <3> QED
      BY <3>1, <3>2
  <2> HIDE DEF Before
  <2>2. f[i - 1] \in Seq(B) /\ Members(f[i - 1]) = Before(i - 1)
    BY <1>4
  <2>3. f[i] = f[i - 1] \o s[i] /\ s[i] \in Seq(B)
    BY <1>0, <1>2
  <2>4. f[i] \in Seq(B) /\ Members(f[i]) = Members(f[i - 1]) \cup Members(s[i])
    BY <2>2, <2>3, Joined
  <2>5. Members(f[i]) = Before(i)
    BY <2>1, <2>2, <2>4
  <2> QED
    BY <2>4, <2>5, <1>1, Zenon
<1>5. Len(s) \in T
  <2> HIDE DEF T
  <2>1. 0..Len(s) \subseteq T
    BY <1>3, <1>4, <1>0, UpTo, Zenon
  <2> QED
    BY <2>1, <1>1, Zenon
<1>6. Before(Len(s)) = UNION {Members(s[i]) : i \in DOMAIN s}
  BY <1>0
<1> QED
  BY <1>5, <1>6, Zenon

\* getConfigs names every configuration of the map, in whatever order.
LEMMA GetConfigsIs ==
  ASSUME NEW configs \in Configs, NEW order \in Orders
  PROVE  /\ getConfigs(configs, order) \in Seq(Word)
         /\ Members(getConfigs(configs, order)) = Held(configs)
<1> DEFINE n == Cardinality(FileSystems)
           of(fs) == [k \in DOMAIN configs[fs] |-> <<fs, configs[fs][k]>>]
           s == [i \in DOMAIN order |-> of(order[i])]
<1>1. n \in Nat /\ order \in [1..n -> FileSystems] /\ Members(order) = FileSystems
  BY TreeAssumption DEF Orders
<1>2. DOMAIN order = 1..n /\ \A i \in 1..n : order[i] \in FileSystems
  BY <1>1
<1>3. ASSUME NEW fs \in FileSystems
      PROVE  of(fs) \in Seq(Word) /\ Members(of(fs)) = {<<fs, line>> : line \in Members(configs[fs])}
  <2>1. /\ fs \in STRING /\ configs[fs] \in Seq(STRING)
        /\ DOMAIN configs[fs] = 1..Len(configs[fs]) /\ Len(configs[fs]) \in Nat
    <3>1. fs \in STRING
      BY TreeAssumption, Zenon
    <3>2. configs[fs] \in Seq(STRING)
      BY Zenon DEF Configs
    <3> QED
      BY <3>1, <3>2, Indexed, Zenon
  <2>2. \A k \in 1..Len(configs[fs]) : <<fs, configs[fs][k]>> \in Word
    <3>1. \A k \in 1..Len(configs[fs]) : configs[fs][k] \in STRING
      BY <2>1, Indexed, Zenon
    <3>2. \A a, b \in STRING : <<a, b>> \in Seq(STRING)
      BY PairIsWord, Zenon
    <3> QED
      BY <2>1, <3>1, <3>2, Zenon DEF Word
  <2>3. /\ DOMAIN of(fs) = DOMAIN configs[fs] /\ of(fs) = [k \in DOMAIN of(fs) |-> of(fs)[k]]
        /\ \A k \in DOMAIN configs[fs] : of(fs)[k] = <<fs, configs[fs][k]>>
    BY Zenon
  <2> HIDE DEF of
  <2>4. of(fs) \in Seq(Word)
    <3>1. \A k \in 1..Len(configs[fs]) : of(fs)[k] \in Word
      BY <2>1, <2>2, <2>3, Zenon
    <3>2. \A B : \A n1 \in Nat : \A q \in [1..n1 -> B] : q \in Seq(B)
      OBVIOUS
    <3>3. of(fs) \in [1..Len(configs[fs]) -> Word]
      BY <2>1, <2>3, <3>1, Zenon
    <3> QED
      BY <2>1, <3>2, <3>3, Zenon
  <2>5. Members(of(fs)) = {<<fs, line>> : line \in Members(configs[fs])}
    BY <2>3 DEF Members
  <2> QED
    BY <2>4, <2>5
<1> HIDE DEF of
<1>4. s \in Seq(Seq(Word)) /\ DOMAIN s = 1..n /\ \A i \in 1..n : s[i] = of(order[i])
  <2> DEFINE A == Seq(Word)
  <2>1. \A i \in 1..n : of(order[i]) \in A
    BY <1>2, <1>3
  <2> HIDE DEF A, n
  <2>2. s \in Seq(A)
    BY <1>1, <1>2, <2>1
  <2>3. DOMAIN s = 1..n /\ \A i \in 1..n : s[i] = of(order[i])
    BY <1>2
  <2> QED
    BY <2>2, <2>3 DEF A
<1>5. Len(order) = n /\ Len(s) = n
  <2> HIDE DEF s, n
  <2>1. order \in Seq(FileSystems)
    BY <1>1
  <2> QED
    BY <1>1, <1>2, <1>4, <2>1
<1> DEFINE G(g) == [i \in 0..Len(order) |-> IF i = 0 THEN <<>> ELSE g[i - 1] \o of(order[i])]
           f == CHOOSE g : g = G(g)
<1>6. getConfigs(configs, order) = f[Len(order)]
  BY DEF getConfigs, of
<1> HIDE DEF s, n
<1>7. /\ getConfigs(configs, order) \in Seq(Word)
      /\ Members(getConfigs(configs, order)) = UNION {Members(s[i]) : i \in DOMAIN s}
  <2>1. ASSUME NEW g PROVE Joining(g, s) <=> g = G(g)
    <3>1. \A i \in 0..n : i = 0 \/ i \in 1..n
      BY <1>1
    <3>2. \A i \in 0..n : (IF i = 0 THEN <<>> ELSE g[i - 1] \o s[i])
                          = IF i = 0 THEN <<>> ELSE g[i - 1] \o of(order[i])
      BY <3>1, <1>4, Zenon
    <3>3. [i \in 0..n |-> IF i = 0 THEN <<>> ELSE g[i - 1] \o s[i]] = G(g)
      BY <3>2, <1>5
    <3> QED
      BY <3>3, <1>5, Zenon DEF Joining
  <2> HIDE DEF G
  <2>2. \E g : Joining(g, s)
    <3> HIDE DEF Word
    <3> QED
      BY <1>4, JoiningExists
  <2>3. f = G(f)
    BY <2>1, <2>2
  <2>4. Joining(f, s)
    BY <2>1, <2>3, Zenon
  <2> HIDE DEF f, Word
  <2>5. /\ f[Len(s)] \in Seq(Word)
        /\ Members(f[Len(s)]) = UNION {Members(s[i]) : i \in DOMAIN s}
    BY <2>4, <1>4, JoiningIs, Zenon
  <2> QED
    BY <2>5, <1>5, <1>6
<1>8. UNION {Members(s[i]) : i \in DOMAIN s} = Held(configs)
  <2>1. \A i \in 1..n : Members(s[i]) = {<<order[i], line>> : line \in Members(configs[order[i]])}
    BY <1>2, <1>3, <1>4
  <2>2. \A fs \in FileSystems : \E i \in 1..n : order[i] = fs
    BY <1>1, <1>2, Zenon DEF Members
  <2> DEFINE part(fs) == {<<fs, line>> : line \in Members(configs[fs])}
  <2>3. Held(configs) = UNION {part(fs) : fs \in FileSystems}
    BY DEF Held
  <2>4. \A i \in 1..n : Members(s[i]) = part(order[i])
    BY <2>1
  <2> HIDE DEF part
  <2> QED
    BY <2>2, <2>3, <2>4, <1>2, <1>4
<1> QED
  BY <1>7, <1>8

\* Accepted, index by index.
Paired(args) ==
  \A i \in 1..Len(args) :
    /\ args[i].kind = "-c" => i + 1 \in 1..Len(args) /\ args[i + 1].kind = "words"
    /\ args[i].kind = "words" => i - 1 \in 1..Len(args) /\ args[i - 1].kind = "-c"

Once(args) ==
  \A i, k \in 1..Len(args) :
    args[i].kind \in {"-c", "smoke"} /\ args[k].kind \in {"-c", "smoke"} => i = k

Bare(args) == \A i \in 1..Len(args) : args[i].kind # "words" => args[i].words = <<>>

Optioned(args) ==
  \A i \in 1..Len(args) :
    args[i].kind = "opt" => i + 1 \in 1..Len(args) /\ args[i + 1].kind = "other"

LEMMA AcceptedIs ==
  ASSUME NEW args, Accepted(args)
  PROVE  args \in Seq(Arguments) /\ Paired(args) /\ Once(args) /\ Bare(args) /\ Optioned(args)
<1> DEFINE kind(i) == IF i \in DOMAIN args THEN args[i].kind ELSE ""
<1>1. /\ args \in Seq(Arguments)
      /\ \A i \in DOMAIN args : kind(i) # "words" => args[i].words = <<>>
      /\ \A i \in 0..Len(args) : kind(i) = "-c" <=> kind(i + 1) = "words"
      /\ \A i \in DOMAIN args : kind(i) = "opt" => kind(i + 1) = "other"
      /\ \A i, k \in DOMAIN args : {kind(i), kind(k)} \subseteq {"-c", "smoke"} => i = k
  BY DEF Accepted
<1>2. Len(args) \in Nat /\ DOMAIN args = 1..Len(args)
  BY <1>1, Indexed
<1>3. /\ \A i \in 1..Len(args) : kind(i) = args[i].kind
      /\ \A i : i \notin 1..Len(args) => kind(i) = ""
  BY <1>2, Zenon
<1> HIDE DEF kind
<1>4. Bare(args)
  BY <1>1, <1>2, <1>3, Zenon DEF Bare
<1>5. Optioned(args)
  <2>1. ASSUME NEW i \in 1..Len(args), args[i].kind = "opt"
        PROVE  i + 1 \in 1..Len(args) /\ args[i + 1].kind = "other"
    <3>1. kind(i + 1) = "other"
      BY <2>1, <1>1, <1>2, <1>3, Zenon
    <3> QED
      BY <3>1, <1>3, Zenon
  <2> QED
    BY <2>1 DEF Optioned
<1>6. Once(args)
  <2>1. ASSUME NEW i \in 1..Len(args), NEW k \in 1..Len(args),
               args[i].kind \in {"-c", "smoke"}, args[k].kind \in {"-c", "smoke"}
        PROVE  i = k
    <3>1. {kind(i), kind(k)} \subseteq {"-c", "smoke"}
      BY <2>1, <1>3, Zenon
    <3> QED
      BY <3>1, <1>1, <1>2
  <2> QED
    BY <2>1 DEF Once
<1>7. Paired(args)
  <2> SUFFICES ASSUME NEW i \in 1..Len(args)
               PROVE  /\ args[i].kind = "-c" =>
                           i + 1 \in 1..Len(args) /\ args[i + 1].kind = "words"
                      /\ args[i].kind = "words" =>
                           i - 1 \in 1..Len(args) /\ args[i - 1].kind = "-c"
    BY DEF Paired
  <2>1. i \in 0..Len(args) /\ i - 1 \in 0..Len(args) /\ (i - 1) + 1 = i
    BY <1>2
  <2>2. ASSUME args[i].kind = "-c"
        PROVE  i + 1 \in 1..Len(args) /\ args[i + 1].kind = "words"
    <3>1. kind(i + 1) = "words"
      BY <2>1, <2>2, <1>1, <1>3, Zenon
    <3> QED
      BY <3>1, <1>3, Zenon
  <2>3. ASSUME args[i].kind = "words"
        PROVE  i - 1 \in 1..Len(args) /\ args[i - 1].kind = "-c"
    <3>1. kind(i - 1) = "-c"
      BY <2>1, <2>3, <1>1, <1>3, Zenon
    <3> QED
      BY <3>1, <1>3, Zenon
  <2> QED
    BY <2>2, <2>3
<1> QED
  BY <1>1, <1>4, <1>5, <1>6, <1>7

\* The arguments that tell which configurations are asked for.
Special == {"-c", "words", "smoke"}

\* None of them follows an option that sanitizeCmd takes to have an argument.
Unharmed(args) ==
  \A i \in 1..Len(args) :
    args[i].kind \in {"opt", "flag"} /\ i + 1 \in 1..Len(args) => args[i + 1].kind \notin Special

LEMMA NoneSwallowed ==
  ASSUME NEW args, Accepted(args), ~Swallowed(args)
  PROVE  Unharmed(args)
<1>1. args \in Seq(Arguments) /\ Paired(args) /\ Optioned(args)
  BY AcceptedIs
<1>2. Len(args) \in Nat
  BY <1>1
<1> SUFFICES ASSUME NEW i \in 1..Len(args), args[i].kind \in {"opt", "flag"},
                    i + 1 \in 1..Len(args)
             PROVE  args[i + 1].kind \notin Special
  BY DEF Unharmed
<1>3. CASE args[i].kind = "opt"
  BY <1>1, <1>3 DEF Optioned, Special
<1>4. CASE args[i].kind = "flag"
  <2>1. i \in 1..(Len(args) - 1) /\ (i + 1) - 1 = i
    BY <1>2
  <2>2. args[i + 1].kind \notin {"-c", "smoke"}
    BY <2>1, <1>4 DEF Swallowed
  <2>3. args[i + 1].kind # "words"
    BY <2>1, <1>1, <1>4 DEF Paired
  <2> QED
    BY <2>2, <2>3 DEF Special
<1> QED
  BY <1>3, <1>4

\* The states that the loop of sanitizeCmd goes through.
Cleaning == [skip : BOOLEAN, valid : Seq(Arguments)]

Turn(acc, arg) ==
  IF acc.skip \/ arg.kind \in {"bool", "opt", "flag"}
  THEN [skip |-> ~acc.skip /\ arg.kind \in {"opt", "flag"}, valid |-> acc.valid]
  ELSE [skip |-> FALSE, valid |-> Append(acc.valid, arg)]

Sanitizing(g, args) ==
  /\ g \in [0..Len(args) -> Cleaning] /\ g[0] = [skip |-> FALSE, valid |-> <<>>]
  /\ sanitizeCmd(args) = g[Len(args)].valid
  /\ \A i \in 1..Len(args) : g[i] = Turn(g[i - 1], args[i])

LEMMA TurnType ==
  ASSUME NEW acc \in Cleaning, NEW arg \in Arguments
  PROVE  Turn(acc, arg) \in Cleaning
<1>1. acc.skip \in BOOLEAN /\ acc.valid \in Seq(Arguments)
  BY Zenon DEF Cleaning
<1>2. Append(acc.valid, arg) \in Seq(Arguments)
  BY <1>1, Appended, Zenon
<1>3. (~acc.skip /\ arg.kind \in {"opt", "flag"}) \in BOOLEAN
  OBVIOUS
<1> QED
  BY <1>1, <1>2, <1>3, Zenon DEF Turn, Cleaning

LEMMA SanitizeLoop ==
  ASSUME NEW args \in Seq(Arguments)
  PROVE  \E g : Sanitizing(g, args)
<1> DEFINE base == [skip |-> FALSE, valid |-> <<>>]
           F == [p \in Cleaning \X Arguments |-> Turn(p[1], p[2])]
           G(g) == [i \in 0..Len(args) |->
                      IF i = 0 THEN [skip |-> FALSE, valid |-> <<>>]
                      ELSE IF g[i - 1].skip \/ args[i].kind \in {"bool", "opt", "flag"}
                      THEN [skip |-> ~g[i - 1].skip /\ args[i].kind \in {"opt", "flag"},
                            valid |-> g[i - 1].valid]
                      ELSE [skip |-> FALSE, valid |-> Append(g[i - 1].valid, args[i])]]
           f == CHOOSE g : g = G(g)
<1>0. Len(args) \in Nat /\ 0 \in 0..Len(args)
  OBVIOUS
<1>1. F \in [Cleaning \X Arguments -> Cleaning]
  BY TurnType
<1>2. base \in Cleaning
  <2>1. <<>> \in Seq(Arguments)
    OBVIOUS
  <2> QED
    BY <2>1 DEF Cleaning
<1>3. \A i \in 1..Len(args) :
        args[i] \in Arguments /\ i \in 0..Len(args) /\ i # 0 /\ i - 1 \in 0..Len(args)
  OBVIOUS
<1>4. PICK g \in [0..Len(args) -> Cleaning] :
        g[0] = base /\ \A i \in 1..Len(args) : g[i] = F[<<g[i - 1], args[i]>>]
  <2> HIDE DEF F, base
  <2>1. \E g : IsLoop(g, Cleaning, base, F, args)
    BY <1>1, <1>2, LoopExists, Zenon
  <2> QED
    BY <2>1, Zenon DEF IsLoop
<1>5. \A h : G(h) = [i \in 0..Len(args) |-> IF i = 0 THEN base ELSE Turn(h[i - 1], args[i])]
  BY Zenon DEF Turn
<1> HIDE DEF base
<1>6. g = G(g)
  <2>1. \A i \in 0..Len(args) : i = 0 \/ i \in 1..Len(args)
    BY <1>0
  <2>2. \A i \in 1..Len(args) : g[i] = Turn(g[i - 1], args[i])
    BY <1>3, <1>4
  <2>3. \A i \in 0..Len(args) : g[i] = IF i = 0 THEN base ELSE Turn(g[i - 1], args[i])
    BY <1>4, <2>1, <2>2, Zenon
  <2>4. g = [i \in 0..Len(args) |-> IF i = 0 THEN base ELSE Turn(g[i - 1], args[i])]
    BY <2>3
  <2> HIDE DEF G
  <2> QED
    BY <2>4, <1>5, Zenon
<1>7. f = G(f)
  BY <1>6, Zenon
<1>8. sanitizeCmd(args) = f[Len(args)].valid
  BY DEF sanitizeCmd
<1> HIDE DEF f, G
<1>9. f = [i \in 0..Len(args) |-> IF i = 0 THEN base ELSE Turn(f[i - 1], args[i])]
  BY <1>5, <1>7, Zenon
<1>10. f = [i \in 0..Len(args) |-> f[i]]
  BY <1>9
<1>11. f[0] = base /\ \A i \in 1..Len(args) : f[i] = Turn(f[i - 1], args[i])
  <2>1. \A i \in 0..Len(args) : f[i] = IF i = 0 THEN base ELSE Turn(f[i - 1], args[i])
    BY <1>9, Zenon
  <2> QED
    BY <2>1, <1>0, <1>3, Zenon
<1>12. f \in [0..Len(args) -> Cleaning]
  <2>1. \A i \in 1..Len(args) : f[i - 1] \in Cleaning => f[i] = F[<<f[i - 1], args[i]>>]
    BY <1>3, <1>11, Zenon
  <2> HIDE DEF F
  <2>2. IsLoop(f, Cleaning, base, F, args)
    BY <2>1, <1>1, <1>2, <1>10, <1>11, LoopIs, Zenon
  <2> QED
    BY <2>2 DEF IsLoop
<1> QED
  BY <1>8, <1>11, <1>12 DEF Sanitizing, base

\* Where sanitizeCmd is after the first i arguments.
Cleaned(args, i, acc) ==
  /\ acc.skip => i \in 1..Len(args) /\ args[i].kind \in {"opt", "flag"}
  /\ \A k \in 1..i : args[k].kind \in Special => args[k] \in Members(acc.valid)
  /\ \A j \in 1..Len(acc.valid) :
       /\ acc.valid[j].kind \notin {"bool", "opt", "flag"}
       /\ \E k \in 1..i : acc.valid[j] = args[k]
  /\ \A j \in 1..Len(acc.valid) : acc.valid[j].kind = "-c" =>
       IF j = Len(acc.valid) THEN i \in 1..Len(args) /\ args[i].kind = "-c"
       ELSE acc.valid[j + 1].kind = "words"
  /\ \A j \in 1..Len(acc.valid) : acc.valid[j].kind = "words" =>
       j - 1 \in 1..Len(acc.valid) /\ acc.valid[j - 1].kind = "-c"
  /\ Once(acc.valid)

\* An argument that is dropped.
LEMMA DropKeeps ==
  ASSUME NEW args \in Seq(Arguments), Unharmed(args), Paired(args),
         NEW i \in 1..Len(args), NEW acc \in Cleaning, Cleaned(args, i - 1, acc),
         acc.skip \/ args[i].kind \in {"bool", "opt", "flag"}
  PROVE  Cleaned(args, i, [skip |-> ~acc.skip /\ args[i].kind \in {"opt", "flag"}, valid |-> acc.valid])
<1> DEFINE new == [skip |-> ~acc.skip /\ args[i].kind \in {"opt", "flag"}, valid |-> acc.valid]
           v == acc.valid
<1>1. new.valid = v /\ (new.skip => args[i].kind \in {"opt", "flag"})
  BY Zenon
<1>2. /\ Len(args) \in Nat /\ (i = 1 \/ i - 1 \in 1..Len(args)) /\ (i - 1) + 1 = i
      /\ \A k \in 1..i : k \in 1..(i - 1) \/ k = i
      /\ \A k \in 1..(i - 1) : k \in 1..i
  OBVIOUS
<1>3. args[i].kind \notin Special
  <2>1. CASE acc.skip
    <3>1. i - 1 \in 1..Len(args) /\ args[i - 1].kind \in {"opt", "flag"}
      BY <2>1 DEF Cleaned
    <3> QED
      BY <3>1, <1>2 DEF Unharmed
  <2>2. CASE args[i].kind \in {"bool", "opt", "flag"}
    BY <2>2 DEF Special
  <2> QED
    BY <2>1, <2>2
<1>4. ASSUME i - 1 \in 1..Len(args) PROVE args[i - 1].kind # "-c"
  <2>1. args[i - 1].kind = "-c" => args[(i - 1) + 1].kind = "words"
    BY <1>4 DEF Paired
  <2> QED
    BY <2>1, <1>2, <1>3 DEF Special
<1>5. v \in Seq(Arguments) /\ Len(v) \in Nat
  BY DEF Cleaning
<1> HIDE DEF v, new
<1>6. /\ \A k \in 1..(i - 1) : args[k].kind \in Special => args[k] \in Members(v)
      /\ \A j \in 1..Len(v) :
           v[j].kind \notin {"bool", "opt", "flag"} /\ \E k \in 1..(i - 1) : v[j] = args[k]
      /\ \A j \in 1..Len(v) : v[j].kind = "-c" =>
           IF j = Len(v) THEN i - 1 \in 1..Len(args) /\ args[i - 1].kind = "-c"
           ELSE v[j + 1].kind = "words"
      /\ \A j \in 1..Len(v) : v[j].kind = "words" => j - 1 \in 1..Len(v) /\ v[j - 1].kind = "-c"
      /\ Once(v)
  BY DEF Cleaned, v
<1>7. /\ \A k \in 1..i : args[k].kind \in Special => args[k] \in Members(v)
      /\ \A j \in 1..Len(v) : v[j].kind \notin {"bool", "opt", "flag"} /\ \E k \in 1..i : v[j] = args[k]
  BY <1>2, <1>3, <1>6
<1>8. \A j \in 1..Len(v) : v[j].kind = "-c" =>
        IF j = Len(v) THEN i \in 1..Len(args) /\ args[i].kind = "-c"
        ELSE v[j + 1].kind = "words"
  BY <1>4, <1>6
<1>9. Cleaned(args, i, new)
  BY <1>1, <1>6, <1>7, <1>8 DEF Cleaned
<1> QED
  BY <1>9 DEF new

\* An argument that is kept.
LEMMA KeepKeeps ==
  ASSUME NEW args \in Seq(Arguments), Paired(args), Once(args),
         NEW i \in 1..Len(args), NEW acc \in Cleaning, Cleaned(args, i - 1, acc),
         args[i].kind \notin {"bool", "opt", "flag"}
  PROVE  Cleaned(args, i, [skip |-> FALSE, valid |-> Append(acc.valid, args[i])])
<1> DEFINE new == [skip |-> FALSE, valid |-> Append(acc.valid, args[i])]
           v == acc.valid
           u == Append(acc.valid, args[i])
           n == Len(acc.valid)
<1>1. new.valid = u /\ ~new.skip
  OBVIOUS
<1>2. /\ Len(args) \in Nat /\ (i = 1 \/ i - 1 \in 1..Len(args)) /\ (i - 1) + 1 = i
      /\ \A k \in 1..i : k \in 1..(i - 1) \/ k = i
      /\ \A k \in 1..(i - 1) : k \in 1..i /\ k \in 1..Len(args) /\ k # i
      /\ i \in 1..i /\ args[i] \in Arguments
  OBVIOUS
<1>3. v \in Seq(Arguments)
  BY DEF Cleaning
<1>4. /\ n \in Nat /\ Len(u) = n + 1 /\ u[n + 1] = args[i]
      /\ \A j \in 1..n : u[j] = v[j]
      /\ Members(u) = Members(v) \cup {args[i]}
  BY <1>2, <1>3, Appended
<1>5. /\ \A k \in 1..(i - 1) : args[k].kind \in Special => args[k] \in Members(v)
      /\ \A j \in 1..n :
           v[j].kind \notin {"bool", "opt", "flag"} /\ \E k \in 1..(i - 1) : v[j] = args[k]
      /\ \A j \in 1..n : v[j].kind = "-c" =>
           IF j = n THEN i - 1 \in 1..Len(args) /\ args[i - 1].kind = "-c"
           ELSE v[j + 1].kind = "words"
      /\ \A j \in 1..n : v[j].kind = "words" => j - 1 \in 1..n /\ v[j - 1].kind = "-c"
      /\ \A j, k \in 1..n :
           v[j].kind \in {"-c", "smoke"} /\ v[k].kind \in {"-c", "smoke"} => j = k
  BY DEF Cleaned, Once
<1> HIDE DEF v, u, n, new
<1>6. \A j \in 1..(n + 1) : j \in 1..n \/ j = n + 1
  <2>1. n \in Nat
    BY <1>4
  <2> QED
    BY ONLY <2>1, SMT
<1>7. \A k \in 1..i : args[k].kind \in Special => args[k] \in Members(u)
  BY <1>2, <1>4, <1>5
<1>8. \A j \in 1..(n + 1) : u[j].kind \notin {"bool", "opt", "flag"} /\ \E k \in 1..i : u[j] = args[k]
  <2> TAKE j \in 1..(n + 1)
  <2>1. CASE j \in 1..n
    <3>1. u[j] = v[j] /\ v[j].kind \notin {"bool", "opt", "flag"}
      BY <2>1, <1>4, <1>5
    <3>2. PICK k \in 1..(i - 1) : v[j] = args[k]
      BY <2>1, <1>5
    <3> QED
      BY <3>1, <3>2, <1>2
  <2>2. CASE j = n + 1
    BY <2>2, <1>2, <1>4
  <2> QED
    BY <2>1, <2>2, <1>6
<1>9. \A j \in 1..(n + 1) : u[j].kind = "-c" =>
        IF j = n + 1 THEN i \in 1..Len(args) /\ args[i].kind = "-c"
        ELSE u[j + 1].kind = "words"
  <2> SUFFICES ASSUME NEW j \in 1..(n + 1), u[j].kind = "-c"
               PROVE  IF j = n + 1 THEN i \in 1..Len(args) /\ args[i].kind = "-c"
                      ELSE u[j + 1].kind = "words"
    OBVIOUS
  <2>1. CASE j = n + 1
    BY <2>1, <1>4
  <2>2. CASE j \in 1..n /\ j = n
    <3>1. i - 1 \in 1..Len(args) /\ args[i - 1].kind = "-c"
      BY <2>2, <1>4, <1>5
    <3>2. args[(i - 1) + 1].kind = "words"
      BY <3>1 DEF Paired
    <3> QED
      BY <3>2, <2>2, <1>2, <1>4
  <2>3. CASE j \in 1..n /\ j # n
    <3>1. v[j].kind = "-c" /\ v[j + 1].kind = "words" /\ j + 1 \in 1..n /\ j # n + 1
      BY <2>3, <1>4, <1>5
    <3> QED
      BY <3>1, <1>4, Zenon
  <2> QED
    BY <2>1, <2>2, <2>3, <1>6
<1>10. \A j \in 1..n : v[j].kind = "words" => args[i].kind # "words"
  <2> SUFFICES ASSUME NEW j \in 1..n, v[j].kind = "words", args[i].kind = "words"
               PROVE  FALSE
    OBVIOUS
  <2>1. PICK k \in 1..(i - 1) : v[j] = args[k]
    BY <1>5
  <2>2. /\ k \in 1..Len(args) /\ k # i /\ args[k].kind = "words"
    BY <2>1, <1>2
  <2>3. /\ k - 1 \in 1..Len(args) /\ args[k - 1].kind = "-c"
        /\ i - 1 \in 1..Len(args) /\ args[i - 1].kind = "-c"
    BY <2>2 DEF Paired
  <2>4. k - 1 = i - 1
    BY <2>3 DEF Once
  <2> QED
    BY <2>2, <2>4
<1>11. \A j \in 1..(n + 1) : u[j].kind = "words" =>
         j - 1 \in 1..(n + 1) /\ u[j - 1].kind = "-c"
  <2> SUFFICES ASSUME NEW j \in 1..(n + 1), u[j].kind = "words"
               PROVE  j - 1 \in 1..(n + 1) /\ u[j - 1].kind = "-c"
    OBVIOUS
  <2>1. CASE j \in 1..n
    <3>1. j - 1 \in 1..n /\ v[j - 1].kind = "-c"
      BY <2>1, <1>4, <1>5
    <3> QED
      BY <3>1, <1>4
  <2>2. CASE j = n + 1
    <3>1. args[i].kind = "words"
      BY <2>2, <1>4
    <3>2. i - 1 \in 1..Len(args) /\ args[i - 1].kind = "-c"
      BY <3>1 DEF Paired
    <3>3. i - 1 \in 1..(i - 1)
      BY <3>2
    <3>4. args[i - 1] \in Members(v)
      BY <3>2, <3>3, <1>5 DEF Special
    <3>5. PICK m \in 1..n : v[m] = args[i - 1]
      <4>1. \E m \in DOMAIN v : args[i - 1] = v[m]
        BY <3>4, Zenon DEF Members
      <4>2. DOMAIN v = 1..n
        BY <1>3, Indexed, Zenon DEF n, v
      <4> QED
        BY <4>1, <4>2, Zenon
    <3>6. m = n
      <4>1. m # n => v[m + 1].kind = "words" /\ m + 1 \in 1..n
        BY <3>2, <3>5, <1>4, <1>5
      <4> QED
        BY <4>1, <3>1, <1>10
    <3> QED
      BY <2>2, <3>2, <3>5, <3>6, <1>4
  <2> QED
    BY <2>1, <2>2, <1>6
<1>12. \A j \in 1..n : v[j].kind \in {"-c", "smoke"} => args[i].kind \notin {"-c", "smoke"}
  <2> SUFFICES ASSUME NEW j \in 1..n, v[j].kind \in {"-c", "smoke"},
                      args[i].kind \in {"-c", "smoke"}
               PROVE  FALSE
    OBVIOUS
  <2>1. PICK k \in 1..(i - 1) : v[j] = args[k]
    BY <1>5
  <2> QED
    BY <2>1, <1>2 DEF Once
<1>13. \A j, k \in 1..(n + 1) :
         u[j].kind \in {"-c", "smoke"} /\ u[k].kind \in {"-c", "smoke"} => j = k
  <2> SUFFICES ASSUME NEW j \in 1..(n + 1), NEW k \in 1..(n + 1),
                      u[j].kind \in {"-c", "smoke"}, u[k].kind \in {"-c", "smoke"}
               PROVE  j = k
    OBVIOUS
  <2>1. CASE j \in 1..n /\ k \in 1..n
    BY <2>1, <1>4, <1>5, Zenon
  <2>2. CASE j \in 1..n /\ k = n + 1
    BY <2>2, <1>4, <1>12
  <2>3. CASE j = n + 1 /\ k \in 1..n
    BY <2>3, <1>4, <1>12
  <2> QED
    BY <2>1, <2>2, <2>3, <1>6
<1>14. Cleaned(args, i, new)
  <2> DEFINE m == Len(u)
  <2>1. m = n + 1
    BY <1>4
  <2> HIDE DEF m
  <2>2. /\ \A j \in 1..m : u[j].kind \notin {"bool", "opt", "flag"} /\ \E k \in 1..i : u[j] = args[k]
        /\ \A j \in 1..m : u[j].kind = "words" => j - 1 \in 1..m /\ u[j - 1].kind = "-c"
        /\ \A j, k \in 1..m :
             u[j].kind \in {"-c", "smoke"} /\ u[k].kind \in {"-c", "smoke"} => j = k
    BY <2>1, <1>8, <1>11, <1>13, Zenon
  <2>3. \A j \in 1..m : u[j].kind = "-c" =>
          IF j = m THEN i \in 1..Len(args) /\ args[i].kind = "-c"
          ELSE u[j + 1].kind = "words"
    BY <2>1, <1>9, Zenon
  <2> QED
    BY <2>2, <2>3, <1>1, <1>7, Zenon DEF Cleaned, Once, m
<1> QED
  BY <1>14 DEF new, u

\* What is left of a command line: the same -c or smoke, and no option of LTM's.
Left(args, v) ==
  /\ v \in Seq(Arguments) /\ Paired(v) /\ Once(v)
  /\ \A j \in 1..Len(v) : v[j].kind \notin {"bool", "opt", "flag"} /\ v[j] \in Members(args)
  /\ \A arg \in Members(args) : arg.kind \in Special => arg \in Members(v)

LEMMA SanitizeIs ==
  ASSUME NEW args, Accepted(args), ~Swallowed(args)
  PROVE  Left(args, sanitizeCmd(args))
<1>0. args \in Seq(Arguments) /\ Paired(args) /\ Once(args) /\ Unharmed(args)
  BY AcceptedIs, NoneSwallowed
<1>1. Len(args) \in Nat /\ DOMAIN args = 1..Len(args) /\ \A i \in 1..Len(args) : args[i] \in Arguments
  BY <1>0, Indexed
<1>2. PICK g \in [0..Len(args) -> Cleaning] :
        /\ g[0] = [skip |-> FALSE, valid |-> <<>>] /\ sanitizeCmd(args) = g[Len(args)].valid
        /\ \A i \in 1..Len(args) : g[i] = Turn(g[i - 1], args[i])
  <2>1. \E g : Sanitizing(g, args)
    BY <1>0, SanitizeLoop
  <2> QED
    BY <2>1, Zenon DEF Sanitizing
<1>3. /\ Len(args) \in 0..Len(args) /\ 0 \in 0..Len(args)
      /\ \A i \in 1..Len(args) : i \in 0..Len(args) /\ i - 1 \in 0..Len(args)
  BY <1>1
<1> DEFINE T == {i \in 0..Len(args) : Cleaned(args, i, g[i])}
<1>4. 0 \in T
  <2>1. Cleaned(args, 0, [skip |-> FALSE, valid |-> <<>>])
    BY DEF Cleaned, Once
  <2> QED
    BY <2>1, <1>2, <1>3, Zenon
<1>5. ASSUME NEW i \in 1..Len(args), i - 1 \in T PROVE i \in T
  <2>1. Cleaned(args, i - 1, g[i - 1]) /\ g[i - 1] \in Cleaning
    BY <1>5, <1>3
  <2>2. g[i] = Turn(g[i - 1], args[i])
    BY <1>2
  <2>3. CASE g[i - 1].skip \/ args[i].kind \in {"bool", "opt", "flag"}
    <3>1. g[i] = [skip |-> ~g[i - 1].skip /\ args[i].kind \in {"opt", "flag"}, valid |-> g[i - 1].valid]
      BY <2>2, <2>3, Zenon DEF Turn
    <3>2. Cleaned(args, i, g[i])
      BY <3>1, <2>1, <2>3, <1>0, DropKeeps, Zenon
    <3> QED
      BY <3>2, <1>3
  <2>4. CASE ~(g[i - 1].skip \/ args[i].kind \in {"bool", "opt", "flag"})
    <3>1. g[i] = [skip |-> FALSE, valid |-> Append(g[i - 1].valid, args[i])]
      BY <2>2, <2>4, Zenon DEF Turn
    <3>2. Cleaned(args, i, g[i])
      BY <3>1, <2>1, <2>4, <1>0, KeepKeeps, Zenon
    <3> QED
      BY <3>2, <1>3
  <2> QED
    BY <2>3, <2>4
<1>6. Cleaned(args, Len(args), g[Len(args)])
  <2> HIDE DEF T
  <2>1. 0..Len(args) \subseteq T
    BY <1>4, <1>5, <1>1, UpTo, Zenon
  <2> QED
    BY <2>1, <1>3 DEF T
<1> DEFINE v == g[Len(args)].valid
<1>7. v \in Seq(Arguments)
  <2>1. g[Len(args)] \in Cleaning
    BY <1>3
  <2> QED
    BY <2>1 DEF Cleaning
<1>8. Len(v) \in Nat
  BY <1>7
<1>9. /\ \A k \in 1..Len(args) : args[k].kind \in Special => args[k] \in Members(v)
      /\ \A j \in 1..Len(v) :
           v[j].kind \notin {"bool", "opt", "flag"} /\ \E k \in 1..Len(args) : v[j] = args[k]
      /\ \A j \in 1..Len(v) : v[j].kind = "-c" =>
           IF j = Len(v) THEN Len(args) \in 1..Len(args) /\ args[Len(args)].kind = "-c"
           ELSE v[j + 1].kind = "words"
      /\ \A j \in 1..Len(v) : v[j].kind = "words" =>
           j - 1 \in 1..Len(v) /\ v[j - 1].kind = "-c"
      /\ Once(v)
  BY <1>6, Zenon DEF Cleaned
<1> HIDE DEF v
<1>10. Paired(v)
  <2>1. ~(Len(args) \in 1..Len(args) /\ args[Len(args)].kind = "-c")
    BY <1>0, <1>1 DEF Paired
  <2>2. ASSUME NEW j \in 1..Len(v), v[j].kind = "-c"
        PROVE  j + 1 \in 1..Len(v) /\ v[j + 1].kind = "words"
    <3>1. j # Len(v) /\ v[j + 1].kind = "words"
      BY <2>1, <2>2, <1>9, Zenon
    <3> QED
      BY <3>1, <1>8
  <2> QED
    BY <2>2, <1>9 DEF Paired
<1>11. \A j \in 1..Len(v) : v[j] \in Members(args)
  BY <1>1, <1>9 DEF Members
<1>12. \A arg \in Members(args) : arg.kind \in Special => arg \in Members(v)
  BY <1>1, <1>9 DEF Members
<1>13. Left(args, v)
  BY <1>7, <1>9, <1>10, <1>11, <1>12, Zenon DEF Left
<1> QED
  BY <1>2, <1>13 DEF v

\* FirstC finds the only -c.
LEMMA FirstCIs ==
  ASSUME NEW args \in Seq(Arguments), Once(args)
  PROVE  IF \E i \in 1..Len(args) : args[i].kind = "-c"
         THEN FirstC(args) \in 1..Len(args) /\ args[FirstC(args)].kind = "-c"
         ELSE FirstC(args) = 0
<1> DEFINE I == {i \in 1..Len(args) : args[i].kind = "-c"}
           first == CHOOSE i \in I : \A k \in I : i <= k
<1>1. FirstC(args) = IF I = {} THEN 0 ELSE first
  <2>1. DOMAIN args = 1..Len(args)
    OBVIOUS
  <2> QED
    BY <2>1 DEF FirstC
<1>2. ASSUME NEW i \in I PROVE first \in I
  <2>1. \A k \in I : k = i
    BY <1>2 DEF Once
  <2>2. \A k \in I : i <= k
    BY <2>1
  <2>3. \E x \in I : \A y \in I : x <= y
    BY <2>2
  <2> QED
    BY <2>3, Zenon
<1> QED
  BY <1>1, <1>2, Zenon

LEMMA WordOfOne ==
  ASSUME NEW B, NEW a \in B
  PROVE  /\ <<a>> \in Seq(B) /\ <<a>> # <<>> /\ Len(<<a>>) = 1 /\ <<a>>[1] = a
         /\ Members(<<a>>) = {a}
<1>1. <<a>> \in Seq(B) /\ <<a>> # <<>> /\ Len(<<a>>) = 1 /\ <<a>>[1] = a /\ DOMAIN <<a>> = {1}
  OBVIOUS
<1> QED
  BY <1>1 DEF Members

LEMMA SimpleWords == <<"4k">> \in Asking /\ <<"all">> \in Asking
<1>1. "4k" \in STRING /\ "all" \in STRING
  BY TreeAssumption, NamesAssumption
<1> QED
  BY <1>1, WordOfOne, Zenon DEF Asking, Word

\* With neither -c nor smoke LTM reads all.list, as for the word all.
LEMMA DefaultIs ==
  /\ defaultConfigs(NoConfigs) \in Configs
  /\ Held(defaultConfigs(NoConfigs)) = AllFound({<<"all">>})
<1>1. Found(<<"all">>) = <<PrimaryFS, Lists[<<PrimaryFS, "all">>]>>
  <2>1. Len(<<"all">>) = 1 /\ <<"all">>[1] = "all"
    OBVIOUS
  <2> QED
    BY <2>1, NamesAssumption DEF Found
<1>2. defaultConfigs(NoConfigs) = singleConfig(NoConfigs, <<"all">>)
  <2>1. Found(<<"all">>)[1] = PrimaryFS /\ Found(<<"all">>)[2] = Lists[<<PrimaryFS, "all">>]
    BY <1>1
  <2> QED
    BY <2>1, Zenon DEF defaultConfigs, singleConfig
<1>3. NoConfigs \in Configs
  BY DEF NoConfigs, Configs
<1> QED
  BY <1>2, <1>3, SimpleWords, SingleType, SingleAdds, NothingHeld, Zenon

\* The argument of -c, or none, that a command line has.
LEMMA AskedIs ==
  ASSUME NEW args, Accepted(args)
  PROVE  /\ Asked(args) \in Seq(Asking)
         /\ \A arg \in Members(args) : arg.kind = "words" => Asked(args) = arg.words
         /\ (\A arg \in Members(args) : arg.kind # "words") =>
              Asked(args) = IF Arg("smoke") \in Members(args) THEN << <<"4k">> >> ELSE << <<"all">> >>
<1>0. args \in Seq(Arguments) /\ Paired(args) /\ Once(args) /\ Bare(args)
  BY AcceptedIs
<1>1. Len(args) \in Nat /\ DOMAIN args = 1..Len(args) /\ \A i \in 1..Len(args) : args[i] \in Arguments
  BY <1>0, Indexed
<1> DEFINE c == FirstC(args)
<1>2. IF \E i \in 1..Len(args) : args[i].kind = "-c"
      THEN c \in 1..Len(args) /\ args[c].kind = "-c" ELSE c = 0
  BY <1>0, FirstCIs
<1> HIDE DEF c
<1>3. \A arg \in Members(args) : \E i \in 1..Len(args) : arg = args[i]
  BY <1>1 DEF Members
<1>4. \A i \in 1..Len(args) : args[i] \in Members(args)
  BY <1>1 DEF Members
<1>5. CASE c # 0
  <2>1. c \in 1..Len(args) /\ args[c].kind = "-c"
    BY <1>2, <1>5
  <2>2. c + 1 \in 1..Len(args) /\ args[c + 1].kind = "words"
    BY <2>1, <1>0 DEF Paired
  <2>3. Asked(args) = args[c + 1].words
    BY <1>5 DEF Asked, c
  <2>4. args[c + 1].words \in Seq(Asking)
    BY <2>2, <1>1, Zenon DEF Arguments, Asking
  <2>5. ASSUME NEW i \in 1..Len(args), args[i].kind = "words" PROVE i = c + 1
    <3>1. i - 1 \in 1..Len(args) /\ args[i - 1].kind = "-c"
      BY <2>5, <1>0 DEF Paired
    <3>2. i - 1 = c
      BY <3>1, <2>1, <1>0 DEF Once
    <3> QED
      BY <3>2
  <2>6. \A arg \in Members(args) : arg.kind = "words" => Asked(args) = arg.words
    BY <2>3, <2>5, <1>3
  <2>7. args[c + 1] \in Members(args)
    BY <2>2, <1>4
  <2> QED
    BY <2>2, <2>3, <2>4, <2>6, <2>7, Zenon
<1>6. CASE c = 0
  <2>1. \A i \in 1..Len(args) : args[i].kind # "-c"
    BY <1>2, <1>6
  <2>2. \A i \in 1..Len(args) : args[i].kind # "words"
    BY <2>1, <1>0 DEF Paired
  <2>3. (\E i \in DOMAIN args : args[i].kind = "smoke") <=> Arg("smoke") \in Members(args)
    <3>1. ASSUME NEW i \in 1..Len(args), args[i].kind = "smoke" PROVE args[i] = Arg("smoke")
      <4>1. args[i].words = <<>> /\ args[i] \in Arguments
        BY <3>1, <1>0, <1>1 DEF Bare
      <4> QED
        BY <3>1, <4>1 DEF Arguments, Arg
    <3>2. Arg("smoke").kind = "smoke"
      BY DEF Arg
    <3> QED
      BY <3>1, <3>2, <1>1, <1>3, <1>4
  <2>4. Asked(args) = IF Arg("smoke") \in Members(args) THEN << <<"4k">> >> ELSE << <<"all">> >>
    BY <2>3, <1>6, Zenon DEF Asked, c
  <2>5. << <<"4k">> >> \in Seq(Asking) /\ << <<"all">> >> \in Seq(Asking)
    BY SimpleWords, WordOfOne, Zenon
  <2> QED
    BY <2>2, <2>4, <2>5, <1>3, Zenon
<1> QED
  BY <1>5, <1>6

OnlyOther(args) == \A arg \in Members(args) : arg.kind \in {"other", "unlisted"}

\* Where -c and its argument are cut out of what is left, the rest is for xfstests.
LEMMA CutIs ==
  ASSUME NEW v \in Seq(Arguments), Paired(v), Once(v),
         \A j \in 1..Len(v) : v[j].kind \notin {"bool", "opt", "flag"},
         NEW c \in 1..Len(v), v[c].kind = "-c"
  PROVE  OnlyOther(SubSeq(v, 1, c - 1) \o SubSeq(v, c + 2, Len(v)))
<1> DEFINE a == SubSeq(v, 1, c - 1)
           b == SubSeq(v, c + 2, Len(v))
<1>1. Len(v) \in Nat /\ c + 1 \in 1..Len(v) /\ \A j \in 1..Len(v) : v[j] \in Arguments
  BY DEF Paired
<1>2. ASSUME NEW j \in 1..Len(v), j # c, j # c + 1 PROVE v[j].kind \in {"other", "unlisted"}
  <2>1. v[j].kind \in Kinds
    BY <1>1 DEF Arguments
  <2>2. v[j].kind # "-c" /\ v[j].kind # "smoke"
    BY <1>2 DEF Once
  <2>3. v[j].kind # "words"
    <3>1. ASSUME v[j].kind = "words" PROVE FALSE
      <4>1. j - 1 \in 1..Len(v) /\ v[j - 1].kind = "-c"
        BY <3>1 DEF Paired
      <4>2. j - 1 = c
        BY <4>1 DEF Once
      <4> QED
        BY <4>2, <1>1, <1>2
    <3> QED
      BY <3>1
  <2> QED
    BY <2>1, <2>2, <2>3 DEF Kinds
<1>3. a \in Seq(Arguments) /\ Len(a) = c - 1 /\ \A k \in 1..Len(a) : a[k] = v[k]
  BY <1>1
<1>4. /\ b \in Seq(Arguments) /\ Len(b) = Len(v) - (c + 1)
      /\ \A k \in 1..Len(b) : b[k] = v[c + 1 + k]
  BY <1>1
<1> HIDE DEF a, b
<1>5. OnlyOther(a)
  <2>1. \A k \in 1..Len(a) : a[k].kind \in {"other", "unlisted"}
    BY <1>1, <1>2, <1>3
  <2> QED
    BY <2>1, <1>3, Indexed DEF OnlyOther, Members
<1>6. OnlyOther(b)
  <2>1. ASSUME NEW k \in 1..Len(b) PROVE b[k].kind \in {"other", "unlisted"}
    <3>1. c + 1 + k \in 1..Len(v) /\ c + 1 + k # c /\ c + 1 + k # c + 1
      BY <1>1, <1>4
    <3> QED
      BY <3>1, <1>2, <1>4, Zenon
  <2> QED
    BY <2>1, <1>4, Indexed DEF OnlyOther, Members
<1>7. Members(a \o b) = Members(a) \cup Members(b)
  BY <1>3, <1>4, Joined
<1>8. OnlyOther(a \o b)
  BY <1>5, <1>6, <1>7 DEF OnlyOther
<1> QED
  BY <1>8 DEF a, b

\* The alias smoke stands for -c 4k and two arguments for xfstests.
LEMMA SmokeIs ==
  ASSUME NEW rest \in Seq(Arguments), OnlyOther(rest)
  PROVE  /\ Smoke \o rest \in Seq(Arguments) /\ Paired(Smoke \o rest) /\ Once(Smoke \o rest)
         /\ \A j \in 1..Len(Smoke \o rest) : (Smoke \o rest)[j].kind \notin {"bool", "opt", "flag"}
         /\ 1 \in 1..Len(Smoke \o rest) /\ (Smoke \o rest)[1].kind = "-c"
         /\ (Smoke \o rest)[2].words = << <<"4k">> >>
<1> DEFINE e == Smoke \o rest
<1>1. \A k \in Kinds : Arg(k) \in Arguments /\ Arg(k).kind = k
  <2>1. <<>> \in Seq(Asking)
    OBVIOUS
  <2> QED
    BY <2>1 DEF Arg, Arguments, Asking
<1>2. /\ Words(<< <<"4k">> >>) \in Arguments
      /\ Words(<< <<"4k">> >>).kind = "words" /\ Words(<< <<"4k">> >>).words = << <<"4k">> >>
  <2>1. << <<"4k">> >> \in Seq(Asking)
    BY SimpleWords, WordOfOne, Zenon
  <2>2. "words" \in Kinds
    BY DEF Kinds
  <2> QED
    BY <2>1, <2>2 DEF Words, Arguments, Asking
<1>3. "-c" \in Kinds /\ "other" \in Kinds
  BY DEF Kinds
<1> DEFINE dashC == Arg("-c")
           fourK == Words(<< <<"4k">> >>)
           other == Arg("other")
<1>4. /\ dashC \in Arguments /\ fourK \in Arguments /\ other \in Arguments
      /\ dashC.kind = "-c" /\ fourK.kind = "words" /\ other.kind = "other"
      /\ fourK.words = << <<"4k">> >>
  BY <1>1, <1>2, <1>3
<1>5. e = <<dashC, fourK, other, other>> \o rest
  BY DEF Smoke
<1> HIDE DEF dashC, fourK, other, e
<1>6. \A j \in 1..Len(rest) : rest[j].kind \in {"other", "unlisted"}
  BY Indexed DEF OnlyOther, Members
<1>7. /\ e \in Seq(Arguments) /\ Len(rest) \in Nat /\ Len(e) = Len(rest) + 4
      /\ e[1] = dashC /\ e[2] = fourK /\ e[3] = other /\ e[4] = other
      /\ \A j \in 1..Len(e) : j \notin 1..4 => j - 4 \in 1..Len(rest) /\ e[j] = rest[j - 4]
  BY <1>4, <1>5
<1>8. \A j \in 1..Len(e) : j # 1 /\ j # 2 => e[j].kind \in {"other", "unlisted"}
  <2> SUFFICES ASSUME NEW j \in 1..Len(e), j # 1, j # 2
               PROVE  e[j].kind \in {"other", "unlisted"}
    OBVIOUS
  <2>1. j \in 1..4 => j = 3 \/ j = 4
    BY <1>7
  <2> QED
    BY <2>1, <1>4, <1>6, <1>7
<1>9. 1 \in 1..Len(e) /\ 2 \in 1..Len(e)
  BY <1>7
<1>10. e[1].kind = "-c" /\ e[2].kind = "words" /\ e[2].words = << <<"4k">> >>
  BY <1>4, <1>7
<1>11. Paired(e) /\ Once(e) /\ \A j \in 1..Len(e) : e[j].kind \notin {"bool", "opt", "flag"}
  BY <1>8, <1>9, <1>10 DEF Paired, Once
<1>12. /\ e \in Seq(Arguments) /\ Paired(e) /\ Once(e)
       /\ \A j \in 1..Len(e) : e[j].kind \notin {"bool", "opt", "flag"}
       /\ 1 \in 1..Len(e) /\ e[1].kind = "-c" /\ e[2].words = << <<"4k">> >>
  BY <1>7, <1>9, <1>10, <1>11
<1> QED
  BY <1>12 DEF e

\* LTM's parser finds what the words that the user asks for lead to, and leaves
\* only arguments for xfstests.
LEMMA CmdIs ==
  ASSUME NEW args, Accepted(args), ~Swallowed(args)
  PROVE  /\ OnlyOther(Cmd(args).args) /\ Cmd(args).configs \in Configs
         /\ Held(Cmd(args).configs) = AllFound(Members(Asked(args)))
<1> DEFINE v == sanitizeCmd(args)
           rest == Without(v, {Arg("smoke")})
           e == expandAliases(v)
           c == FirstC(e)
<1>0. args \in Seq(Arguments) /\ Paired(args) /\ Once(args) /\ Bare(args)
  BY AcceptedIs
<1>1. Left(args, v)
  BY SanitizeIs
<1>2. /\ Asked(args) \in Seq(Asking)
      /\ \A arg \in Members(args) : arg.kind = "words" => Asked(args) = arg.words
      /\ (\A arg \in Members(args) : arg.kind # "words") =>
           Asked(args) = IF Arg("smoke") \in Members(args) THEN << <<"4k">> >> ELSE << <<"all">> >>
  BY AskedIs
<1>13. /\ allConfigs(Asked(args)) \in Configs
      /\ Held(allConfigs(Asked(args))) = AllFound(Members(Asked(args)))
  BY <1>2, AllConfigsIs, Zenon
<1>3. Cmd(args) = processConfigs(e)
  BY DEF Cmd
<1>4. e = IF Len(rest) < Len(v) THEN Smoke \o rest ELSE rest
  BY DEF expandAliases
<1> HIDE DEF v
<1>5. /\ rest \in Seq(Arguments) /\ Members(rest) = Members(v) \ {Arg("smoke")}
      /\ IF Members(v) \cap {Arg("smoke")} = {} THEN rest = v ELSE Len(rest) < Len(v)
  <2>1. v \in Seq(Arguments)
    BY <1>1 DEF Left
  <2> QED
    BY <2>1, WithoutIs
<1>6. Len(v) \in Nat /\ DOMAIN v = 1..Len(v) /\ \A j \in 1..Len(v) : v[j] \in Members(v) /\ v[j] \in Members(args)
  BY <1>1, Indexed DEF Left, Members
<1>7. \A arg \in Members(v) : arg \in Members(args) /\ arg.kind \notin {"bool", "opt", "flag"} /\ arg \in Arguments
  BY <1>1, <1>6, Indexed DEF Left, Members
<1>8. Arg("smoke").kind = "smoke" /\ Arg("-c").kind = "-c"
  BY DEF Arg
<1>9. Arg("smoke") \in Members(args) <=> Arg("smoke") \in Members(v)
  BY <1>1, <1>7, <1>8 DEF Left, Special
<1> HIDE DEF rest, e
<1>10. /\ c = 0 => Cmd(args).args = e /\ Cmd(args).configs = defaultConfigs(NoConfigs)
       /\ c # 0 => /\ Cmd(args).args = SubSeq(e, 1, c - 1) \o SubSeq(e, c + 2, Len(e))
                   /\ Cmd(args).configs = allConfigs(e[c + 1].words)
  <2> DEFINE found == [args |-> e, configs |-> defaultConfigs(NoConfigs)]
             cut == [args |-> SubSeq(e, 1, c - 1) \o SubSeq(e, c + 2, Len(e)),
                     configs |-> allConfigs(e[c + 1].words)]
  <2>1. processConfigs(e) = IF c = 0 THEN found ELSE cut
    BY DEF processConfigs
  <2>2. /\ found.args = e /\ found.configs = defaultConfigs(NoConfigs)
        /\ cut.args = SubSeq(e, 1, c - 1) \o SubSeq(e, c + 2, Len(e))
        /\ cut.configs = allConfigs(e[c + 1].words)
    BY Zenon
  <2> HIDE DEF found, cut
  <2>3. c = 0 => Cmd(args) = found
    BY <2>1, <1>3
  <2>4. c # 0 => Cmd(args) = cut
    BY <2>1, <1>3
  <2> QED
    BY <2>2, <2>3, <2>4, Zenon
<1> HIDE DEF c
<1>11. CASE Arg("smoke") \in Members(v)
  <2>1. e = Smoke \o rest
    BY <1>4, <1>5, <1>11
  <2>2. PICK s \in 1..Len(v) : v[s] = Arg("smoke")
    BY <1>6, <1>11 DEF Members
  <2>3. \A j \in 1..Len(v) : j # s => v[j].kind # "-c" /\ v[j].kind # "smoke"
    BY <2>2, <1>1, <1>8 DEF Left, Once
  <2>4. \A j \in 1..Len(v) : v[j].kind # "words"
    BY <2>2, <2>3, <1>1, <1>8 DEF Left, Paired
  <2>5. OnlyOther(rest)
    <3> SUFFICES ASSUME NEW arg \in Members(rest) PROVE arg.kind \in {"other", "unlisted"}
      BY DEF OnlyOther
    <3>1. arg \in Members(v) /\ arg # Arg("smoke")
      BY <1>5
    <3>2. PICK j \in 1..Len(v) : v[j] = arg
      BY <3>1, <1>6 DEF Members
    <3>3. j # s
      BY <3>1, <3>2, <2>2
    <3>4. arg.kind \in Kinds /\ arg.kind \notin {"bool", "opt", "flag"}
      BY <3>1, <1>7 DEF Arguments
    <3> QED
      BY <3>2, <3>3, <3>4, <2>3, <2>4 DEF Kinds
  <2>6. /\ e \in Seq(Arguments) /\ Paired(e) /\ Once(e)
        /\ \A j \in 1..Len(e) : e[j].kind \notin {"bool", "opt", "flag"}
        /\ 1 \in 1..Len(e) /\ e[1].kind = "-c" /\ e[2].words = << <<"4k">> >>
    BY <2>1, <2>5, <1>5, SmokeIs, Zenon
  <2>7. c = 1
    <3>1. c \in 1..Len(e) /\ e[c].kind = "-c"
      BY <2>6, FirstCIs DEF c
    <3> QED
      BY <3>1, <2>6 DEF Once
  <2>8. /\ Cmd(args).args = SubSeq(e, 1, c - 1) \o SubSeq(e, c + 2, Len(e))
        /\ Cmd(args).configs = allConfigs(<< <<"4k">> >>)
    <3>1. c # 0 /\ e[c + 1] = e[2]
      BY <2>7
    <3> QED
      BY <3>1, <2>6, <1>10, Zenon
  <2>9. OnlyOther(Cmd(args).args)
    BY <2>6, <2>7, <2>8, CutIs
  <2>10. \A arg \in Members(args) : arg.kind # "words"
    <3>1. \A arg \in Members(v) : arg.kind # "words"
      BY <2>4, <1>6 DEF Members
    <3> QED
      BY <3>1, <1>1 DEF Left, Special
  <2>11. Asked(args) = << <<"4k">> >>
    BY <2>10, <1>2, <1>9, <1>11, Zenon
  <2> QED
    <3>1. Cmd(args).configs = allConfigs(Asked(args))
      BY <2>8, <2>11
    <3> QED
      BY <3>1, <2>9, <1>13
<1>12. CASE Arg("smoke") \notin Members(v)
  <2>1. e = v
    <3>1. Members(v) \cap {Arg("smoke")} = {}
      BY <1>12, Zenon
    <3>2. rest = v
      BY <3>1, <1>5, Zenon
    <3>3. ~(Len(v) < Len(v))
      BY <1>6
    <3> QED
      BY <3>2, <3>3, <1>4, Zenon
  <2>2. \A arg \in Members(v) : arg.kind # "smoke"
    <3> SUFFICES ASSUME NEW arg \in Members(v), arg.kind = "smoke" PROVE FALSE
      OBVIOUS
    <3>1. PICK i \in DOMAIN args : args[i] = arg
      BY <1>7 DEF Members
    <3>2. arg.words = <<>>
      BY <3>1, <1>0, Indexed DEF Bare
    <3>3. arg \in [kind : Kinds, words : Seq(Word \ {<<>>})]
      BY <1>7 DEF Arguments
    <3>4. arg = [kind |-> "smoke", words |-> <<>>]
      BY <3>2, <3>3
    <3> QED
      BY <3>4, <1>12 DEF Arg
  <2>3. v \in Seq(Arguments) /\ Paired(v) /\ Once(v) /\ \A j \in 1..Len(v) : v[j].kind \notin {"bool", "opt", "flag"}
    BY <1>1 DEF Left
  <2>4. IF \E i \in 1..Len(v) : v[i].kind = "-c"
        THEN c \in 1..Len(v) /\ v[c].kind = "-c" ELSE c = 0
    BY <2>1, <2>3, FirstCIs DEF c
  <2>5. CASE c = 0
    <3>1. \A j \in 1..Len(v) : v[j].kind # "-c"
      BY <2>4, <2>5
    <3>2. \A j \in 1..Len(v) : v[j].kind # "words"
      BY <3>1, <2>3 DEF Paired
    <3>3. \A arg \in Members(v) : arg.kind # "-c" /\ arg.kind # "words"
      BY <3>1, <3>2, <1>6 DEF Members
    <3>4. OnlyOther(v)
      <4> SUFFICES ASSUME NEW arg \in Members(v) PROVE arg.kind \in {"other", "unlisted"}
        BY DEF OnlyOther
      <4>1. arg.kind \in Kinds /\ arg.kind \notin {"bool", "opt", "flag"}
        BY <1>7 DEF Arguments
      <4> QED
        BY <4>1, <3>3, <2>2 DEF Kinds
    <3>5. Cmd(args).args = v /\ Cmd(args).configs = defaultConfigs(NoConfigs)
      BY <2>1, <2>5, <1>10, Zenon
    <3>6. \A arg \in Members(args) : arg.kind # "words"
      BY <3>3, <1>1 DEF Left, Special
    <3>7. Asked(args) = << <<"all">> >>
      BY <3>6, <1>2, <1>9, <1>12, Zenon
    <3>8. Members(<< <<"all">> >>) = {<<"all">>}
      BY SimpleWords, WordOfOne, Zenon
    <3> QED
      BY <3>4, <3>5, <3>7, <3>8, DefaultIs, Zenon
  <2>6. CASE c # 0
    <3>1. c \in 1..Len(v) /\ v[c].kind = "-c"
      BY <2>4, <2>6
    <3>2. c + 1 \in 1..Len(v) /\ v[c + 1].kind = "words"
      BY <3>1, <2>3 DEF Paired
    <3>3. Asked(args) = v[c + 1].words
      BY <3>2, <1>2, <1>6
    <3>4. /\ Cmd(args).args = SubSeq(v, 1, c - 1) \o SubSeq(v, c + 2, Len(v))
          /\ Cmd(args).configs = allConfigs(v[c + 1].words)
      BY <2>1, <2>6, <1>10, Zenon
    <3>5. OnlyOther(Cmd(args).args)
      BY <3>1, <3>4, <2>3, CutIs
    <3> QED
      BY <3>3, <3>4, <3>5, <1>13, Zenon
  <2> QED
    BY <2>5, <2>6
<1> QED
  BY <1>11, <1>12

\* A pair <<fs, cfg>>, as a word, names the file or the list of its name.
LEMMA PairNames ==
  ASSUME NEW fs \in FileSystems, NEW cfg, cfg # "default"
  PROVE  Known(<<fs, cfg>>) /\ Resolve(<<fs, cfg>>) = <<fs, cfg>>
<1>1. Len(<<fs, cfg>>) = 2 /\ <<fs, cfg>>[1] = fs /\ <<fs, cfg>>[2] = cfg
  OBVIOUS
<1>2. FsOf(<<fs, cfg>>) = fs /\ NameOf(<<fs, cfg>>) = cfg
  BY <1>1 DEF FsOf, NameOf
<1> QED
  BY <1>2 DEF Known, Resolve

PathOf(w) == IF Len(w) = 1 THEN <<PrimaryFS, w[1]>> ELSE w

\* What a word of the command line leads to is, for LTM and for the VM, the file
\* or the list at the same path.
LEMMA PlainIs ==
  ASSUME NEW w \in Asking, Plain(w)
  PROVE  /\ PathOf(w) = <<PathOf(w)[1], PathOf(w)[2]>> /\ PathOf(w)[2] # "default"
         /\ Resolve(w) = PathOf(w) /\ (Known(w) <=> PathOf(w)[1] \in FileSystems)
<1>1. Len(w) = 1 \/ Len(w) = 2
  <2>1. w \in Seq(STRING) /\ w # <<>>
    BY Zenon DEF Asking, Word
  <2>2. Len(w) \in Nat /\ Len(w) # 0
    <3>1. \A B : \A q \in Seq(B) : q # <<>> => Len(q) \in Nat /\ Len(q) # 0
      OBVIOUS
    <3> QED
      BY <2>1, <3>1, Zenon
  <2>3. Len(w) <= 2
    BY Zenon DEF Plain
  <2>4. \A n \in Nat : n # 0 /\ n <= 2 => n = 1 \/ n = 2
    OBVIOUS
  <2> QED
    BY <2>2, <2>3, <2>4, Zenon
<1>2. w[Len(w)] # "default" /\ (Len(w) = 1 => w[1] \notin FileSystems)
  BY Zenon DEF Plain
<1>3. CASE Len(w) = 1
  <2>1. PathOf(w) = <<PrimaryFS, w[1]>>
    BY <1>3 DEF PathOf
  <2>2. FsOf(w) = PrimaryFS /\ NameOf(w) = w[1] /\ w[1] # "default"
    BY <1>2, <1>3 DEF FsOf, NameOf
  <2>3. PathOf(w)[1] = PrimaryFS /\ PathOf(w)[2] = w[1]
    BY <2>1
  <2> QED
    BY <2>1, <2>2, <2>3, Zenon DEF Resolve, Known
<1>4. CASE Len(w) = 2
  <2>1. PathOf(w) = w
    BY <1>4 DEF PathOf
  <2>2. FsOf(w) = w[1] /\ NameOf(w) = w[2] /\ w[2] # "default"
    BY <1>2, <1>4 DEF FsOf, NameOf
  <2>3. w = <<w[1], w[2]>>
    <3>1. \A B : \A q \in Seq(B) : Len(q) = 2 => q = <<q[1], q[2]>>
      OBVIOUS
    <3>2. w \in Seq(STRING)
      BY Zenon DEF Asking, Word
    <3> QED
      BY <3>1, <3>2, <1>4, Zenon
  <2> QED
    BY <2>1, <2>2, <2>3, Zenon DEF Resolve, Known
<1> QED
  BY <1>1, <1>3, <1>4

\* What one word leads to: the lines of a list, comments among them; a file; or
\* nothing.
LEMMA OneFound ==
  ASSUME NEW w \in Asking, Plain(w)
  PROVE  \/ /\ IsList(w)
            /\ Inside(w) \subseteq AllFound({w})
            /\ \A v \in AllFound({w}) \ Inside(w) : ~IsList(v) /\ ~IsConfig(v)
         \/ /\ ~IsList(w) /\ AllFound({w}) = {PathOf(w)} /\ ~IsList(PathOf(w))
            /\ IsConfig(PathOf(w)) <=> IsConfig(w)
            /\ Resolve(PathOf(w)) = Resolve(w)
         \/ ~IsList(w) /\ ~IsConfig(w) /\ AllFound({w}) = {}
<1> DEFINE path == PathOf(w)
           fs == PathOf(w)[1]
           cfg == PathOf(w)[2]
<1>1. /\ path = <<fs, cfg>> /\ cfg # "default"
      /\ Resolve(w) = path /\ (Known(w) <=> fs \in FileSystems)
  BY PlainIs
<1>2. AllFound({w}) = {<<Found(w)[1], line>> : line \in Members(Found(w)[2])}
  BY DEF AllFound
<1>3. Found(w) = IF path \in DOMAIN Lists THEN <<fs, Lists[path]>>
                 ELSE IF path \in Files THEN <<fs, <<cfg>> >> ELSE <<PrimaryFS, <<>> >>
  BY Zenon DEF Found, PathOf
<1> HIDE DEF path, fs, cfg
<1>4. CASE path \in DOMAIN Lists
  <2>1. fs \in FileSystems /\ Lists[path] \in Seq(STRING)
    <3>1. <<fs, cfg>> \in FileSystems \X STRING
      BY <1>1, <1>4, TreeAssumption, Zenon
    <3> QED
      BY <3>1, <1>4, TreeAssumption
  <2>2. IsList(w)
    BY <2>1, <1>1, <1>4 DEF IsList
  <2>3. Inside(w) = {<<fs, line>> : line \in Members(Lists[path]) \ Comments}
    <3>1. Inside(w) = Members(Lines(path[1], Lists[path]))
      BY <2>2, <1>1, Zenon DEF Inside
    <3>2. path[1] = fs
      BY <1>1
    <3> QED
      BY <3>1, <3>2, <2>1, LinesAre, Zenon
  <2>4. Found(w)[1] = fs /\ Found(w)[2] = Lists[path]
    BY <1>3, <1>4
  <2>5. AllFound({w}) = {<<fs, line>> : line \in Members(Lists[path])}
    BY <2>4, <1>2
  <2>6. Inside(w) \subseteq AllFound({w})
    BY <2>3, <2>5, Zenon
  <2>7. ASSUME NEW v \in AllFound({w}) \ Inside(w) PROVE ~IsList(v) /\ ~IsConfig(v)
    <3>1. PICK line \in Members(Lists[path]) : v = <<fs, line>>
      BY <2>5
    <3>2. line \in Comments
      BY <3>1, <2>3
    <3>3. line # "default"
      BY <3>2, NamesAssumption
    <3>4. Resolve(v) = <<fs, line>>
      BY <3>1, <3>3, <2>1, PairNames
    <3>5. \A p \in Files \cup DOMAIN Lists : p[2] \notin Comments
      BY NamesAssumption
    <3>6. <<fs, line>> \notin Files \cup DOMAIN Lists
      BY <3>2, <3>5
    <3> QED
      BY <3>4, <3>6, Zenon DEF IsList, IsConfig
  <2> QED
    BY <2>2, <2>6, <2>7
<1>5. CASE path \notin DOMAIN Lists /\ path \in Files
  <2>1. fs \in FileSystems
    <3>1. <<fs, cfg>> \in FileSystems \X STRING
      BY <1>1, <1>5, TreeAssumption, Zenon
    <3> QED
      BY <3>1
  <2>2. Found(w)[1] = fs /\ Found(w)[2] = <<cfg>>
    BY <1>3, <1>5
  <2>3. Members(<<cfg>>) = {cfg}
    BY WordOfOne, Zenon
  <2>4. AllFound({w}) = {path}
    BY <2>2, <2>3, <1>1, <1>2
  <2>5. Known(path) /\ Resolve(path) = path
    BY <2>1, <1>1, PairNames
  <2>6. ~IsList(w) /\ ~IsList(path)
    BY <2>5, <1>1, <1>5 DEF IsList
  <2>7. IsConfig(path) <=> IsConfig(w)
    BY <2>1, <2>5, <2>6, <1>1, Zenon DEF IsConfig
  <2> QED
    BY <2>4, <2>5, <2>6, <2>7, <1>1, Zenon DEF path
<1>6. CASE path \notin DOMAIN Lists /\ path \notin Files
  <2>1. Found(w)[2] = <<>>
    BY <1>3, <1>6
  <2>2. AllFound({w}) = {}
    BY <2>1, <1>2 DEF Members
  <2> QED
    BY <2>2, <1>1, <1>6, Zenon DEF IsList, IsConfig
<1> QED
  BY <1>4, <1>5, <1>6

\* What LTM found names what the user's words name.
LEMMA FoundNames ==
  ASSUME NEW ws \in SUBSET Asking, \A w \in ws : Plain(w)
  PROVE  Named(AllFound(ws)) = Named(ws)
<1> DEFINE V == AllFound(ws)
<1>1. /\ \A w \in ws : AllFound({w}) \subseteq V
      /\ \A v \in V : \E w \in ws : v \in AllFound({w})
  BY DEF AllFound
<1>2. \A w \in ws :
         \/ /\ IsList(w)
            /\ Inside(w) \subseteq AllFound({w})
            /\ \A v \in AllFound({w}) \ Inside(w) : ~IsList(v) /\ ~IsConfig(v)
         \/ /\ ~IsList(w) /\ AllFound({w}) = {PathOf(w)} /\ ~IsList(PathOf(w))
            /\ IsConfig(PathOf(w)) <=> IsConfig(w)
            /\ Resolve(PathOf(w)) = Resolve(w)
         \/ ~IsList(w) /\ ~IsConfig(w) /\ AllFound({w}) = {}
  BY OneFound, Zenon
<1>3. \A u : ~IsList(u) => Inside(u) = {}
  BY DEF Inside
<1>4. V \subseteq Reached(V) /\ Closed(Reached(V)) /\ ws \subseteq Reached(ws) /\ Closed(Reached(ws))
  BY ReachedIsClosed
<1> HIDE DEF V
<1>5. ASSUME NEW u \in Reached(ws), IsConfig(u) PROVE Resolve(u) \in Named(V)
  <2>1. \A w \in ws : Inside(w) \subseteq V
    BY <1>1, <1>2, <1>3, Zenon
  <2>2. Closed(Reached(V) \cup ws)
    BY <2>1, <1>4 DEF Closed
  <2>3. u \in Reached(V) \cup ws
    BY <2>2, <1>5, ReachedIsLeast
  <2>4. CASE u \in Reached(V)
    BY <2>4, <1>5 DEF Named
  <2>5. CASE u \in ws
    <3>1. ~IsList(u)
      BY <1>5, Zenon DEF IsConfig
    <3>2. AllFound({u}) = {PathOf(u)} /\ IsConfig(PathOf(u)) /\ Resolve(PathOf(u)) = Resolve(u)
      BY <3>1, <2>5, <1>2, <1>5
    <3>3. PathOf(u) \in Reached(V)
      BY <3>2, <2>5, <1>1, <1>4
    <3> QED
      BY <3>2, <3>3 DEF Named
  <2> QED
    BY <2>3, <2>4, <2>5
<1>6. ASSUME NEW u \in Reached(V), IsConfig(u) PROVE Resolve(u) \in Named(ws)
  <2> DEFINE E == {v \in V : ~IsList(v)}
  <2>1. V \subseteq Reached(ws) \cup E
    <3> SUFFICES ASSUME NEW v \in V, IsList(v) PROVE v \in Reached(ws)
      OBVIOUS
    <3>1. PICK w \in ws : v \in AllFound({w})
      BY <1>1, Zenon
    <3>2. v \in Inside(w)
      BY <3>1, <1>2, Zenon
    <3> QED
      BY <3>2, <1>4 DEF Closed
  <2>2. Closed(Reached(ws) \cup E)
    BY <1>3, <1>4 DEF Closed
  <2>3. u \in Reached(ws) \cup E
    BY <2>1, <2>2, <1>6, ReachedIsLeast
  <2>4. CASE u \in Reached(ws)
    BY <2>4, <1>6 DEF Named
  <2>5. CASE u \in E
    <3>1. PICK w \in ws : u \in AllFound({w})
      BY <2>5, <1>1, Zenon
    <3>2. u \in Inside(w) \/ (u = PathOf(w) /\ IsConfig(w) /\ Resolve(u) = Resolve(w))
      BY <3>1, <1>2, <1>6
    <3>3. CASE u \in Inside(w)
      <4>1. u \in Reached(ws)
        BY <3>3, <1>4 DEF Closed
      <4> QED
        BY <4>1, <1>6 DEF Named
    <3>4. CASE u = PathOf(w) /\ IsConfig(w) /\ Resolve(u) = Resolve(w)
      <4>1. w \in Reached(ws)
        BY <1>4
      <4> QED
        BY <4>1, <3>4 DEF Named
    <3> QED
      BY <3>2, <3>3, <3>4
  <2> QED
    BY <2>3, <2>4, <2>5
<1>7. Named(V) \subseteq Named(ws)
  BY <1>6 DEF Named
<1>8. Named(ws) \subseteq Named(V)
  BY <1>5 DEF Named
<1> QED
  BY <1>7, <1>8 DEF V

\* request is what the VM was booted for.
LEMMA RequestStays == Spec => [](request \in Requests)
<1>1. Init => request \in Requests
  BY DEF Init
<1>2. Next => request' = request
  BY Zenon DEF Next, Script, NextConfig, CopyXunitResults, Iterate, Check, Unknown, ExpandList,
     SourceConfig, Skip, AlreadyRun, Begin, Report, CopyNone, MergeBackup, MergeRename,
     MergeFails, UpdateOpen, UpdateDone, UpdateFails, RemoveResult, Formatted, UseList,
     OpenList, WriteList, FirstRun, Trim, Move, EndIteration, Finish, LogTest, TestEnds,
     TestAgain, CheckEnds, Unreadable, CheckGivesUp, Crash
<1>3. request \in Requests /\ [Next]_vars => (request \in Requests)'
  BY <1>2 DEF vars
<1> QED
  BY <1>1, <1>3, PTL DEF Spec

\* LTM starts a shard with what the user asked for, whatever the tree of
\* configurations and the command line are, unless -c or smoke comes right after
\* an option that LTM's parser takes to have an argument and parse_cli does not.
THEOREM ShardsRunWhatIsAsked == Spec => []ShardArgs
<1>1. ASSUME NEW r \in Requests, r.ltm, ~Swallowed(r.args)
      PROVE  /\ (\A w \in Members(Asked(r.args)) : Plain(w)) =>
                  Named(Members(r.words)) = Named(Members(Asked(r.args)))
             /\ \A arg \in Members(Cmd(r.args).args) : arg.kind \in {"other", "unlisted"}
  <2>1. Accepted(r.args) /\ r \in RequestsOf(r)
    BY RequestAssumption
  <2>2. PICK words \in FSTESTCFG(r) :
          r = [args |-> r.args, ltm |-> r.ltm, rpt |-> r.rpt, loop |-> r.loop,
               crashes |-> r.crashes, words |-> words]
    BY <2>1, Zenon DEF RequestsOf
  <2>3. r.words = words
    BY <2>2
  <2>4. PICK order \in Orders : words = getConfigs(Cmd(r.args).configs, order)
    BY <2>2, <1>1, Zenon DEF FSTESTCFG
  <2>5. /\ OnlyOther(Cmd(r.args).args) /\ Cmd(r.args).configs \in Configs
        /\ Held(Cmd(r.args).configs) = AllFound(Members(Asked(r.args)))
        /\ Asked(r.args) \in Seq(Asking)
    BY <2>1, <1>1, CmdIs, AskedIs, Zenon
  <2>6. Members(r.words) = AllFound(Members(Asked(r.args)))
    BY <2>3, <2>4, <2>5, GetConfigsIs, Zenon
  <2>7. Members(Asked(r.args)) \in SUBSET Asking
    <3>1. \A B : \A q \in Seq(B) : Members(q) \in SUBSET B
      BY DEF Members
    <3> QED
      BY <3>1, <2>5, Zenon
  <2>8. (\A w \in Members(Asked(r.args)) : Plain(w)) =>
          Named(Members(r.words)) = Named(Members(Asked(r.args)))
    BY <2>6, <2>7, FoundNames, Zenon
  <2> QED
    BY <2>5, <2>8, Zenon DEF OnlyOther
<1>2. request \in Requests => ShardArgs
  BY <1>1, Zenon DEF ShardArgs
<1> QED
  BY <1>2, RequestStays, PTL
=============================================================================
