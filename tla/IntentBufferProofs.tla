-------------------------- MODULE IntentBufferProofs --------------------------
(***************************************************************************)
(* The commands of a frame are the best intents of its buffer, for any      *)
(* number of intents, in any order, and whatever the game accepts of them.  *)
(*                                                                         *)
(* Both loops of Resolve are functions on the numbers up to the length of   *)
(* the buffer, each value given by the one before it.  That there is such a *)
(* function is shown up to every length (WonExists, PassedExists), so that  *)
(* its equation may be used; then what holds after each intent (Holds of    *)
(* the first loop, Done of the second) is handed on from one to the next.   *)
(***************************************************************************)
EXTENDS IntentBuffer, RetentionProofs

-----------------------------------------------------------------------------
(* The first loop: f holds the winners after each of N intents.              *)
Won(f, N) == f = [n \in 0..N |-> IF n = 0 THEN [a \in {} |-> NullTag] ELSE Contend(f[n - 1], intents[n])]

(* N intents have such a function: one more continues that of those before.  *)
LEMMA WonExists == \A N \in Nat : \E f : Won(f, N)
<1> DEFINE G == {n \in Nat : \E f : Won(f, n)}
<1>1. 0 \in G
  <2> DEFINE g == [n \in 0..0 |-> [a \in {} |-> NullTag]]
  <2>1. Won(g, 0)
    BY DEF Won
  <2> QED
    BY <2>1
<1>2. ASSUME NEW n \in Nat \ {0}, n - 1 \in G PROVE n \in G
  <2>1. PICK f : Won(f, n - 1)
    BY <1>2
  <2> DEFINE g == [k \in 0..n |-> IF k = n THEN Contend(f[n - 1], intents[n]) ELSE f[k]]
  <2>2. ASSUME NEW k \in 0..n
        PROVE  g[k] = IF k = 0 THEN [a \in {} |-> NullTag] ELSE Contend(g[k - 1], intents[k])
    <3>1. CASE k = n
      BY <3>1, <1>2
    <3>2. CASE k # n
      <4>1. k \in 0..(n - 1) /\ g[k] = f[k] /\ (k # 0 => k - 1 \in 0..n /\ k - 1 # n /\ g[k - 1] = f[k - 1])
        BY <1>2, <3>2
      <4> QED
        BY <2>1, <4>1 DEF Won
    <3> QED
      BY <3>1, <3>2
  <2>3. Won(g, n)
    <3> HIDE DEF g
    <3>1. g = [k \in 0..n |-> g[k]]
      BY DEF g
    <3> QED
      BY <2>2, <3>1 DEF Won
  <2> QED
    BY <2>3
<1> QED
  <2> SUFFICES ASSUME NEW N \in Nat PROVE N \in G
    OBVIOUS
  <2> HIDE DEF G
  <2>1. 0..N \subseteq G
    BY <1>1, <1>2, UpTo
  <2> QED
    BY <2>1

(* Winners is what it ends with.                                             *)
LEMMA WinnersWon ==
    ASSUME Len(intents) \in Nat
    PROVE  \E f : Won(f, Len(intents)) /\ Winners(intents) = f[Len(intents)]
<1> DEFINE f == CHOOSE g : Won(g, Len(intents))
<1>1. Won(f, Len(intents))
  BY WonExists
<1>2. Winners(intents) = f[Len(intents)]
  BY DEF Winners, Won
<1> QED
  BY <1>1, <1>2

(* Domains are told apart by their order.                                    *)
LEMMA DomainsOrdered ==
    /\ \A d \in DOMAIN DomainOrder : DomainOrder[d] \in Nat
    /\ \A d, e \in DOMAIN DomainOrder : DomainOrder[d] = DomainOrder[e] => d = e
BY DEF DomainOrder

(* The rank is a strict order, and the incumbent is replaced by whoever      *)
(* outranks it among the later ones.                                         *)
LEMMA Ranking ==
    ASSUME intents \in Seq(Intent), NEW k \in DOMAIN intents, NEW l \in DOMAIN intents
    PROVE  /\ ~(Outranks(k, l) /\ Outranks(l, k))
           /\ \A m \in DOMAIN intents : Outranks(k, l) /\ Outranks(l, m) => Outranks(k, m)
           /\ ShouldReplaceWinner(intents[l], intents[k]) => Outranks(l, k)
           /\ k < l /\ ~ShouldReplaceWinner(intents[l], intents[k]) => Outranks(k, l)
           /\ Outranks(k, l) /\ intents[k] = intents[l] => k < l
<1>1. \A m \in DOMAIN intents : /\ intents[m].priority \in Nat /\ DomainOrder[intents[m].domain] \in Nat
                                /\ intents[m].domain \in DOMAIN DomainOrder /\ m \in Nat
  <2> SUFFICES ASSUME NEW m \in DOMAIN intents
               PROVE  /\ intents[m].priority \in Nat /\ DomainOrder[intents[m].domain] \in Nat
                      /\ intents[m].domain \in DOMAIN DomainOrder /\ m \in Nat
    OBVIOUS
  <2>1. intents[m] \in Intent /\ m \in Nat
    OBVIOUS
  <2> QED
    BY <2>1, IntentAssumption, DomainsOrdered DEF Intent
<1> DEFINE p(m) == intents[m].priority
           d(m) == intents[m].domain
           o(m) == DomainOrder[intents[m].domain]
<1>2. \A m \in DOMAIN intents : p(m) \in Nat /\ o(m) \in Nat /\ m \in Nat
  BY <1>1
<1>3. \A m, n \in DOMAIN intents : o(m) = o(n) <=> d(m) = d(n)
  BY <1>1, DomainsOrdered
<1>4. \A m, n \in DOMAIN intents :
         Outranks(m, n) <=> \/ p(m) > p(n)
                            \/ p(m) = p(n) /\ o(m) < o(n)
                            \/ p(m) = p(n) /\ o(m) = o(n) /\ m < n
  BY <1>3 DEF Outranks
<1>5. ShouldReplaceWinner(intents[l], intents[k]) <=> p(l) > p(k) \/ (p(l) = p(k) /\ o(l) < o(k))
  BY DEF ShouldReplaceWinner
<1>6. intents[k] = intents[l] => p(k) = p(l) /\ o(k) = o(l)
  OBVIOUS
<1> HIDE DEF p, d, o
<1> QED
  BY <1>2, <1>4, <1>5, <1>6

(* The winners among the first n intents.                                    *)
Holds(w, n) ==
    /\ DOMAIN w = {intents[k].actor : k \in 1..n} \ {NullTag}
    /\ \A a \in DOMAIN w : \E k \in 1..n :
          /\ intents[k].actor = a /\ w[a] = intents[k]
          /\ \A m \in 1..n : m # k /\ intents[m].actor = a => Outranks(k, m)

(* One more intent makes the winners those of one more.                      *)
LEMMA Contends ==
    ASSUME intents \in Seq(Intent), NEW n \in 1..Len(intents), NEW w, Holds(w, n - 1)
    PROVE  Holds(Contend(w, intents[n]), n)
<1> DEFINE i == intents[n]
           v == Contend(w, i)
           actors == {intents[k].actor : k \in 1..(n - 1)} \ {NullTag}
<1>1. 1..n = 1..(n - 1) \cup {n} /\ n \notin 1..(n - 1) /\ 1..n \subseteq DOMAIN intents /\ n \in Nat
      /\ \A k \in 1..(n - 1) : k < n
  OBVIOUS
<1>2. {intents[k].actor : k \in 1..n} \ {NullTag} = actors \cup ({i.actor} \ {NullTag})
  BY <1>1
<1>3. DOMAIN w = actors
  BY DEF Holds
<1> DEFINE Wins(u, a, m) == \E k \in 1..m : /\ intents[k].actor = a /\ u[a] = intents[k]
                                            /\ \A l \in 1..m : l # k /\ intents[l].actor = a => Outranks(k, l)
<1>4. \A a \in DOMAIN w : Wins(w, a, n - 1)
  BY DEF Holds
<1> SUFFICES Holds(v, n)
  OBVIOUS
<1> HIDE DEF v
<1>5. ASSUME DOMAIN v = actors \cup ({i.actor} \ {NullTag}), \A a \in DOMAIN v : Wins(v, a, n) PROVE Holds(v, n)
  BY <1>2, <1>5 DEF Holds
<1>6. ASSUME NEW a \in DOMAIN w, a # i.actor, v[a] = w[a] PROVE Wins(v, a, n)
  <2>1. PICK k \in 1..(n - 1) : /\ intents[k].actor = a /\ w[a] = intents[k]
                                /\ \A l \in 1..(n - 1) : l # k /\ intents[l].actor = a => Outranks(k, l)
    BY <1>4
  <2> QED
    BY <1>1, <1>6, <2>1
<1>7. CASE i.actor = NullTag
  <2>1. v = w
    BY <1>7 DEF v, Contend
  <2>2. \A a \in DOMAIN w : a # i.actor
    BY <1>3, <1>7
  <2> QED
    BY <1>3, <1>5, <1>6, <1>7, <2>1, <2>2
<1>8. CASE i.actor \in DOMAIN w /\ ~ShouldReplaceWinner(i, w[i.actor])
  <2>1. v = w
    BY <1>8 DEF v, Contend
  <2>2. PICK k \in 1..(n - 1) :
            /\ intents[k].actor = i.actor /\ w[i.actor] = intents[k]
            /\ \A l \in 1..(n - 1) : l # k /\ intents[l].actor = i.actor => Outranks(k, l)
    BY <1>4, <1>8
  <2>3. Outranks(k, n)
    BY <1>1, <1>8, <2>2, Ranking
  <2>4. Wins(v, i.actor, n)
    BY <1>1, <2>1, <2>2, <2>3
  <2>5. DOMAIN v = actors \cup ({i.actor} \ {NullTag})
    BY <1>3, <1>8, <2>1
  <2>6. \A a \in DOMAIN v : Wins(v, a, n)
    BY <1>6, <2>1, <2>4
  <2> QED
    BY <1>5, <2>5, <2>6
<1>9. CASE i.actor # NullTag /\ ~(i.actor \in DOMAIN w /\ ~ShouldReplaceWinner(i, w[i.actor]))
  <2>1. v = [a \in DOMAIN w \cup {i.actor} |-> IF a = i.actor THEN i ELSE w[a]]
    BY <1>9 DEF v, Contend
  <2>2. DOMAIN v = actors \cup ({i.actor} \ {NullTag}) /\ v[i.actor] = i /\ \A a \in DOMAIN w \ {i.actor} : v[a] = w[a]
    BY <1>3, <1>9, <2>1
  <2>3. ASSUME NEW m \in 1..(n - 1), intents[m].actor = i.actor PROVE Outranks(n, m)
    <3>1. i.actor \in DOMAIN w
      BY <1>3, <1>9, <2>3
    <3>2. PICK k \in 1..(n - 1) :
              /\ intents[k].actor = i.actor /\ w[i.actor] = intents[k]
              /\ \A l \in 1..(n - 1) : l # k /\ intents[l].actor = i.actor => Outranks(k, l)
      BY <1>4, <3>1
    <3>3. Outranks(n, k)
      BY <1>1, <1>9, <3>1, <3>2, Ranking
    <3>4. CASE m = k
      BY <3>3, <3>4
    <3>5. CASE m # k
      <4>1. Outranks(k, m) /\ {n, k, m} \subseteq DOMAIN intents
        BY <1>1, <2>3, <3>2, <3>5
      <4> QED
        BY <3>3, <4>1, Ranking
    <3> QED
      BY <3>4, <3>5
  <2>4. Wins(v, i.actor, n)
    BY <1>1, <2>2, <2>3
  <2>5. \A a \in DOMAIN v : Wins(v, a, n)
    <3> TAKE a \in DOMAIN v
    <3>1. CASE a = i.actor
      BY <2>4, <3>1
    <3>2. CASE a # i.actor
      BY <1>3, <1>6, <2>2, <3>2
    <3> QED
      BY <3>1, <3>2
  <2> QED
    BY <1>5, <2>2, <2>5
<1> QED
  BY <1>7, <1>8, <1>9

(* So the winners are the best-ranked of each actor in the whole buffer.     *)
LEMMA WinnersHold ==
    ASSUME intents \in Seq(Intent)
    PROVE  Holds(Winners(intents), Len(intents))
<1>1. Len(intents) \in Nat
  OBVIOUS
<1>2. PICK f : Won(f, Len(intents)) /\ Winners(intents) = f[Len(intents)]
  BY <1>1, WinnersWon
<1> DEFINE G == {n \in 0..Len(intents) : Holds(f[n], n)}
<1>3. 0 \in G
  <2>1. f[0] = [a \in {} |-> NullTag]
    BY <1>1, <1>2 DEF Won
  <2> QED
    <3>1. 0 \in 0..Len(intents) /\ 1..0 = {} /\ DOMAIN f[0] = {}
      BY <1>1, <2>1
    <3>2. Holds(f[0], 0)
      BY <3>1, Zenon DEF Holds
    <3> QED
      BY <3>1, <3>2
<1>4. ASSUME NEW n \in 1..Len(intents), n - 1 \in G PROVE n \in G
  <2>1. n \in 0..Len(intents) /\ n # 0
    BY <1>1
  <2>2. f[n] = Contend(f[n - 1], intents[n])
    BY <1>2, <2>1, Zenon DEF Won
  <2> QED
    BY <1>4, <2>1, <2>2, Contends
<1> HIDE DEF G
<1>5. 0..Len(intents) \subseteq G
  BY <1>1, <1>3, <1>4, UpTo
<1>6. Len(intents) \in G
  BY <1>1, <1>5
<1> QED
  BY <1>2, <1>6 DEF G
-----------------------------------------------------------------------------
(* What the second loop offers are the best intents, and later ones equal to *)
(* the best of their actor.                                                  *)
LEMMA BestOffered ==
    ASSUME intents \in Seq(Intent), NEW n \in DOMAIN intents
    PROVE  LET w == Winners(intents)
           IN  /\ n \in Best => Offered(intents[n], w)
               /\ Offered(intents[n], w) =>
                     \E k \in Best : k \in Nat /\ k <= n /\ intents[k] = intents[n]
               /\ \A k \in Best : n \in Best /\ intents[k].actor = intents[n].actor => k = n
<1> DEFINE w == Winners(intents)
           a == intents[n].actor
<1>1. /\ DOMAIN intents = 1..Len(intents) /\ Len(intents) \in Nat
      /\ DOMAIN w = {intents[k].actor : k \in 1..Len(intents)} \ {NullTag}
      /\ a \in DOMAIN w => \E k \in DOMAIN intents :
            /\ intents[k].actor = a /\ w[a] = intents[k]
            /\ \A m \in DOMAIN intents : m # k /\ intents[m].actor = a => Outranks(k, m)
  BY WinnersHold DEF Holds
<1>2. \A k \in Best : k \in DOMAIN intents /\ (n \in Best /\ intents[k].actor = a => k = n)
  <2> SUFFICES ASSUME NEW k \in Best, n \in Best, intents[k].actor = a, k # n PROVE FALSE
    BY DEF Best
  <2>1. k \in DOMAIN intents /\ Outranks(k, n) /\ Outranks(n, k)
    BY DEF Best
  <2> QED
    BY <2>1, Ranking
<1> HIDE DEF w
<1>3. ASSUME n \in Best PROVE Offered(intents[n], w)
  <2>1. a # NullTag /\ a \in DOMAIN w
    BY <1>1, <1>3 DEF Best
  <2>2. PICK k \in DOMAIN intents :
            /\ intents[k].actor = a /\ w[a] = intents[k]
            /\ \A m \in DOMAIN intents : m # k /\ intents[m].actor = a => Outranks(k, m)
    BY <1>1, <2>1
  <2>3. k = n
    <3> SUFFICES ASSUME k # n PROVE FALSE
      OBVIOUS
    <3>1. Outranks(k, n) /\ Outranks(n, k)
      BY <1>3, <2>2 DEF Best
    <3> QED
      BY <3>1, Ranking
  <2> QED
    BY <2>1, <2>2, <2>3 DEF Offered
<1>4. ASSUME Offered(intents[n], w) PROVE \E k \in Best : k \in Nat /\ k <= n /\ intents[k] = intents[n]
  <2>1. a \in DOMAIN w /\ intents[n] = w[a] /\ a # NullTag
    BY <1>1, <1>4 DEF Offered
  <2>2. PICK k \in DOMAIN intents :
            /\ intents[k].actor = a /\ w[a] = intents[k]
            /\ \A m \in DOMAIN intents : m # k /\ intents[m].actor = a => Outranks(k, m)
    BY <1>1, <2>1
  <2>3. k \in Best
    BY <2>1, <2>2 DEF Best
  <2>4. k \in Nat /\ k <= n
    <3>1. CASE k = n
      BY <1>1, <3>1
    <3>2. CASE k # n
      <4>1. Outranks(k, n) /\ intents[k] = intents[n]
        BY <2>1, <2>2, <3>2
      <4>2. k < n
        BY <4>1, Ranking
      <4> QED
        BY <1>1, <4>2
    <3> QED
      BY <3>1, <3>2
  <2> QED
    BY <2>1, <2>2, <2>3, <2>4
<1> QED
  BY <1>2, <1>3, <1>4 DEF w

(* The second loop: f holds what was sent and reserved after each of N.      *)
Passed(f, N) ==
    f = [n \in 0..N |-> IF n = 0 THEN [out |-> <<>>, reserved |-> {}]
                        ELSE Validate(f[n - 1], intents[n], Winners(intents), sound)]

(* N intents have such a function.                                           *)
LEMMA PassedExists == \A N \in Nat : \E f : Passed(f, N)
<1> DEFINE G == {n \in Nat : \E f : Passed(f, n)}
<1>1. 0 \in G
  <2> DEFINE g == [n \in 0..0 |-> [out |-> <<>>, reserved |-> {}]]
  <2>1. Passed(g, 0)
    BY DEF Passed
  <2> QED
    BY <2>1
<1>2. ASSUME NEW n \in Nat \ {0}, n - 1 \in G PROVE n \in G
  <2>1. PICK f : Passed(f, n - 1)
    BY <1>2
  <2> DEFINE g == [k \in 0..n |-> IF k = n THEN Validate(f[n - 1], intents[n], Winners(intents), sound) ELSE f[k]]
  <2>2. ASSUME NEW k \in 0..n
        PROVE  g[k] = IF k = 0 THEN [out |-> <<>>, reserved |-> {}]
                      ELSE Validate(g[k - 1], intents[k], Winners(intents), sound)
    <3>1. CASE k = n
      BY <3>1, <1>2
    <3>2. CASE k # n
      <4>1. k \in 0..(n - 1) /\ g[k] = f[k] /\ (k # 0 => k - 1 \in 0..n /\ k - 1 # n /\ g[k - 1] = f[k - 1])
        BY <1>2, <3>2
      <4> QED
        BY <2>1, <4>1 DEF Passed
    <3> QED
      BY <3>1, <3>2
  <2>3. Passed(g, n)
    <3> HIDE DEF g
    <3>1. g = [k \in 0..n |-> g[k]]
      BY DEF g
    <3> QED
      BY <2>2, <3>1 DEF Passed
  <2> QED
    BY <2>3
<1> QED
  <2> SUFFICES ASSUME NEW N \in Nat PROVE N \in G
    OBVIOUS
  <2> HIDE DEF G
  <2>1. 0..N \subseteq G
    BY <1>1, <1>2, UpTo
  <2> QED
    BY <2>1

(* Resolve is what it ends with.                                             *)
LEMMA CommandsPassed ==
    ASSUME Len(intents) \in Nat
    PROVE  \E f : Passed(f, Len(intents)) /\ Commands = f[Len(intents)].out
<1> DEFINE f == CHOOSE g : Passed(g, Len(intents))
<1>1. Passed(f, Len(intents))
  BY PassedExists
<1>2. Commands = f[Len(intents)].out
  BY DEF Commands, Resolve, Passed
<1> QED
  BY <1>1, <1>2

(* The best intents the game accepts, up to a place; and the place of one    *)
(* among them.                                                               *)
Accepted(n) == {k \in Best : <<intents[k].actor, intents[k].what>> \in sound /\ k <= n}
Place(T, k) == Cardinality({m \in T : m <= k})

(* A number above all others takes the next place, and theirs stay.          *)
LEMMA Places ==
    ASSUME NEW n \in Nat \ {0}, NEW T \in SUBSET (1..(n - 1))
    PROVE  /\ IsFiniteSet(T) /\ Cardinality(T) \in Nat
           /\ \A k \in T : Place(T, k) \in 1..Cardinality(T)
           /\ Cardinality(T \cup {n}) = Cardinality(T) + 1
           /\ Place(T \cup {n}, n) = Cardinality(T) + 1
           /\ \A k \in T : Place(T \cup {n}, k) = Place(T, k)
<1>1. IsFiniteSet(1..(n - 1))
  BY FS_Interval
<1>2. IsFiniteSet(T) /\ Cardinality(T) \in Nat
  BY <1>1, FS_Subset, FS_CardinalityType
<1>3. n \notin T /\ \A k \in T : k \in Nat /\ k < n
  OBVIOUS
<1>4. Cardinality(T \cup {n}) = Cardinality(T) + 1
  BY <1>2, <1>3, FS_AddElement
<1>5. {m \in T \cup {n} : m <= n} = T \cup {n}
  <2>1. \A m \in T \cup {n} : m <= n
    BY <1>3
  <2> QED
    BY <2>1
<1>6. ASSUME NEW k \in T PROVE Place(T, k) \in 1..Cardinality(T) /\ Place(T \cup {n}, k) = Place(T, k)
  <2> DEFINE B == {m \in T : m <= k}
  <2>1. {m \in T \cup {n} : m <= k} = B
    BY <1>3
  <2>2. B \subseteq T /\ k \in B
    BY <1>3
  <2> HIDE DEF B
  <2>3. IsFiniteSet(B) /\ Cardinality(B) <= Cardinality(T)
    BY <1>2, <2>2, FS_Subset
  <2>4. Cardinality(B) \in Nat /\ Cardinality(B) # 0
    BY <2>2, <2>3, FS_CardinalityType, FS_EmptySet
  <2> QED
    BY <1>2, <2>1, <2>3, <2>4 DEF Place, B
<1> QED
  BY <1>2, <1>4, <1>5, <1>6 DEF Place

(* What has become of the first n intents.                                   *)
Done(r, n) ==
    /\ r.out \in Seq(Intent) /\ Len(r.out) = Cardinality(Accepted(n))
    /\ \A k \in Accepted(n) : r.out[Place(Accepted(n), k)] = intents[k]
    /\ \A j \in DOMAIN r.out : \E k \in Accepted(n) : r.out[j] = intents[k]
    /\ \A a \in r.reserved : \E k \in Best : k <= n /\ intents[k].actor = a

(* One more intent is sent if it is accepted and the best of its actor, and  *)
(* dropped otherwise: a reservation is only ever that of a best intent, so   *)
(* it stands in the way of none but its own later equals.                    *)
LEMMA Validates ==
    ASSUME intents \in Seq(Intent), NEW n \in 1..Len(intents), NEW r, Done(r, n - 1)
    PROVE  Done(Validate(r, intents[n], Winners(intents), sound), n)
<1> DEFINE i == intents[n]
           w == Winners(intents)
           s == Validate(r, i, w, sound)
           reserves == i.domain = "StructureBuild"
           accepted == <<i.actor, i.what>> \in sound /\ ~(reserves /\ i.actor \in r.reserved)
           T == Accepted(n - 1)
<1> SUFFICES Done(s, n)
  OBVIOUS
<1>1. /\ n \in DOMAIN intents /\ n \in Nat \ {0} /\ i \in Intent /\ Best \subseteq 1..Len(intents)
      /\ DOMAIN intents = 1..Len(intents) /\ Len(intents) \in Nat
  BY DEF Best
<1>2. T \in SUBSET (1..(n - 1)) /\ T \subseteq Best
  <2>1. \A k \in T : k \in Best /\ k <= n - 1
    BY DEF Accepted
  <2>2. \A k \in Best : k \in Nat /\ k >= 1
    BY <1>1
  <2> HIDE DEF T
  <2>3. ASSUME NEW k \in T PROVE k \in 1..(n - 1)
    <3>1. k \in Nat /\ k >= 1 /\ k <= n - 1 /\ n \in Nat
      BY <1>1, <2>1, <2>2, Zenon
    <3> QED
      BY <3>1
  <2> QED
    BY <2>1, <2>3
<1>3. Accepted(n) = IF n \in Best /\ <<i.actor, i.what>> \in sound THEN T \cup {n} ELSE T
  <2>1. \A k \in Best : k <= n <=> k <= n - 1 \/ k = n
    BY <1>1
  <2> QED
    BY <2>1 DEF Accepted
<1>4. /\ n \in Best => Offered(i, w)
      /\ Offered(i, w) => \E k \in Best : k \in Nat /\ k <= n /\ intents[k] = i
      /\ \A k \in Best : n \in Best /\ intents[k].actor = i.actor => k = n
  BY <1>1, BestOffered
<1>5. ASSUME n \in Best PROVE i.actor \notin r.reserved /\ \A j \in DOMAIN r.out : r.out[j].actor # i.actor
  <2>1. ASSUME NEW k \in Best, k <= n - 1 PROVE intents[k].actor # i.actor
    BY <1>1, <1>4, <1>5, <2>1
  <2>2. \A k \in T : k <= n - 1
    BY DEF Accepted
  <2> QED
    BY <1>2, <2>1, <2>2 DEF Done
<1>6. ASSUME Accepted(n) = T, s.out = r.out,
             \A a \in s.reserved \ r.reserved : \E k \in Best : k <= n /\ intents[k].actor = a
      PROVE  Done(s, n)
  <2>1. \A k \in Best : k <= n - 1 => k <= n
    BY <1>1
  <2> QED
    BY <1>6, <2>1 DEF Done
<1>7. CASE ~Offered(i, w) \/ \E m \in DOMAIN r.out : r.out[m].actor = i.actor
  <2>1. s = r
    BY <1>7 DEF Validate
  <2>2. n \notin Best
    BY <1>4, <1>5, <1>7
  <2> QED
    BY <1>3, <1>6, <2>1, <2>2
<1>8. CASE Offered(i, w) /\ ~(\E m \in DOMAIN r.out : r.out[m].actor = i.actor)
  <2>1. /\ s.out = IF accepted THEN Append(r.out, i) ELSE r.out
        /\ s.reserved \subseteq r.reserved \cup {i.actor}
    BY <1>8 DEF Validate
  <2>2. PICK k \in Best : k \in Nat /\ k <= n /\ intents[k] = i
    BY <1>4, <1>8
  <2>3. \A a \in s.reserved \ r.reserved : \E l \in Best : l <= n /\ intents[l].actor = a
    BY <2>1, <2>2
  <2>4. CASE n \in Best /\ <<i.actor, i.what>> \in sound
    <3>1. s.out = Append(r.out, i) /\ Accepted(n) = T \cup {n}
      BY <1>3, <1>5, <2>1, <2>4
    <3> HIDE DEF s, T
    <3>2. /\ r.out \in Seq(Intent) /\ Len(r.out) = Cardinality(T)
          /\ \A l \in T : r.out[Place(T, l)] = intents[l]
          /\ \A j \in DOMAIN r.out : \E l \in T : r.out[j] = intents[l]
      BY DEF Done, T
    <3>3. /\ s.out \in Seq(Intent) /\ Len(s.out) = Len(r.out) + 1 /\ s.out[Len(r.out) + 1] = i
          /\ \A j \in 1..Len(r.out) : s.out[j] = r.out[j]
      <4>1. /\ Append(r.out, i) \in Seq(Intent) /\ Len(Append(r.out, i)) = Len(r.out) + 1
            /\ Append(r.out, i)[Len(r.out) + 1] = i
            /\ \A j \in 1..Len(r.out) : Append(r.out, i)[j] = r.out[j]
        <5> HIDE DEF i
        <5> QED
          BY <1>1, <3>2, AppendProperties
      <4> QED
        BY <3>1, <4>1
    <3>4. /\ Cardinality(T) \in Nat /\ Cardinality(T \cup {n}) = Cardinality(T) + 1
          /\ \A l \in T : Place(T, l) \in 1..Cardinality(T) /\ Place(T \cup {n}, l) = Place(T, l)
          /\ Place(T \cup {n}, n) = Cardinality(T) + 1
      BY <1>1, <1>2, Places
    <3>5. \A l \in Accepted(n) : s.out[Place(Accepted(n), l)] = intents[l]
      <4> TAKE l \in Accepted(n)
      <4>1. CASE l = n
        BY <3>1, <3>2, <3>3, <3>4, <4>1
      <4>2. CASE l \in T
        <5>1. Place(T, l) \in 1..Len(r.out) /\ Place(Accepted(n), l) = Place(T, l)
          BY <3>1, <3>2, <3>4, <4>2
        <5> QED
          BY <3>2, <3>3, <4>2, <5>1
      <4> QED
        BY <3>1, <4>1, <4>2
    <3>6. \A j \in DOMAIN s.out : \E l \in Accepted(n) : s.out[j] = intents[l]
      <4> TAKE j \in DOMAIN s.out
      <4>1. CASE j = Len(r.out) + 1
        BY <3>1, <3>3, <4>1
      <4>2. CASE j # Len(r.out) + 1
        <5>1. j \in 1..Len(r.out) /\ j \in DOMAIN r.out
          BY <3>2, <3>3, <4>2
        <5> QED
          BY <3>1, <3>2, <3>3, <5>1
      <4> QED
        BY <4>1, <4>2
    <3>7. \A a \in s.reserved : \E l \in Best : l <= n /\ intents[l].actor = a
      <4>1. \A l \in Best : l <= n - 1 => l <= n
        BY <1>1
      <4> QED
        BY <2>3, <4>1 DEF Done
    <3> QED
      BY <3>1, <3>2, <3>3, <3>4, <3>5, <3>6, <3>7 DEF Done
  <2>5. CASE ~(n \in Best /\ <<i.actor, i.what>> \in sound)
    <3>1. ~accepted
      <4> SUFFICES ASSUME accepted PROVE FALSE
        OBVIOUS
      <4>1. n \notin Best /\ k # n /\ k <= n - 1 /\ <<intents[k].actor, intents[k].what>> \in sound
        BY <1>1, <2>2, <2>5
      <4>2. k \in T
        BY <4>1 DEF Accepted
      <4>3. Place(T, k) \in DOMAIN r.out /\ r.out[Place(T, k)] = i
        <5>1. Place(T, k) \in 1..Cardinality(T)
          BY <1>1, <1>2, <4>2, Places
        <5> QED
          BY <2>2, <4>2, <5>1 DEF Done
      <4> QED
        BY <1>8, <4>3
    <3> QED
      BY <1>3, <1>6, <2>1, <2>3, <2>5, <3>1
  <2> QED
    BY <2>4, <2>5
<1> QED
  BY <1>7, <1>8

(* So it is for any buffer.                                                  *)
LEMMA ResolvesBest ==
    ASSUME intents \in Seq(Intent)
    PROVE  CommandsAreBest
<1>1. Len(intents) \in Nat /\ Best \subseteq 1..Len(intents)
  BY DEF Best
<1>2. PICK f : Passed(f, Len(intents)) /\ Commands = f[Len(intents)].out
  BY <1>1, CommandsPassed
<1> DEFINE G == {n \in 0..Len(intents) : Done(f[n], n)}
<1>3. 0 \in G
  <2>1. f[0] = [out |-> <<>>, reserved |-> {}]
    BY <1>1, <1>2 DEF Passed
  <2>2. Accepted(0) = {}
    <3>1. \A k \in Best : ~(k <= 0)
      BY <1>1
    <3> QED
      BY <3>1 DEF Accepted
  <2>3. Cardinality(Accepted(0)) = 0
    BY <2>2, FS_EmptySet
  <2> QED
    <3>1. /\ f[0].out \in Seq(Intent) /\ Len(f[0].out) = 0 /\ DOMAIN f[0].out = {}
          /\ f[0].reserved = {} /\ 0 \in 0..Len(intents)
      BY <1>1, <2>1
    <3>2. Done(f[0], 0)
      BY <2>2, <2>3, <3>1 DEF Done
    <3> QED
      BY <3>1, <3>2
<1>4. ASSUME NEW n \in 1..Len(intents), n - 1 \in G PROVE n \in G
  <2>1. n \in 0..Len(intents) /\ n # 0
    BY <1>1
  <2>2. f[n] = Validate(f[n - 1], intents[n], Winners(intents), sound)
    BY <1>2, <2>1, Zenon DEF Passed
  <2> QED
    BY <1>4, <2>1, <2>2, Validates
<1> HIDE DEF G
<1>5. 0..Len(intents) \subseteq G
  BY <1>1, <1>3, <1>4, UpTo
<1>6. Done(f[Len(intents)], Len(intents))
  BY <1>1, <1>5 DEF G
<1>7. Accepted(Len(intents)) = {n \in Best : <<intents[n].actor, intents[n].what>> \in sound}
  <2>1. \A n \in Best : n <= Len(intents)
    BY <1>1
  <2> QED
    BY <2>1 DEF Accepted
<1> QED
  BY <1>2, <1>6, <1>7 DEF Done, Place, CommandsAreBest
-----------------------------------------------------------------------------
(* The inductive invariant.                                                  *)
Buffered == intents \in Seq(Intent)

(* The buffer holds intents only.                                            *)
LEMMA BufferedAlways == Spec => []Buffered
<1>1. Init => Buffered
  BY DEF Init, Buffered
<1>2. Buffered /\ [Next]_bufferVars => Buffered'
  <2> SUFFICES ASSUME Buffered, [Next]_bufferVars PROVE Buffered'
    OBVIOUS
  <2>1. ASSUME NEW i \in Offers, Add(i) PROVE Buffered'
    <3>1. i \in Intent /\ intents' = Append(intents, i)
      BY <2>1 DEF Add, Offers
    <3> QED
      BY <3>1, AppendProperties DEF Buffered
  <2>2. ASSUME Reset PROVE Buffered'
    BY <2>2 DEF Reset, Buffered
  <2>3. ASSUME UNCHANGED bufferVars PROVE Buffered'
    BY <2>3 DEF bufferVars, Buffered
  <2> QED
    BY <2>1, <2>2, <2>3 DEF Next
<1> QED
  BY <1>1, <1>2, PTL DEF Spec

(* FIntentArbiter::Resolve sends the sound ones of the best intents, one for *)
(* an actor and in the order of the buffer, for any intents in any order.    *)
THEOREM CommandsAlwaysBest == Spec => []CommandsAreBest
<1>1. Buffered => CommandsAreBest
  BY ResolvesBest DEF Buffered
<1> QED
  BY <1>1, BufferedAlways, PTL
=============================================================================
