-------------------------- MODULE BlockedTasksProofs --------------------------
(***************************************************************************)
(* What a push onto a blocked-task buffer does, for any records that have a *)
(* task ("sig") and a retention policy, and any number of slots; and what   *)
(* the loop that collects from it takes and leaves.                         *)
(***************************************************************************)
EXTENDS BlockedTasks, RetentionProofs

(* A sequence of records of which no two are for the same task.             *)
OnePerTask(s) == \A i, j \in DOMAIN s : s[i].sig = s[j].sig => i = j

LEMMA FirstOfLemma ==
    ASSUME NEW S \in SUBSET Nat, S # {}
    PROVE  FirstOf(S) \in S /\ \A j \in S : FirstOf(S) <= j
<1>1. \E i \in S : \A j \in S : i <= j
  BY LeastOf
<1> QED
  BY <1>1 DEF FirstOf

LEMMA RemovedLemma ==
    ASSUME NEW S, NEW b \in Seq(S), NEW i \in DOMAIN b
    PROVE  /\ RemoveOrderedIndex(b, i) \in Seq(S)
           /\ Len(RemoveOrderedIndex(b, i)) = Len(b) - 1
           /\ \A k \in DOMAIN RemoveOrderedIndex(b, i) :
                 RemoveOrderedIndex(b, i)[k] = b[IF k < i THEN k ELSE k + 1]
BY CutLemma DEF RemoveOrderedIndex, RemoveAt

(* A push that finds the task overwrites its record; else it appends where  *)
(* there is a free slot, or where a discardable record gives up its own;    *)
(* else it leaves the buffer alone and says so.                             *)
Coalesces(b, r, p) ==
    \E i \in DOMAIN b :
        b[i].sig = r.sig /\ p.buffer = [b EXCEPT ![i] = r] /\ p.flag = "coalesced"
Appends(b, r, p, capacity) ==
    /\ ~Holds(b, r.sig) /\ Len(b) < capacity
    /\ p.buffer = Append(b, r) /\ p.flag = "buffered"
Evicts(b, r, p, capacity) ==
    /\ ~Holds(b, r.sig) /\ Len(b) >= capacity
    /\ \E i \in DOMAIN b :
          /\ b[i].policy = "DiscardableDuplicate"
          /\ p.buffer = Append(RemoveOrderedIndex(b, i), r) /\ p.flag = "buffered"
Refuses(b, r, p, capacity) ==
    /\ ~Holds(b, r.sig) /\ Len(b) >= capacity /\ p.buffer = b
    /\ p.flag = IF r.policy = "HotMustRun" THEN "rejectedMustRun" ELSE "dropped"

(* The flags a push raises.                                                 *)
Flags == {"buffered", "coalesced", "dropped", "rejectedMustRun"}

LEMMA PushOutcome ==
    ASSUME NEW S, NEW b \in Seq(S), NEW r \in S, NEW capacity \in Nat
    PROVE  LET p == TryPushOrCoalesce(b, r, capacity)
           IN  \/ Coalesces(b, r, p) \/ Appends(b, r, p, capacity)
               \/ Evicts(b, r, p, capacity) \/ Refuses(b, r, p, capacity)
<1> DEFINE p == TryPushOrCoalesce(b, r, capacity)
           Equal == {j \in DOMAIN b : b[j].sig = r.sig}
<1>1. DOMAIN b \subseteq Nat /\ Len(b) \in Nat /\ capacity \in Nat
  OBVIOUS
<1>2. CASE Holds(b, r.sig)
  <2>1. Equal \in SUBSET Nat /\ Equal # {}
    BY <1>1, <1>2 DEF Holds
  <2>2. FirstOf(Equal) \in Equal
    BY <2>1, FirstOfLemma
  <2>3. p.buffer = [b EXCEPT ![FirstOf(Equal)] = r] /\ p.flag = "coalesced"
    BY <1>2 DEF TryPushOrCoalesce
  <2> QED
    BY <2>2, <2>3 DEF Coalesces
<1>3. CASE ~Holds(b, r.sig) /\ ~NoFreeSlot(b, capacity)
  <2>1. p.buffer = Append(b, r) /\ p.flag = "buffered"
    BY <1>3 DEF TryPushOrCoalesce
  <2> QED
    BY <2>1, <1>1, <1>3 DEF NoFreeSlot, Appends
<1>4. CASE ~Holds(b, r.sig) /\ NoFreeSlot(b, capacity) /\ Discardable(b) # {}
  <2>1. Discardable(b) \in SUBSET Nat
    BY <1>1 DEF Discardable
  <2>2. FirstOf(Discardable(b)) \in Discardable(b)
    BY <1>4, <2>1, FirstOfLemma
  <2>3. /\ p.buffer = Append(RemoveOrderedIndex(b, FirstOf(Discardable(b))), r)
        /\ p.flag = "buffered"
    BY <1>4 DEF TryPushOrCoalesce
  <2> QED
    BY <1>1, <1>4, <2>2, <2>3 DEF NoFreeSlot, Evicts, Discardable
<1>5. CASE ~Holds(b, r.sig) /\ NoFreeSlot(b, capacity) /\ Discardable(b) = {}
  <2>1. p.buffer = b /\ p.flag = IF r.policy = "HotMustRun" THEN "rejectedMustRun" ELSE "dropped"
    BY <1>5 DEF TryPushOrCoalesce
  <2> QED
    BY <1>1, <1>5, <2>1 DEF NoFreeSlot, Refuses
<1> QED
  BY <1>2, <1>3, <1>4, <1>5

(* Where each record of the buffer after a push comes from: it is the one   *)
(* pushed, or a record of before, and those keep their order.               *)
Origin(b, r, c, f) ==
    /\ f \in [DOMAIN c -> Nat]
    /\ \A k \in DOMAIN c :
          \/ f[k] \in DOMAIN b /\ c[k] = b[f[k]] /\ c[k].sig # r.sig
          \/ f[k] \in DOMAIN b /\ c[k] = r /\ b[f[k]].sig = r.sig
          \/ f[k] = Len(b) + 1 /\ c[k] = r /\ ~Holds(b, r.sig)
    /\ \A k, l \in DOMAIN c : k < l => f[k] < f[l]

LEMMA PushOrigin ==
    ASSUME NEW S, NEW b \in Seq(S), OnePerTask(b), NEW r \in S, NEW capacity \in Nat
    PROVE  LET p == TryPushOrCoalesce(b, r, capacity)
           IN  /\ p.buffer \in Seq(S)
               /\ p.flag \in Flags
               /\ \E f : Origin(b, r, p.buffer, f)
<1> DEFINE p == TryPushOrCoalesce(b, r, capacity)
<1>0. DOMAIN b = 1 .. Len(b) /\ Len(b) \in Nat
  OBVIOUS
<1>1. CASE Coalesces(b, r, p)
  <2>1. PICK i \in DOMAIN b :
            b[i].sig = r.sig /\ p.buffer = [b EXCEPT ![i] = r] /\ p.flag = "coalesced"
    BY <1>1 DEF Coalesces
  <2>2. p.buffer \in Seq(S) /\ DOMAIN p.buffer = DOMAIN b
    BY <2>1
  <2>3. Origin(b, r, p.buffer, [k \in DOMAIN b |-> k])
    BY <1>0, <2>1, <2>2 DEF Origin, OnePerTask
  <2> QED
    BY <2>1, <2>2, <2>3 DEF Flags
<1>2. CASE Appends(b, r, p, capacity)
  <2>1. p.buffer = Append(b, r) /\ p.flag = "buffered" /\ ~Holds(b, r.sig)
    BY <1>2 DEF Appends
  <2>2. /\ p.buffer \in Seq(S) /\ DOMAIN p.buffer = 1 .. Len(b) + 1
        /\ \A k \in DOMAIN b : p.buffer[k] = b[k]
        /\ p.buffer[Len(b) + 1] = r
    BY <1>0, <2>1, AppendProperties
  <2>3. Origin(b, r, p.buffer, [k \in 1 .. Len(b) + 1 |-> k])
    BY <1>0, <2>1, <2>2 DEF Origin, Holds
  <2> QED
    BY <2>1, <2>2, <2>3 DEF Flags
<1>3. CASE Evicts(b, r, p, capacity)
  <2>1. PICK i \in DOMAIN b : p.buffer = Append(RemoveOrderedIndex(b, i), r) /\ p.flag = "buffered"
    BY <1>3 DEF Evicts
  <2> DEFINE c == RemoveOrderedIndex(b, i)
  <2>2. /\ c \in Seq(S) /\ Len(c) = Len(b) - 1
        /\ \A k \in DOMAIN c : c[k] = b[IF k < i THEN k ELSE k + 1]
    BY RemovedLemma
  <2>3. ~Holds(b, r.sig) /\ p.buffer = Append(c, r) /\ i \in 1 .. Len(b)
    BY <1>0, <1>3, <2>1 DEF Evicts
  <2> HIDE DEF c, p
  <2>4. /\ Append(c, r) \in Seq(S) /\ Len(Append(c, r)) = Len(c) + 1
        /\ \A k \in 1 .. Len(c) : Append(c, r)[k] = c[k]
        /\ Append(c, r)[Len(c) + 1] = r
    BY <2>2, AppendProperties
  <2>5. PICK n \in Nat : n = Len(b)
    BY <1>0
  <2>6. /\ p.buffer \in Seq(S) /\ Len(p.buffer) = n /\ DOMAIN p.buffer = 1 .. n
        /\ DOMAIN c = 1 .. n - 1 /\ DOMAIN b = 1 .. n /\ i \in 1 .. n
        /\ p.buffer[n] = r
        /\ \A k \in 1 .. n - 1 : p.buffer[k] = c[k]
    <3>1. Len(c) = n - 1 /\ DOMAIN c = 1 .. Len(c) /\ Len(c) + 1 = n
      BY <2>2, <2>5
    <3> QED
      BY <3>1, <1>0, <2>3, <2>4, <2>5
  <2> DEFINE f == [k \in 1 .. n |-> IF k = n THEN n + 1 ELSE IF k < i THEN k ELSE k + 1]
  <2>7. /\ f \in [1 .. n -> Nat] /\ f[n] = n + 1
        /\ \A k \in 1 .. n - 1 : f[k] = (IF k < i THEN k ELSE k + 1) /\ f[k] \in 1 .. n
        /\ \A k, l \in 1 .. n : k < l => f[k] < f[l]
    BY <2>6
  <2> HIDE DEF f
  <2>8. \A k \in 1 .. n - 1 : p.buffer[k] = b[f[k]] /\ f[k] \in DOMAIN b
    <3> TAKE k \in 1 .. n - 1
    <3>1. p.buffer[k] = c[k] /\ k \in DOMAIN c
      BY <2>6, Zenon
    <3>2. c[k] = b[IF k < i THEN k ELSE k + 1]
      BY <3>1, <2>2, Zenon
    <3> QED
      BY <3>1, <3>2, <2>6, <2>7, Zenon
  <2>9. ASSUME NEW k \in DOMAIN p.buffer
        PROVE  \/ f[k] \in DOMAIN b /\ p.buffer[k] = b[f[k]] /\ p.buffer[k].sig # r.sig
               \/ f[k] = Len(b) + 1 /\ p.buffer[k] = r
    <3>1. CASE k = n
      BY <3>1, <2>5, <2>6, <2>7
    <3>2. CASE k # n
      BY <3>2, <2>3, <2>6, <2>8 DEF Holds
    <3> QED
      BY <3>1, <3>2
  <2>10. Origin(b, r, p.buffer, f)
    BY <2>3, <2>6, <2>7, <2>9 DEF Origin
  <2> QED
    BY <2>1, <2>6, <2>10 DEF Flags, p
<1>4. CASE Refuses(b, r, p, capacity)
  <2>1. p.buffer = b /\ p.flag \in {"rejectedMustRun", "dropped"} /\ ~Holds(b, r.sig)
    BY <1>4 DEF Refuses
  <2>2. Origin(b, r, p.buffer, [k \in DOMAIN b |-> k])
    BY <1>0, <2>1 DEF Origin, Holds
  <2> QED
    BY <2>1, <2>2 DEF Flags
<1> QED
  BY <1>1, <1>2, <1>3, <1>4, PushOutcome
LEMMA OriginDistinct ==
    ASSUME NEW b, OnePerTask(b), NEW r, NEW c, NEW f, Origin(b, r, c, f), DOMAIN c \subseteq Nat
    PROVE  /\ OnePerTask(c)
           /\ \A k \in DOMAIN c : c[k].sig = r.sig \/ \E i \in DOMAIN b : c[k].sig = b[i].sig
<1>1. ASSUME NEW k \in DOMAIN c, NEW l \in DOMAIN c, c[k].sig = c[l].sig PROVE f[k] = f[l]
  BY <1>1 DEF Origin, OnePerTask, Holds
<1>2. OnePerTask(c)
  <2> SUFFICES ASSUME NEW k \in DOMAIN c, NEW l \in DOMAIN c, c[k].sig = c[l].sig PROVE k = l
    BY DEF OnePerTask
  <2>1. f[k] = f[l] /\ f[k] \in Nat /\ k \in Nat /\ l \in Nat
    BY <1>1 DEF Origin
  <2>2. ~(f[k] < f[l]) /\ ~(f[l] < f[k])
    BY <2>1
  <2> QED
    BY <2>1, <2>2 DEF Origin
<1> QED
  BY <1>2 DEF Origin

(* A push leaves two tasks that both stay in their order.                   *)
LEMMA OriginOrder ==
    ASSUME NEW b, OnePerTask(b), DOMAIN b \subseteq Nat,
           NEW r, NEW c, NEW f, Origin(b, r, c, f), DOMAIN c \subseteq Nat,
           NEW i \in DOMAIN b, NEW j \in DOMAIN b, NEW k \in DOMAIN c, NEW l \in DOMAIN c,
           i < j, b[i].sig = c[k].sig, b[j].sig = c[l].sig
    PROVE  k < l
<1>1. f[k] = i /\ f[l] = j
  BY DEF Origin, OnePerTask, Holds
<1>2. ~(l < k) /\ l # k
  <2>1. ~(f[l] < f[k]) /\ f[l] # f[k]
    BY <1>1
  <2> QED
    BY <2>1 DEF Origin
<1> QED
  BY <1>2

LEMMA PushLength ==
    ASSUME NEW S, NEW b \in Seq(S), NEW r \in S, NEW capacity \in Nat
    PROVE  LET c == TryPushOrCoalesce(b, r, capacity).buffer
           IN  Len(c) <= Len(b) + 1 /\ (Len(b) <= capacity => Len(c) <= capacity)
<1> DEFINE p == TryPushOrCoalesce(b, r, capacity)
<1>0. Len(b) \in Nat /\ capacity \in Nat
  OBVIOUS
<1>1. CASE Coalesces(b, r, p)
  <2>1. PICK i \in DOMAIN b : p.buffer = [b EXCEPT ![i] = r]
    BY <1>1 DEF Coalesces
  <2>2. Len(p.buffer) = Len(b)
    BY <2>1
  <2> QED
    BY <1>0, <2>2
<1>2. CASE Appends(b, r, p, capacity)
  <2>1. p.buffer = Append(b, r) /\ Len(b) < capacity
    BY <1>2 DEF Appends
  <2>2. Len(p.buffer) = Len(b) + 1
    BY <2>1, AppendProperties
  <2> QED
    BY <1>0, <2>1, <2>2
<1>3. CASE Evicts(b, r, p, capacity)
  <2>1. PICK i \in DOMAIN b : p.buffer = Append(RemoveOrderedIndex(b, i), r)
    BY <1>3 DEF Evicts
  <2>2. RemoveOrderedIndex(b, i) \in Seq(S) /\ Len(RemoveOrderedIndex(b, i)) = Len(b) - 1
    BY RemovedLemma
  <2>3. Len(p.buffer) = Len(b) - 1 + 1
    BY <2>1, <2>2, AppendProperties
  <2> QED
    BY <1>0, <2>3
<1>4. CASE Refuses(b, r, p, capacity)
  BY <1>0, <1>4 DEF Refuses
<1> QED
  BY <1>1, <1>2, <1>3, <1>4, PushOutcome

(* Only a discardable record is ever given up for a new one.                *)
LEMMA PushKeeps ==
    ASSUME NEW S, NEW b \in Seq(S), NEW r \in S, NEW capacity \in Nat, NEW i \in DOMAIN b
    PROVE  \/ Holds(TryPushOrCoalesce(b, r, capacity).buffer, b[i].sig)
           \/ b[i].policy = "DiscardableDuplicate"
<1> DEFINE p == TryPushOrCoalesce(b, r, capacity)
<1>0. DOMAIN b = 1 .. Len(b) /\ Len(b) \in Nat
  OBVIOUS
<1>1. CASE Coalesces(b, r, p)
  <2>1. PICK j \in DOMAIN b : b[j].sig = r.sig /\ p.buffer = [b EXCEPT ![j] = r]
    BY <1>1 DEF Coalesces
  <2>2. i \in DOMAIN p.buffer /\ p.buffer[i].sig = b[i].sig
    BY <2>1
  <2> QED
    BY <2>2 DEF Holds
<1>2. CASE Appends(b, r, p, capacity)
  <2>1. p.buffer = Append(b, r)
    BY <1>2 DEF Appends
  <2>2. i \in DOMAIN p.buffer /\ p.buffer[i] = b[i]
    BY <1>0, <2>1, AppendProperties
  <2> QED
    BY <2>2 DEF Holds
<1>3. CASE Evicts(b, r, p, capacity)
  <2>1. PICK e \in DOMAIN b :
            b[e].policy = "DiscardableDuplicate" /\ p.buffer = Append(RemoveOrderedIndex(b, e), r)
    BY <1>3 DEF Evicts
  <2> DEFINE c == RemoveOrderedIndex(b, e)
  <2>2. /\ c \in Seq(S) /\ Len(c) = Len(b) - 1
        /\ \A k \in DOMAIN c : c[k] = b[IF k < e THEN k ELSE k + 1]
    BY RemovedLemma
  <2> HIDE DEF c, p
  <2>3. \A k \in DOMAIN c : k \in DOMAIN Append(c, r) /\ Append(c, r)[k] = c[k]
    BY <2>2, AppendProperties
  <2>4. p.buffer = Append(c, r)
    BY <2>1 DEF c
  <2>5. PICK n \in Nat : n = Len(b) /\ DOMAIN b = 1 .. n /\ DOMAIN c = 1 .. n - 1
    <3>1. DOMAIN c = 1 .. Len(c)
      BY <2>2
    <3> QED
      BY <3>1, <1>0, <2>2
  <2>6. CASE i = e
    BY <2>1, <2>6
  <2>7. CASE i < e
    <3>1. i \in DOMAIN c /\ c[i] = b[i]
      BY <2>2, <2>5, <2>7
    <3> QED
      BY <3>1, <2>3, <2>4 DEF Holds, p
  <2>8. CASE i > e
    <3>1. i - 1 \in DOMAIN c /\ ~(i - 1 < e) /\ i - 1 + 1 = i
      BY <2>5, <2>8
    <3>2. c[i - 1] = b[i]
      BY <3>1, <2>2
    <3> QED
      BY <3>1, <3>2, <2>3, <2>4 DEF Holds, p
  <2> QED
    BY <2>5, <2>6, <2>7, <2>8
<1>4. CASE Refuses(b, r, p, capacity)
  BY <1>4 DEF Refuses, Holds
<1> QED
  BY <1>1, <1>2, <1>3, <1>4, PushOutcome
(* What a push costs.  Every record stays as it is but the one of the same  *)
(* task, which r replaces; or, in a full buffer, one discardable record     *)
(* goes and r is in.  Where r is not in, the flag tells which kind it was.  *)
In(r, s) == \E k \in DOMAIN s : s[k] = r

NoneLost(b, r, c) == \A i \in DOMAIN b : In(b[i], c) \/ (b[i].sig = r.sig /\ In(r, c))
OneLost(b, r, c, capacity) ==
    /\ Len(b) >= capacity /\ In(r, c)
    /\ \E e \in DOMAIN b : /\ b[e].policy = "DiscardableDuplicate"
                          /\ \A i \in DOMAIN b : i # e => In(b[i], c)
Told(r, p) ==
    \/ In(r, p.buffer) /\ p.flag \in {"buffered", "coalesced"}
    \/ /\ ~Holds(p.buffer, r.sig)
       /\ p.flag = IF r.policy = "HotMustRun" THEN "rejectedMustRun" ELSE "dropped"

LEMMA PushCosts ==
    ASSUME NEW S, NEW b \in Seq(S), NEW r \in S, NEW capacity \in Nat
    PROVE  LET p == TryPushOrCoalesce(b, r, capacity)
           IN  Told(r, p) /\ (NoneLost(b, r, p.buffer) \/ OneLost(b, r, p.buffer, capacity))
<1> DEFINE p == TryPushOrCoalesce(b, r, capacity)
<1>0. DOMAIN b = 1 .. Len(b) /\ Len(b) \in Nat
  OBVIOUS
<1>1. CASE Coalesces(b, r, p)
  <2>1. PICK j \in DOMAIN b :
            b[j].sig = r.sig /\ p.buffer = [b EXCEPT ![j] = r] /\ p.flag = "coalesced"
    BY <1>1 DEF Coalesces
  <2>2. /\ j \in DOMAIN p.buffer /\ p.buffer[j] = r
        /\ \A i \in DOMAIN b : i # j => i \in DOMAIN p.buffer /\ p.buffer[i] = b[i]
    BY <2>1
  <2> HIDE DEF p
  <2>3. Told(r, p) /\ NoneLost(b, r, p.buffer)
    BY <2>1, <2>2 DEF In, NoneLost, Told
  <2> QED
    BY <2>3 DEF p
<1>2. CASE Appends(b, r, p, capacity)
  <2>1. p.buffer = Append(b, r) /\ p.flag = "buffered"
    BY <1>2 DEF Appends
  <2>2. /\ Len(b) + 1 \in DOMAIN p.buffer /\ p.buffer[Len(b) + 1] = r
        /\ \A i \in DOMAIN b : i \in DOMAIN p.buffer /\ p.buffer[i] = b[i]
    BY <1>0, <2>1, AppendProperties
  <2> HIDE DEF p
  <2>3. Told(r, p) /\ NoneLost(b, r, p.buffer)
    BY <2>1, <2>2 DEF In, NoneLost, Told
  <2> QED
    BY <2>3 DEF p
<1>3. CASE Evicts(b, r, p, capacity)
  <2>1. PICK e \in DOMAIN b :
            /\ b[e].policy = "DiscardableDuplicate" /\ p.flag = "buffered"
            /\ p.buffer = Append(RemoveOrderedIndex(b, e), r) /\ Len(b) >= capacity
    BY <1>3 DEF Evicts
  <2> DEFINE c == RemoveOrderedIndex(b, e)
  <2>2. /\ c \in Seq(S) /\ Len(c) = Len(b) - 1
        /\ \A k \in DOMAIN c : c[k] = b[IF k < e THEN k ELSE k + 1]
    BY RemovedLemma
  <2>3. p.buffer = Append(c, r)
    BY <2>1
  <2> HIDE DEF c, p
  <2>4. /\ Len(c) + 1 \in DOMAIN p.buffer /\ p.buffer[Len(c) + 1] = r
        /\ \A k \in DOMAIN c : k \in DOMAIN p.buffer /\ p.buffer[k] = c[k]
    BY <2>2, <2>3, AppendProperties
  <2>5. PICK n \in Nat : n = Len(b) /\ DOMAIN b = 1 .. n /\ DOMAIN c = 1 .. n - 1
    <3>1. DOMAIN c = 1 .. Len(c)
      BY <2>2
    <3> QED
      BY <3>1, <1>0, <2>2
  <2>6. ASSUME NEW i \in DOMAIN b, i # e PROVE In(b[i], p.buffer)
    <3>1. CASE i < e
      <4>1. i \in DOMAIN c /\ c[i] = b[i]
        BY <2>2, <2>5, <3>1
      <4> QED
        BY <4>1, <2>4 DEF In
    <3>2. CASE i > e
      <4>1. i - 1 \in DOMAIN c /\ ~(i - 1 < e) /\ i - 1 + 1 = i
        BY <2>5, <3>2
      <4>2. c[i - 1] = b[i]
        BY <4>1, <2>2
      <4> QED
        BY <4>1, <4>2, <2>4 DEF In
    <3> QED
      BY <2>5, <2>6, <3>1, <3>2
  <2>7. In(r, p.buffer)
    BY <2>4 DEF In
  <2> QED
    BY <2>1, <2>6, <2>7 DEF OneLost, Told, p
<1>4. CASE Refuses(b, r, p, capacity)
  <2> HIDE DEF p
  <2>1. /\ ~Holds(b, r.sig) /\ p.buffer = b
        /\ p.flag = IF r.policy = "HotMustRun" THEN "rejectedMustRun" ELSE "dropped"
    BY <1>4 DEF Refuses
  <2>2. NoneLost(b, r, p.buffer)
    BY <2>1 DEF In, NoneLost
  <2>3. Told(r, p)
    BY <2>1, Zenon DEF Told
  <2> QED
    BY <2>2, <2>3 DEF p
<1> QED
  BY <1>1, <1>2, <1>3, <1>4, PushOutcome
-----------------------------------------------------------------------------
(* The records that wake, by their positions.                               *)
WokenAt(b, now, rev) == {i \in DOMAIN b : Wakes(b[i], now, rev)}

(* r is what s has at the positions K, in the order of s; f says where.     *)
Takes(r, f, s, K) ==
    /\ \A a \in DOMAIN r : f[a] \in K /\ r[a] = s[f[a]]
    /\ \A a, c \in DOMAIN r : a < c => f[a] < f[c]
    /\ \A k \in K : \E a \in DOMAIN r : f[a] = k

(* Of the positions W that wake, those among the first n, which are taken    *)
(* out after n turns, and the positions that still stand then.              *)
Woken(W, n) == {i \in W : i <= n}
Standing(b, W, n) == {i \in DOMAIN b : i \notin W \/ i > n}

(* From the index on, s still has the records of before, o places later.    *)
MovedUp(s, g, at, o) == \A k \in DOMAIN s : k >= at => g[k] = k + o

(* What the loop has done after n turns over b, of which the positions W    *)
(* wake: the first n records are decided, those after them stand from the   *)
(* index on.                                                                *)
Turned(S, b, W, n, loop, f, g) ==
    /\ loop \in [at : Nat, buffer : Seq(S), out : Seq(S)]
    /\ Len(loop.out) <= n /\ loop.at = n + 1 - Len(loop.out)
    /\ Len(loop.buffer) = Len(b) - Len(loop.out)
    /\ Takes(loop.out, f, b, Woken(W, n))
    /\ Takes(loop.buffer, g, b, Standing(b, W, n))
    /\ MovedUp(loop.buffer, g, loop.at, Len(loop.out))

(* The record at the index is the next one of b.                            *)
LEMMA AtNext ==
    ASSUME NEW S, NEW b \in Seq(S), NEW W \in SUBSET DOMAIN b, NEW n \in 1 .. Len(b),
           NEW loop, NEW f, NEW g, Turned(S, b, W, n - 1, loop, f, g)
    PROVE  /\ loop.at \in Nat /\ loop.at \in DOMAIN loop.buffer /\ ~(loop.at > Len(loop.buffer))
           /\ DOMAIN loop.buffer = 1 .. Len(b) - Len(loop.out) /\ loop.at = n - Len(loop.out)
           /\ g[loop.at] = n /\ loop.buffer[loop.at] = b[n]
           /\ loop.out \in Seq(S) /\ loop.buffer \in Seq(S)
<1>1. loop.out \in Seq(S) /\ loop.buffer \in Seq(S) /\ loop.at \in Nat
  BY DEF Turned
<1>2. PICK o \in Nat : o = Len(loop.out)
  BY <1>1
<1>3. PICK m \in Nat : m = Len(b) /\ n \in 1 .. m
  OBVIOUS
<1>4. o <= n - 1 /\ loop.at = n - 1 + 1 - o /\ Len(loop.buffer) = m - o
  BY <1>2, <1>3 DEF Turned
<1>5. DOMAIN loop.buffer = 1 .. Len(loop.buffer)
  BY <1>1
<1>6. loop.at = n - o /\ loop.at \in 1 .. m - o /\ ~(loop.at > m - o)
  BY <1>3, <1>4
<1>7. g[loop.at] = loop.at + o
  <2>1. loop.at \in DOMAIN loop.buffer /\ loop.at >= loop.at
    BY <1>1, <1>4, <1>5, <1>6
  <2>2. \A k \in DOMAIN loop.buffer : k >= loop.at => g[k] = k + o
    BY <1>2 DEF Turned, MovedUp
  <2> QED
    BY <2>1, <2>2
<1>8. loop.buffer[loop.at] = b[g[loop.at]]
  BY <1>4, <1>5, <1>6 DEF Turned, Takes
<1>9. loop.at + o = n
  BY <1>3, <1>6
<1> QED
  BY <1>1, <1>2, <1>3, <1>4, <1>5, <1>6, <1>7, <1>8, <1>9

(* The loop's record, taken apart and put together.                         *)
LEMMA LoopRecord ==
    ASSUME NEW A, NEW B
    PROVE  /\ \A x \in A, y, z \in B :
                 /\ [at |-> x, buffer |-> y, out |-> z] \in [at : A, buffer : B, out : B]
                 /\ [at |-> x, buffer |-> y, out |-> z].at = x
                 /\ [at |-> x, buffer |-> y, out |-> z].buffer = y
                 /\ [at |-> x, buffer |-> y, out |-> z].out = z
           /\ \A loop \in [at : A, buffer : B, out : B] :
                 /\ loop.at \in A /\ loop.buffer \in B /\ loop.out \in B
                 /\ \A v : [loop EXCEPT !.at = v] = [at |-> v, buffer |-> loop.buffer, out |-> loop.out]
OBVIOUS

(* A record that sleeps on is passed.                                       *)
LEMMA VisitPasses ==
    ASSUME NEW S, NEW b \in Seq(S), NEW W \in SUBSET DOMAIN b, NEW n \in (1 .. Len(b)) \ W,
           NEW loop, NEW f, NEW g, Turned(S, b, W, n - 1, loop, f, g)
    PROVE  Turned(S, b, W, n, [loop EXCEPT !.at = @ + 1], f, g)
<1> DEFINE next == [loop EXCEPT !.at = @ + 1]
<1>1. loop \in [at : Nat, buffer : Seq(S), out : Seq(S)]
  BY DEF Turned
<1>2. /\ next \in [at : Nat, buffer : Seq(S), out : Seq(S)]
      /\ next.at = loop.at + 1 /\ next.buffer = loop.buffer /\ next.out = loop.out
  <2>1. loop.at + 1 \in Nat /\ loop.buffer \in Seq(S) /\ loop.out \in Seq(S)
    BY <1>1
  <2>2. next = [at |-> loop.at + 1, buffer |-> loop.buffer, out |-> loop.out]
    BY <1>1, LoopRecord
  <2> HIDE DEF next
  <2> QED
    BY <2>1, <2>2, LoopRecord
<1> HIDE DEF next
<1>3. Woken(W, n) = Woken(W, n - 1)
  BY DEF Woken
<1>4. Standing(b, W, n) = Standing(b, W, n - 1)
  BY DEF Standing
<1>5. Len(loop.out) <= n /\ next.at = n + 1 - Len(loop.out)
  <2>1. Len(loop.out) \in Nat /\ Len(loop.out) <= n - 1 /\ loop.at = n - 1 + 1 - Len(loop.out) /\ n \in Nat
    BY <1>1 DEF Turned
  <2> QED
    BY <1>2, <2>1
<1>6. \A k \in DOMAIN loop.buffer : k >= next.at => k >= loop.at
  BY <1>1, <1>2
<1>7. /\ Takes(loop.out, f, b, Woken(W, n - 1))
      /\ Takes(loop.buffer, g, b, Standing(b, W, n - 1))
      /\ Len(loop.buffer) = Len(b) - Len(loop.out)
      /\ MovedUp(loop.buffer, g, loop.at, Len(loop.out))
  BY DEF Turned
<1>8. Takes(next.out, f, b, Woken(W, n))
  BY <1>2, <1>3, <1>7, Zenon
<1>9. Takes(next.buffer, g, b, Standing(b, W, n))
  BY <1>2, <1>4, <1>7, Zenon
<1>10. /\ Len(next.out) <= n /\ Len(next.buffer) = Len(b) - Len(next.out)
       /\ MovedUp(next.buffer, g, next.at, Len(next.out))
  BY <1>2, <1>5, <1>6, <1>7, Zenon DEF MovedUp
<1>11. next.at = n + 1 - Len(next.out)
  BY <1>2, <1>5, Zenon
<1>12. Turned(S, b, W, n, next, f, g)
  BY <1>2, <1>8, <1>9, <1>10, <1>11, Zenon DEF Turned
<1> QED
  BY <1>12 DEF next

(* One that wakes comes last of those taken out ...                         *)
LEMMA VisitTakesOut ==
    ASSUME NEW S, NEW b \in Seq(S), NEW W \in SUBSET DOMAIN b, NEW n \in W,
           NEW out \in Seq(S), NEW f, Takes(out, f, b, Woken(W, n - 1))
    PROVE  /\ Append(out, b[n]) \in Seq(S) /\ Len(Append(out, b[n])) = Len(out) + 1
           /\ \E h : Takes(Append(out, b[n]), h, b, Woken(W, n))
<1> DEFINE r == Append(out, b[n])
           o == Len(out)
           h == [k \in 1 .. o + 1 |-> IF k = o + 1 THEN n ELSE f[k]]
<1>0. n \in Nat /\ b[n] \in S /\ o \in Nat /\ DOMAIN out = 1 .. o
  OBVIOUS
<1>1. /\ r \in Seq(S) /\ Len(r) = o + 1 /\ r[o + 1] = b[n]
      /\ \A k \in 1 .. o : r[k] = out[k]
  BY <1>0, AppendProperties
<1>2. DOMAIN r = 1 .. o + 1
  <2> HIDE DEF r, o
  <2> QED
    BY <1>1
<1>3. h[o + 1] = n /\ \A k \in 1 .. o : h[k] = f[k]
  BY <1>0
<1> HIDE DEF r, o, h
<1>4. /\ \A k \in 1 .. o : f[k] \in W /\ f[k] <= n - 1 /\ f[k] \in Nat /\ out[k] = b[f[k]]
      /\ \A a, c \in 1 .. o : a < c => f[a] < f[c]
  <2>1. W \subseteq Nat
    OBVIOUS
  <2>2. \A k \in DOMAIN out : f[k] \in W /\ f[k] <= n - 1 /\ out[k] = b[f[k]]
    BY DEF Takes, Woken
  <2>3. \A a, c \in DOMAIN out : a < c => f[a] < f[c]
    BY Zenon DEF Takes
  <2> HIDE DEF o
  <2> QED
    BY <1>0, <2>1, <2>2, <2>3
<1>5. \A a \in DOMAIN r : a \in 1 .. o \/ a = o + 1
  BY <1>0, <1>2
<1>6. \A a \in DOMAIN r : h[a] \in Woken(W, n) /\ r[a] = b[h[a]]
  <2> SUFFICES ASSUME NEW a \in DOMAIN r PROVE h[a] \in W /\ h[a] <= n /\ r[a] = b[h[a]]
    BY DEF Woken
  <2>1. CASE a \in 1 .. o
    <3>1. f[a] <= n
      BY <1>0, <1>4, <2>1
    <3> QED
      BY <1>1, <1>3, <1>4, <2>1, <3>1
  <2>2. CASE a = o + 1
    BY <1>0, <1>1, <1>3, <2>2
  <2> QED
    BY <1>5, <2>1, <2>2
<1>7. \A a, c \in DOMAIN r : a < c => h[a] < h[c]
  <2> SUFFICES ASSUME NEW a \in DOMAIN r, NEW c \in DOMAIN r, a < c PROVE h[a] < h[c]
    OBVIOUS
  <2>1. a \in 1 .. o
    BY <1>0, <1>2
  <2>2. CASE c \in 1 .. o
    BY <1>3, <1>4, <2>1, <2>2
  <2>3. CASE c = o + 1
    <3>1. f[a] < n
      BY <1>0, <1>4, <2>1
    <3> QED
      BY <1>3, <2>1, <2>3, <3>1
  <2> QED
    BY <1>5, <2>2, <2>3
<1>8. \A k \in Woken(W, n) : \E a \in DOMAIN r : h[a] = k
  <2> SUFFICES ASSUME NEW k \in W, k <= n PROVE \E a \in DOMAIN r : h[a] = k
    BY DEF Woken
  <2>1. CASE k = n
    <3>1. o + 1 \in DOMAIN r
      BY <1>0, <1>2
    <3> QED
      BY <1>3, <2>1, <3>1
  <2>2. CASE k # n
    <3>1. k <= n - 1
      BY <1>0, <2>2
    <3>2. PICK a \in DOMAIN out : f[a] = k
      BY <3>1 DEF Takes, Woken
    <3>3. a \in 1 .. o /\ a \in DOMAIN r
      BY <1>0, <1>2, <3>2
    <3> QED
      BY <1>3, <3>2, <3>3
  <2> QED
    BY <2>1, <2>2
<1>9. Takes(r, h, b, Woken(W, n))
  BY <1>6, <1>7, <1>8 DEF Takes
<1> QED
  BY <1>1, <1>9 DEF r, o

(* ... and those after it move up by one.                                   *)
LEMMA VisitMovesUp ==
    ASSUME NEW S, NEW b \in Seq(S), NEW W \in SUBSET DOMAIN b, NEW n \in W,
           NEW s \in Seq(S), NEW g, NEW at \in DOMAIN s, g[at] = n, NEW o \in Nat,
           Takes(s, g, b, Standing(b, W, n - 1)),
           MovedUp(s, g, at, o)
    PROVE  /\ RemoveOrderedIndex(s, at) \in Seq(S) /\ Len(RemoveOrderedIndex(s, at)) = Len(s) - 1
           /\ \E h : /\ Takes(RemoveOrderedIndex(s, at), h, b, Standing(b, W, n))
                     /\ MovedUp(RemoveOrderedIndex(s, at), h, at, o + 1)
<1> DEFINE r == RemoveOrderedIndex(s, at)
           m == Len(s)
           from(k) == IF k < at THEN k ELSE k + 1
           h == [k \in 1 .. m - 1 |-> g[from(k)]]
<1>0. n \in Nat /\ m \in Nat /\ DOMAIN s = 1 .. m /\ at \in 1 .. m
  OBVIOUS
<1>1. /\ r \in Seq(S) /\ Len(r) = m - 1
      /\ \A k \in DOMAIN r : r[k] = s[from(k)]
  BY RemovedLemma
<1>2. DOMAIN r = 1 .. m - 1
  BY <1>1
<1>3. \A k \in 1 .. m - 1 : h[k] = g[from(k)] /\ from(k) \in 1 .. m /\ from(k) # at
  BY <1>0
<1>4. \A k, l \in 1 .. m - 1 : k < l => from(k) < from(l)
  BY <1>0
<1>5. \A j \in 1 .. m : j # at => \E k \in 1 .. m - 1 : from(k) = j
  <2> SUFFICES ASSUME NEW j \in 1 .. m, j # at PROVE \E k \in 1 .. m - 1 : from(k) = j
    OBVIOUS
  <2>1. CASE j < at
    <3>1. j \in 1 .. m - 1 /\ from(j) = j
      BY <1>0, <2>1
    <3> QED
      BY <3>1
  <2>2. CASE j > at
    <3>1. j - 1 \in 1 .. m - 1 /\ from(j - 1) = j
      BY <1>0, <2>2
    <3> QED
      BY <3>1
  <2> QED
    BY <1>0, <2>1, <2>2
<1>6. \A k \in 1 .. m - 1 : k >= at => from(k) = k + 1 /\ from(k) >= at
  BY <1>0
<1> HIDE DEF r, m, from, h
<1>7. /\ \A j \in 1 .. m : g[j] \in DOMAIN b /\ (g[j] \notin W \/ g[j] > n - 1) /\ s[j] = b[g[j]] /\ g[j] \in Nat
      /\ \A j, k \in 1 .. m : j < k => g[j] < g[k]
  <2>1. DOMAIN b \subseteq Nat
    OBVIOUS
  <2>2. \A j \in DOMAIN s : g[j] \in DOMAIN b /\ (g[j] \notin W \/ g[j] > n - 1) /\ s[j] = b[g[j]]
    BY DEF Takes, Standing
  <2>3. \A j, k \in DOMAIN s : j < k => g[j] < g[k]
    BY Zenon DEF Takes
  <2> QED
    BY <1>0, <2>1, <2>2, <2>3
<1>8. \A j \in 1 .. m : j # at => g[j] # n
  <2> SUFFICES ASSUME NEW j \in 1 .. m, j # at, g[j] = n PROVE FALSE
    OBVIOUS
  <2>1. ~(g[j] < g[at]) /\ ~(g[at] < g[j])
    BY <1>0
  <2>2. j < at \/ at < j
    BY <1>0
  <2> QED
    BY <1>0, <1>7, <2>1, <2>2
<1>9. \A a \in DOMAIN r : h[a] \in Standing(b, W, n) /\ r[a] = b[h[a]]
  <2> SUFFICES ASSUME NEW a \in DOMAIN r
               PROVE  h[a] \in DOMAIN b /\ (h[a] \notin W \/ h[a] > n) /\ r[a] = b[h[a]]
    BY DEF Standing
  <2>1. h[a] = g[from(a)] /\ from(a) \in 1 .. m /\ from(a) # at /\ r[a] = s[from(a)]
    BY <1>1, <1>2, <1>3
  <2>2. g[from(a)] # n /\ g[from(a)] \in Nat /\ (g[from(a)] \notin W \/ g[from(a)] > n - 1)
    BY <1>7, <1>8, <2>1
  <2>3. g[from(a)] \notin W \/ g[from(a)] > n
    BY <1>0, <2>2
  <2> QED
    BY <1>7, <2>1, <2>3
<1>10. \A a, c \in DOMAIN r : a < c => h[a] < h[c]
  <2> SUFFICES ASSUME NEW a \in DOMAIN r, NEW c \in DOMAIN r, a < c PROVE h[a] < h[c]
    OBVIOUS
  <2>1. from(a) < from(c) /\ from(a) \in DOMAIN s /\ from(c) \in DOMAIN s
    BY <1>0, <1>2, <1>3, <1>4
  <2>2. g[from(a)] < g[from(c)]
    BY <2>1 DEF Takes
  <2> QED
    BY <1>2, <1>3, <2>2
<1>11. \A k \in Standing(b, W, n) : \E a \in DOMAIN r : h[a] = k
  <2> SUFFICES ASSUME NEW k \in DOMAIN b, k \notin W \/ k > n PROVE \E a \in DOMAIN r : h[a] = k
    BY DEF Standing
  <2>1. k # n /\ (k \notin W \/ k > n - 1)
    BY <1>0
  <2>2. PICK j \in DOMAIN s : g[j] = k
    BY <2>1 DEF Takes, Standing
  <2>3. j \in 1 .. m /\ j # at
    BY <1>0, <2>1, <2>2
  <2>4. PICK a \in 1 .. m - 1 : from(a) = j
    BY <1>5, <2>3
  <2> QED
    BY <1>2, <1>3, <2>2, <2>4
<1>12. \A k \in DOMAIN r : k >= at => h[k] = k + (o + 1)
  <2> SUFFICES ASSUME NEW k \in DOMAIN r, k >= at PROVE h[k] = k + (o + 1)
    OBVIOUS
  <2>1. h[k] = g[from(k)] /\ from(k) = k + 1 /\ from(k) >= at /\ from(k) \in DOMAIN s
    BY <1>0, <1>2, <1>3, <1>6
  <2>2. g[from(k)] = from(k) + o
    BY <2>1 DEF MovedUp
  <2>3. k \in Nat
    BY <1>2
  <2> QED
    BY <2>1, <2>2, <2>3
<1>13. Takes(r, h, b, Standing(b, W, n))
  BY <1>9, <1>10, <1>11 DEF Takes
<1> QED
  BY <1>1, <1>12, <1>13 DEF r, m, MovedUp

(* One turn decides one more record of b.                                   *)
LEMMA VisitStep ==
    ASSUME NEW S, NEW b \in Seq(S), NEW now, NEW rev, NEW n \in 1 .. Len(b), NEW loop,
           \E f, g : Turned(S, b, WokenAt(b, now, rev), n - 1, loop, f, g)
    PROVE  \E f, g : Turned(S, b, WokenAt(b, now, rev), n, Visit(loop, now, rev), f, g)
<1> DEFINE W == WokenAt(b, now, rev)
           o == Len(loop.out)
<1>0. W \in SUBSET DOMAIN b /\ n \in DOMAIN b /\ (n \in W <=> Wakes(b[n], now, rev)) /\ n \in Nat
  BY DEF WokenAt
<1> HIDE DEF W
<1>1. PICK f, g : Turned(S, b, W, n - 1, loop, f, g)
  BY DEF W
<1>2. /\ loop.at \in Nat /\ loop.at \in DOMAIN loop.buffer /\ ~(loop.at > Len(loop.buffer))
      /\ loop.at = n - o /\ g[loop.at] = n /\ loop.buffer[loop.at] = b[n]
      /\ loop.out \in Seq(S) /\ loop.buffer \in Seq(S)
  BY <1>0, <1>1, AtNext
<1>3. CASE n \notin W
  <2>1. Visit(loop, now, rev) = [loop EXCEPT !.at = @ + 1]
    BY <1>0, <1>2, <1>3 DEF Visit
  <2>2. Turned(S, b, W, n, [loop EXCEPT !.at = @ + 1], f, g)
    BY <1>0, <1>1, <1>3, VisitPasses
  <2> QED
    BY <2>1, <2>2 DEF W
<1>4. CASE n \in W
  <2> DEFINE out == Append(loop.out, b[n])
             rest == RemoveOrderedIndex(loop.buffer, loop.at)
             next == [at |-> loop.at, buffer |-> rest, out |-> out]
  <2>1. Visit(loop, now, rev) = next
    <3>1. loop = [at |-> loop.at, buffer |-> loop.buffer, out |-> loop.out]
      BY <1>1 DEF Turned
    <3>2. Visit(loop, now, rev) = [loop EXCEPT !.buffer = RemoveOrderedIndex(@, loop.at),
                                               !.out = Append(@, loop.buffer[loop.at])]
      BY <1>0, <1>2, <1>4 DEF Visit
    <3> QED
      BY <1>2, <3>1, <3>2
  <2>2. /\ o \in Nat /\ o <= n - 1 /\ Len(loop.buffer) = Len(b) - o /\ Len(b) \in Nat
        /\ Takes(loop.out, f, b, Woken(W, n - 1))
        /\ Takes(loop.buffer, g, b, Standing(b, W, n - 1))
        /\ MovedUp(loop.buffer, g, loop.at, o)
    BY <1>1, <1>2 DEF Turned
  <2>3. out \in Seq(S) /\ Len(out) = o + 1 /\ \E h : Takes(out, h, b, Woken(W, n))
    <3> HIDE DEF o
    <3>1. Len(loop.out) = o
      BY DEF o
    <3>2. /\ Append(loop.out, b[n]) \in Seq(S) /\ Len(Append(loop.out, b[n])) = Len(loop.out) + 1
          /\ \E h : Takes(Append(loop.out, b[n]), h, b, Woken(W, n))
      <4>1. W \in SUBSET DOMAIN b /\ n \in W /\ loop.out \in Seq(S)
        BY <1>0, <1>2, <1>4
      <4>2. Takes(loop.out, f, b, Woken(W, n - 1))
        BY <2>2
      <4> QED
        BY <4>1, <4>2, VisitTakesOut
    <3> QED
      BY <3>1, <3>2
  <2>4. /\ rest \in Seq(S) /\ Len(rest) = Len(loop.buffer) - 1
        /\ \E h : /\ Takes(rest, h, b, Standing(b, W, n))
                  /\ MovedUp(rest, h, loop.at, o + 1)
    <3> HIDE DEF o
    <3>1. W \in SUBSET DOMAIN b /\ n \in W
      BY <1>0, <1>4
    <3>2. loop.buffer \in Seq(S) /\ loop.at \in DOMAIN loop.buffer /\ g[loop.at] = n /\ o \in Nat
      BY <1>2, <2>2
    <3>3. Takes(loop.buffer, g, b, Standing(b, W, n - 1)) /\ MovedUp(loop.buffer, g, loop.at, o)
      BY <2>2
    <3> QED
      BY <3>1, <3>2, <3>3, VisitMovesUp
  <2> HIDE DEF out, rest
  <2>5. PICK h : Takes(out, h, b, Woken(W, n))
    BY <2>3
  <2>6. PICK k : /\ Takes(rest, k, b, Standing(b, W, n))
                 /\ MovedUp(rest, k, loop.at, o + 1)
    BY <2>4
  <2>7. /\ next \in [at : Nat, buffer : Seq(S), out : Seq(S)]
        /\ next.at = loop.at /\ next.buffer = rest /\ next.out = out
    <3>1. loop.at \in Nat /\ rest \in Seq(S) /\ out \in Seq(S)
      BY <1>2, <2>3, <2>4
    <3> QED
      BY <3>1, LoopRecord
  <2> HIDE DEF next, o
  <2>8. Len(out) <= n /\ loop.at = n + 1 - Len(out) /\ Len(rest) = Len(b) - Len(out)
    BY <1>0, <1>2, <2>2, <2>3, <2>4
  <2>9. MovedUp(rest, k, loop.at, Len(out))
    BY <2>3, <2>6, Zenon
  <2>10. Turned(S, b, W, n, next, h, k)
    BY <2>5, <2>6, <2>7, <2>8, <2>9, Zenon DEF Turned
  <2> QED
    BY <2>1, <2>10 DEF W
<1> QED
  BY <1>3, <1>4

(* The loop as a function: the states it goes through.                      *)
Turns(b, now, rev, f, n) ==
    f = [k \in 0 .. n |-> IF k = 0 THEN [at |-> 1, buffer |-> b, out |-> <<>>]
                                   ELSE Visit(f[k - 1], now, rev)]

LEMMA TurnsExist ==
    ASSUME NEW b, NEW now, NEW rev, NEW N \in Nat
    PROVE  \E f : Turns(b, now, rev, f, N)
<1> DEFINE first == [at |-> 1, buffer |-> b, out |-> <<>>]
           G == {n \in 0 .. N : \E f : Turns(b, now, rev, f, n)}
<1> HIDE DEF first
<1>1. 0 \in G
  <2> DEFINE f == [k \in 0 .. 0 |-> first]
  <2>1. f = [k \in 0 .. 0 |-> IF k = 0 THEN first ELSE Visit(f[k - 1], now, rev)]
    OBVIOUS
  <2> HIDE DEF f
  <2>2. Turns(b, now, rev, f, 0)
    BY <2>1 DEF Turns, first
  <2> QED
    BY <2>2
<1>2. ASSUME NEW n \in 1 .. N, n - 1 \in G PROVE n \in G
  <2>1. PICK f : Turns(b, now, rev, f, n - 1)
    BY <1>2
  <2> DEFINE g == [k \in 0 .. n |-> IF k = n THEN Visit(f[n - 1], now, rev) ELSE f[k]]
  <2>2. ASSUME NEW k \in 0 .. n
        PROVE  g[k] = IF k = 0 THEN first ELSE Visit(g[k - 1], now, rev)
    <3>1. CASE k = n
      BY <3>1, <1>2
    <3>2. CASE k # n
      <4>1. k \in 0 .. n - 1 /\ g[k] = f[k] /\ (k # 0 => k - 1 \in 0 .. n /\ k - 1 # n /\ g[k - 1] = f[k - 1])
        BY <1>2, <3>2
      <4> QED
        BY <2>1, <4>1 DEF Turns, first
    <3> QED
      BY <3>1, <3>2
  <2>3. Turns(b, now, rev, g, n)
    <3> HIDE DEF g
    <3>1. g = [k \in 0 .. n |-> g[k]]
      BY DEF g
    <3> QED
      BY <2>2, <3>1 DEF Turns, first
  <2> QED
    BY <2>3
<1> QED
  <2> HIDE DEF G
  <2>1. 0 .. N \subseteq G
    BY <1>1, <1>2, UpTo
  <2> QED
    BY <2>1 DEF G

(* A collection takes the records that wake and leaves the others, both in  *)
(* their order.                                                             *)
LEMMA CollectLemma ==
    ASSUME NEW S, NEW b \in Seq(S), NEW now, NEW rev
    PROVE  LET loop == CollectReactivatableRecords(b, now, rev)
               W == WokenAt(b, now, rev)
           IN  /\ loop.out \in Seq(S) /\ loop.buffer \in Seq(S)
               /\ Len(loop.buffer) + Len(loop.out) = Len(b)
               /\ \E f : Takes(loop.out, f, b, W)
               /\ \E g : Takes(loop.buffer, g, b, DOMAIN b \ W)
<1> DEFINE loop == CollectReactivatableRecords(b, now, rev)
           W == WokenAt(b, now, rev)
           N == Len(b)
           first == [at |-> 1, buffer |-> b, out |-> <<>>]
<1>0. N \in Nat /\ DOMAIN b = 1 .. N /\ W \in SUBSET DOMAIN b
  BY DEF WokenAt
<1>1. PICK t : Turns(b, now, rev, t, N) /\ loop = t[N]
  <2> DEFINE u == CHOOSE f : Turns(b, now, rev, f, N)
  <2>1. Turns(b, now, rev, u, N)
    BY <1>0, TurnsExist
  <2>2. loop = u[N]
    BY DEF CollectReactivatableRecords, Turns
  <2> QED
    BY <2>1, <2>2
<1> DEFINE G == {n \in 0 .. N : \E f, g : Turned(S, b, W, n, t[n], f, g)}
<1> HIDE DEF loop, W, first
<1>2. 0 \in G
  <2>1. t[0] = first
    BY <1>0, <1>1 DEF Turns, first
  <2> DEFINE g == [k \in 1 .. N |-> k]
  <2>2. /\ first \in [at : Nat, buffer : Seq(S), out : Seq(S)]
        /\ first.at = 1 /\ first.buffer = b /\ first.out = <<>>
    BY DEF first
  <2>3. Takes(<<>>, <<>>, b, Woken(W, 0))
    BY <1>0 DEF Takes, Woken
  <2>4. Takes(b, g, b, Standing(b, W, 0))
    BY <1>0 DEF Takes, Standing
  <2>5. \A k \in DOMAIN b : k >= 1 => g[k] = k + 0
    BY <1>0
  <2>6. Len(<<>>) = 0
    OBVIOUS
  <2> HIDE DEF g
  <2>7. Turned(S, b, W, 0, first, <<>>, g)
    BY <1>0, <2>2, <2>3, <2>4, <2>5, <2>6 DEF Turned, MovedUp
  <2> QED
    BY <1>0, <2>1, <2>7
<1>3. ASSUME NEW n \in 1 .. N, n - 1 \in G PROVE n \in G
  <2>1. \E f, g : Turned(S, b, W, n - 1, t[n - 1], f, g)
    BY <1>3
  <2>2. t[n] = Visit(t[n - 1], now, rev)
    <3>1. n \in 0 .. N /\ n # 0
      BY <1>0
    <3> HIDE DEF N
    <3> QED
      BY <1>1, <3>1 DEF Turns
  <2>3. \E f, g : Turned(S, b, W, n, t[n], f, g)
    BY <2>1, <2>2, VisitStep DEF W
  <2> QED
    BY <1>0, <2>3
<1>4. PICK f, g : Turned(S, b, W, N, loop, f, g)
  <2>1. N \in 0 .. N
    BY <1>0
  <2> HIDE DEF G, N
  <2>2. 0 .. N \subseteq G
    BY <1>0, <1>2, <1>3, UpTo
  <2> QED
    BY <1>1, <2>1, <2>2 DEF G
<1>5. Woken(W, N) = W
  BY <1>0 DEF Woken
<1>6. Standing(b, W, N) = DOMAIN b \ W
  BY <1>0 DEF Standing
<1>7. /\ loop.out \in Seq(S) /\ loop.buffer \in Seq(S) /\ Len(loop.buffer) = N - Len(loop.out)
      /\ Takes(loop.out, f, b, Woken(W, N))
      /\ Takes(loop.buffer, g, b, Standing(b, W, N))
  BY <1>4 DEF Turned
<1>8. Takes(loop.out, f, b, W) /\ Takes(loop.buffer, g, b, DOMAIN b \ W)
  BY <1>5, <1>6, <1>7, Zenon
<1>9. Len(loop.buffer) + Len(loop.out) = N
  BY <1>0, <1>7
<1> QED
  BY <1>7, <1>8, <1>9 DEF loop, W
=============================================================================
