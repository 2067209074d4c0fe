------------------------- MODULE ClientThreadsProofs -------------------------
(***************************************************************************)
(* However many clients come and in whatever order their threads end: each *)
(* thread is joined once, by the loop that erases from the vector it walks *)
(* or by the end of the server.                                            *)
(***************************************************************************)
EXTENDS ClientThreads, FunctionProofs

(* The loop that joins threads, for every vector of ids: at any round what *)
(* was joined and what the vector still holds are the finished threads.    *)
Live(r) == {r.slots[k] : k \in 1..r.size}
Sound(r, finished, recorded) ==
    /\ r \in [slots : Seq(Range(finished)), size : 0..Len(finished),
              map : SUBSET recorded, joined : Seq(Range(finished)), lost : {FALSE}]
    /\ Len(r.slots) = Len(finished)
    /\ \A j, k \in 1..r.size : r.slots[j] = r.slots[k] => j = k
    /\ IsInjective(r.joined)
    /\ Range(r.joined) \cup Live(r) = Range(finished)
    /\ Range(r.joined) \cap Live(r) = {}
    /\ r.map = recorded \ Range(r.joined)

LEMMA ErasedSlots ==
    ASSUME NEW S, NEW r, r.slots \in Seq(S), r.size \in 1..Len(r.slots),
           NEW at \in 1..r.size
    PROVE  /\ Erased(r, at) \in Seq(S)
           /\ Len(Erased(r, at)) = Len(r.slots)
           /\ \A k \in 1..r.size - 1 :
                 Erased(r, at)[k] = IF k < at THEN r.slots[k] ELSE r.slots[k + 1]
<1> DEFINE slots == r.slots
           size == r.size
           n == Len(slots)
           before == SubSeq(slots, 1, at - 1)
           moved == SubSeq(slots, at + 1, size)
           kept == SubSeq(slots, size, n)
<1>0. \A s \in Seq(S) : \A i \in 1..Len(s) + 1, j \in 0..Len(s) : i <= j + 1 =>
         /\ SubSeq(s, i, j) \in Seq(S) /\ Len(SubSeq(s, i, j)) = j - i + 1
         /\ \A k \in 1..j - i + 1 : SubSeq(s, i, j)[k] = s[i + k - 1]
  OBVIOUS
<1>1. /\ slots \in Seq(S) /\ n \in Nat /\ size \in 1..n /\ at \in 1..size
      /\ Erased(r, at) = before \o moved \o kept
  BY DEF Erased
<1>2. /\ before \in Seq(S) /\ Len(before) = at - 1
      /\ \A k \in 1..at - 1 : before[k] = slots[k]
  <2>1. /\ before \in Seq(S) /\ Len(before) = at - 1 - 1 + 1
        /\ \A k \in 1..at - 1 - 1 + 1 : before[k] = slots[1 + k - 1]
    BY <1>0, <1>1
  <2> HIDE DEF before, slots
  <2> QED
    BY <1>1, <2>1
<1>3. /\ moved \in Seq(S) /\ Len(moved) = size - at
      /\ \A k \in 1..size - at : moved[k] = slots[at + k]
  <2>1. /\ moved \in Seq(S) /\ Len(moved) = size - (at + 1) + 1
        /\ \A k \in 1..size - (at + 1) + 1 : moved[k] = slots[at + 1 + k - 1]
    BY <1>0, <1>1
  <2> HIDE DEF moved, slots, size, n
  <2>2. size - (at + 1) + 1 = size - at
    BY <1>1
  <2>3. \A k \in 1..size - at : at + 1 + k - 1 = at + k
    BY <1>1
  <2> QED
    BY <2>1, <2>2, <2>3
<1>4. /\ kept \in Seq(S) /\ Len(kept) = n - size + 1
  BY <1>1
<1> HIDE DEF before, moved, kept, slots, size, n
<1>5. \A s, t \in Seq(S) :
         /\ s \o t \in Seq(S) /\ Len(s \o t) = Len(s) + Len(t)
         /\ \A k \in 1..Len(s) : (s \o t)[k] = s[k]
         /\ \A k \in 1..Len(t) : (s \o t)[Len(s) + k] = t[k]
  OBVIOUS
<1> DEFINE both == before \o moved
<1>6. /\ both \in Seq(S) /\ Len(both) = size - 1
      /\ \A k \in 1..at - 1 : both[k] = slots[k]
      /\ \A k \in at..size - 1 : both[k] = slots[k + 1]
  <2>1. both \in Seq(S) /\ Len(both) = size - 1
    <3>1. both \in Seq(S) /\ Len(both) = Len(before) + Len(moved)
      BY <1>2, <1>3, <1>5
    <3> QED
      BY <1>1, <1>2, <1>3, <3>1
  <2>2. \A k \in 1..at - 1 : both[k] = slots[k]
    BY <1>1, <1>2, <1>3, <1>5
  <2>3. ASSUME NEW k \in at..size - 1 PROVE both[k] = slots[k + 1]
    <3>1. /\ k - (at - 1) \in 1..size - at
          /\ (at - 1) + (k - (at - 1)) = k /\ at + (k - (at - 1)) = k + 1
      BY <1>1
    <3>2. both[(at - 1) + (k - (at - 1))] = moved[k - (at - 1)]
      BY <1>2, <1>3, <1>5, <3>1
    <3> QED
      BY <1>3, <3>1, <3>2
  <2> QED
    BY <2>1, <2>2, <2>3
<1> HIDE DEF both
<1>7. /\ both \o kept \in Seq(S) /\ Len(both \o kept) = n
      /\ \A k \in 1..size - 1 : (both \o kept)[k] = both[k]
  <2>1. /\ both \o kept \in Seq(S) /\ Len(both \o kept) = Len(both) + Len(kept)
        /\ \A k \in 1..Len(both) : (both \o kept)[k] = both[k]
    BY <1>4, <1>5, <1>6
  <2> QED
    BY <1>1, <1>4, <1>6, <2>1
<1>8. \A k \in 1..size - 1 :
         (both \o kept)[k] = IF k < at THEN slots[k] ELSE slots[k + 1]
  BY <1>1, <1>6, <1>7
<1> QED
  BY <1>1, <1>7, <1>8 DEF both, slots, size, n

LEMMA FindFinds ==
    ASSUME NEW r, r.size \in Nat, NEW id \in Live(r)
    PROVE  Find(r, id) \in 1..r.size /\ r.slots[Find(r, id)] = id
<1> DEFINE Places == {k \in 1..r.size : r.slots[k] = id}
<1>1. Places \subseteq Nat /\ Places # {}
  BY DEF Live
<1>2. \E k \in Places : \A m \in Places : k <= m
  BY <1>1, LeastNumber, Zenon
<1>3. Find(r, id) = IF Places # {} THEN Min(Places) ELSE 0
  BY DEF Find, SelectInSubSeq
<1>4. Min(Places) \in Places
  BY <1>2 DEF Min
<1> QED
  BY <1>1, <1>3, <1>4

LEMMA JoinOne ==
    ASSUME NEW before, NEW S, before \in Seq(S), IsInjective(before),
           NEW id \in S \ Range(before)
    PROVE  /\ Append(before, id) \in Seq(S) /\ IsInjective(Append(before, id))
           /\ Range(Append(before, id)) = Range(before) \cup {id}
           /\ Append(before, id) # <<>>
<1> DEFINE more == Append(before, id)
           n == Len(before)
<1>1. /\ more \in Seq(S) /\ n \in Nat /\ DOMAIN before = 1..n /\ DOMAIN more = 1..n + 1
      /\ \A k \in 1..n : more[k] = before[k]
      /\ more[n + 1] = id
      /\ more # <<>>
  OBVIOUS
<1> HIDE DEF more, n
<1>2. \A k \in 1..n : before[k] \in Range(before)
  BY <1>1 DEF Range
<1>3. IsInjective(more)
  BY <1>1, <1>2 DEF IsInjective
<1>4. Range(more) = Range(before) \cup {id}
  BY <1>1 DEF Range
<1> QED
  BY <1>1, <1>3, <1>4 DEF more

(* A round that joins takes the id out of the vector, wherever it is. *)
LEMMA RoundSound ==
    ASSUME NEW finished, NEW recorded, NEW r, Len(finished) \in Nat,
           Range(finished) \subseteq recorded,
           Sound(r, finished, recorded), NEW i \in 1..Len(finished)
    PROVE  /\ Sound(Round(r, i), finished, recorded)
           /\ r.joined # <<>> => Round(r, i).joined # <<>>
           /\ r.joined = <<>> => Round(r, i).joined # <<>>
<1> DEFINE S == Range(finished)
           n == Len(finished)
           id == r.slots[i]
<1>1. /\ r \in [slots : Seq(S), size : 0..n, map : SUBSET recorded, joined : Seq(S),
                lost : {FALSE}]
      /\ r.slots \in Seq(S) /\ Len(r.slots) = n /\ r.size \in 0..n
      /\ r.joined \in Seq(S) /\ r.lost = FALSE
  BY DEF Sound
<1>2. id \in S /\ n \in Nat
  BY <1>1
<1>3. CASE id \notin r.map
  <2>1. id \in Range(r.joined) /\ Round(r, i) = r
    BY <1>2, <1>3 DEF Sound, Round
  <2>2. r.joined # <<>>
    BY <2>1 DEF Range
  <2> QED
    BY <2>1, <2>2
<1>4. CASE id \in r.map
  <2> DEFINE joins == JoinThread(r, id)
             at == Find(joins, id)
             left == Erased(joins, at)
             after == EraseThread(joins, id)
  <2>1. id \in Live(r) /\ id \in S \ Range(r.joined)
    BY <1>2, <1>4 DEF Sound
  <2>2. /\ joins \in [slots : Seq(S), size : 0..n, map : SUBSET recorded,
                     joined : Seq(S), lost : {FALSE}]
        /\ joins.slots = r.slots /\ joins.size = r.size
        /\ joins.map = r.map \ {id} /\ joins.joined = Append(r.joined, id)
    <3>1. Append(r.joined, id) \in Seq(S)
      BY <1>1, <1>2
    <3> QED
      BY <1>1, <3>1 DEF JoinThread
  <2>3. at \in 1..r.size /\ r.slots[at] = id
    <3>1. id \in Live(joins) /\ joins.size \in Nat
      BY <1>1, <1>2, <2>1, <2>2 DEF Live
    <3> QED
      BY <2>2, <3>1, FindFinds
  <2>4. /\ left \in Seq(S) /\ Len(left) = n
        /\ \A k \in 1..r.size - 1 : left[k] = IF k < at THEN r.slots[k] ELSE r.slots[k + 1]
    <3>1. joins.slots \in Seq(S) /\ joins.size \in 1..Len(joins.slots)
          /\ at \in 1..joins.size
      BY <1>1, <1>2, <2>2, <2>3
    <3> QED
      BY <1>1, <2>2, <3>1, ErasedSlots
  <2>5. /\ r.size - 1 \in 0..n
        /\ r.size \in Nat /\ at \in Nat
    BY <1>1, <1>2, <2>3
  <2>6. /\ after \in [slots : Seq(S), size : 0..n, map : SUBSET recorded,
                      joined : Seq(S), lost : {FALSE}]
        /\ after.slots = left /\ after.size = r.size - 1
        /\ after.map = r.map \ {id} /\ after.joined = Append(r.joined, id)
    <3>1. after = [joins EXCEPT !.slots = left, !.size = @ - 1]
      BY <2>3 DEF EraseThread
    <3> HIDE DEF joins, left, after
    <3> QED
      BY <2>2, <2>4, <2>5, <3>1
  <2>7. Round(r, i) = after
    BY <1>4 DEF Round
  <2>8. \A j, k \in 1..r.size : r.slots[j] = r.slots[k] => j = k
    BY DEF Sound
  <2> HIDE DEF joins, at, left, after
  <2> DEFINE From(k) == IF k < at THEN k ELSE k + 1
  <2>9. \A k \in 1..r.size - 1 :
           From(k) \in 1..r.size /\ From(k) # at /\ left[k] = r.slots[From(k)]
    BY <2>3, <2>4, <2>5
  <2>10. Live(after) = Live(r) \ {id} /\ \A j, k \in 1..r.size - 1 : left[j] = left[k] => j = k
    <3>1. Live(after) = {left[k] : k \in 1..r.size - 1}
      BY <2>6 DEF Live
    <3>2. \A k \in 1..r.size - 1 : left[k] \in Live(r) \ {id}
      <4> HIDE DEF From
      <4> QED
        BY <2>3, <2>8, <2>9 DEF Live
    <3>3. ASSUME NEW j \in 1..r.size, r.slots[j] # id
          PROVE  \E k \in 1..r.size - 1 : left[k] = r.slots[j]
      <4>1. CASE j < at
        <5>1. j \in 1..r.size - 1
          BY <2>3, <2>5, <4>1
        <5> QED
          BY <2>9, <4>1, <5>1
      <4>2. CASE ~(j < at)
        <5>1. j # at
          BY <2>3, <3>3
        <5>2. j - 1 \in 1..r.size - 1 /\ ~(j - 1 < at) /\ j - 1 + 1 = j
          BY <2>3, <2>5, <4>2, <5>1
        <5> QED
          BY <2>9, <5>2
      <4> QED
        BY <4>1, <4>2
    <3>4. \A j, k \in 1..r.size - 1 : From(j) = From(k) => j = k
      BY <2>5
    <3>5. \A j, k \in 1..r.size - 1 : left[j] = left[k] => j = k
      <4> HIDE DEF From
      <4> QED
        BY <2>8, <2>9, <3>4
    <3>6. Live(r) \ {id} \subseteq Live(after)
      BY <3>1, <3>3 DEF Live
    <3> QED
      BY <3>1, <3>2, <3>5, <3>6
  <2>11. /\ IsInjective(after.joined) /\ after.joined # <<>>
         /\ Range(after.joined) = Range(r.joined) \cup {id}
    <3>1. IsInjective(r.joined)
      BY DEF Sound
    <3> QED
      BY <1>1, <2>1, <2>6, <3>1, JoinOne
  <2>12. Sound(after, finished, recorded)
    <3>1. /\ Range(after.joined) \cup Live(after) = Range(finished)
          /\ Range(after.joined) \cap Live(after) = {}
          /\ after.map = recorded \ Range(after.joined)
      BY <2>1, <2>6, <2>10, <2>11 DEF Sound
    <3> QED
      BY <2>4, <2>6, <2>10, <2>11, <3>1 DEF Sound
  <2> QED
    BY <2>7, <2>11, <2>12
<1> QED
  BY <1>3, <1>4

(* JoinJoinable's rounds as one function of their number. *)
Rounds(f, finished, recorded) ==
    f = [i \in 0..Len(finished) |->
            IF i = 0 THEN Records(finished, recorded) ELSE Round(f[i - 1], i)]

LEMMA RoundsAreChosen ==
    ASSUME NEW finished, NEW recorded
    PROVE  JoinJoinable(finished, recorded) =
               (CHOOSE f : Rounds(f, finished, recorded))[Len(finished)]
  BY DEF JoinJoinable, Rounds

LEMMA RoundsEnd ==
    ASSUME NEW finished, NEW recorded, Len(finished) \in Nat
    PROVE  \E f : Rounds(f, finished, recorded)
<1> DEFINE Upto(f, n) ==
               f = [i \in 0..n |-> IF i = 0 THEN Records(finished, recorded)
                                   ELSE Round(f[i - 1], i)]
           Done == {n \in Nat : \E f : Upto(f, n)}
<1>1. 0 \in Done
  <2>1. Upto([i \in 0..0 |-> Records(finished, recorded)], 0)
    OBVIOUS
  <2> QED
    BY <2>1
<1>2. ASSUME NEW n \in Nat, n \in Done
      PROVE  n + 1 \in Done
  <2>1. PICK f : Upto(f, n)
    BY <1>2
  <2> DEFINE g == [i \in 0..n + 1 |-> IF i = 0 THEN Records(finished, recorded)
                                      ELSE Round(f[i - 1], i)]
  <2>2. \A i \in 0..n : i \in 0..n + 1 /\ g[i] = f[i]
    <3>1. \A i \in 0..n : f[i] = IF i = 0 THEN Records(finished, recorded)
                                 ELSE Round(f[i - 1], i)
      BY <2>1
    <3> QED
      BY <3>1
  <2>3. \A i \in 0..n + 1 : i # 0 => i - 1 \in 0..n /\ g[i - 1] = f[i - 1]
    BY <2>2
  <2>4. Upto(g, n + 1)
    <3>1. \A i \in 0..n + 1 :
             (IF i = 0 THEN Records(finished, recorded) ELSE Round(f[i - 1], i))
             = IF i = 0 THEN Records(finished, recorded) ELSE Round(g[i - 1], i)
      <4> HIDE DEF g
      <4> QED
        BY <2>3
    <3> QED
      BY <3>1
  <2>5. \E h : Upto(h, n + 1)
    BY <2>4
  <2> HIDE DEF g, Upto
  <2> QED
    BY <2>5
<1>3. Nat \subseteq Done
  <2> HIDE DEF Done
  <2> QED
    BY <1>1, <1>2, Counting
<1> QED
  BY <1>3 DEF Rounds

LEMMA RecordsSound ==
    ASSUME NEW S, NEW finished \in Seq(S), IsInjective(finished), NEW recorded,
           Range(finished) \subseteq recorded
    PROVE  /\ Sound(Records(finished, recorded), finished, recorded)
           /\ Records(finished, recorded).joined = <<>>
<1> DEFINE r == Records(finished, recorded)
<1>1. /\ finished \in Seq(Range(finished)) /\ Len(finished) \in Nat
      /\ DOMAIN finished = 1..Len(finished)
  BY DEF Range
<1>2. /\ r.slots = finished /\ r.size = Len(finished) /\ r.map = recorded
      /\ r.joined = <<>>
      /\ r \in [slots : Seq(Range(finished)), size : 0..Len(finished),
                map : SUBSET recorded, joined : Seq(Range(finished)), lost : {FALSE}]
  BY <1>1 DEF Records
<1> HIDE DEF r
<1>3. IsInjective(<<>>) /\ Range(<<>>) = {}
  BY DEF IsInjective, Range
<1>4. Live(r) = Range(finished)
  BY <1>1, <1>2 DEF Live, Range
<1> QED
  BY <1>1, <1>2, <1>3, <1>4 DEF Sound, IsInjective, r

(* What the loop has done in the end, for every vector and any map that    *)
(* holds the threads of the vector.                                        *)
LEMMA LoopJoins ==
    ASSUME NEW finished, NEW recorded, finished \in Seq(recorded), IsInjective(finished)
    PROVE  LET after == JoinJoinable(finished, recorded)
               left == SubSeq(after.slots, 1, after.size)
           IN  /\ after.lost = FALSE
               /\ after.joined \in Seq(recorded) /\ IsInjective(after.joined)
               /\ left \in Seq(recorded) /\ IsInjective(left)
               /\ Range(after.joined) \cup Range(left) = Range(finished)
               /\ Range(after.joined) \cap Range(left) = {}
               /\ after.map = recorded \ Range(after.joined)
               /\ finished # <<>> => after.joined # <<>>
<1> DEFINE f == CHOOSE g : Rounds(g, finished, recorded)
           after == f[Len(finished)]
           left == SubSeq(after.slots, 1, after.size)
<1>1. Len(finished) \in Nat
  OBVIOUS
<1>2. JoinJoinable(finished, recorded) = after
  BY RoundsAreChosen
<1>3. Rounds(f, finished, recorded)
  BY <1>1, RoundsEnd
<1> HIDE DEF f
<1>4. /\ f[0] = Records(finished, recorded)
      /\ \A i \in 0..Len(finished) - 1 : f[i + 1] = Round(f[i], i + 1)
  <2>1. \A i \in 0..Len(finished) :
           f[i] = IF i = 0 THEN Records(finished, recorded) ELSE Round(f[i - 1], i)
    BY <1>3 DEF Rounds
  <2>2. f[0] = Records(finished, recorded)
    BY <1>1, <2>1
  <2>3. \A i \in 0..Len(finished) - 1 : /\ i + 1 \in 0..Len(finished) /\ i + 1 # 0
                                        /\ i + 1 - 1 = i
    BY <1>1
  <2> QED
    BY <2>1, <2>2, <2>3
<1>5. Range(finished) \subseteq recorded
  BY DEF Range
<1> DEFINE Done == {i \in Nat : i <= Len(finished) =>
                       /\ Sound(f[i], finished, recorded)
                       /\ i > 0 => f[i].joined # <<>>}
<1>6. 0 \in Done
  BY <1>1, <1>4, <1>5, RecordsSound
<1>7. ASSUME NEW i \in Nat, i \in Done
      PROVE  i + 1 \in Done
  <2> SUFFICES ASSUME i + 1 <= Len(finished)
               PROVE  Sound(f[i + 1], finished, recorded) /\ f[i + 1].joined # <<>>
    OBVIOUS
  <2>1. /\ i + 1 \in 1..Len(finished) /\ f[i + 1] = Round(f[i], i + 1)
        /\ Sound(f[i], finished, recorded)
    BY <1>1, <1>4, <1>7
  <2> HIDE DEF Done
  <2> QED
    BY <1>1, <1>5, <2>1, RoundSound
<1>8. Len(finished) \in Done
  <2> HIDE DEF Done
  <2>1. Nat \subseteq Done
    BY <1>6, <1>7, Counting
  <2> QED
    BY <1>1, <2>1
<1>9. Sound(after, finished, recorded) /\ (Len(finished) > 0 => after.joined # <<>>)
  BY <1>1, <1>8
<1> HIDE DEF after
<1>10. /\ left \in Seq(Range(finished)) /\ Range(left) = Live(after)
       /\ IsInjective(left)
  <2>1. \A S : \A s \in Seq(S) : \A n \in 0..Len(s) :
           /\ SubSeq(s, 1, n) \in Seq(S)
           /\ DOMAIN SubSeq(s, 1, n) = 1..n
           /\ \A k \in 1..n : SubSeq(s, 1, n)[k] = s[k]
    OBVIOUS
  <2>2. /\ after.slots \in Seq(Range(finished)) /\ after.size \in 0..Len(after.slots)
        /\ \A j, k \in 1..after.size : after.slots[j] = after.slots[k] => j = k
    BY <1>9 DEF Sound
  <2>3. /\ left \in Seq(Range(finished))
        /\ DOMAIN left = 1..after.size
        /\ \A k \in 1..after.size : left[k] = after.slots[k]
    BY <2>1, <2>2, Zenon
  <2> HIDE DEF left
  <2>4. Range(left) = Live(after)
    BY <2>3 DEF Range, Live
  <2>5. IsInjective(left)
    <3> SUFFICES ASSUME NEW j \in DOMAIN left, NEW k \in DOMAIN left, left[j] = left[k]
                 PROVE  j = k
      BY DEF IsInjective
    <3> QED
      BY <2>2, <2>3
  <2> QED
    BY <2>3, <2>4, <2>5
<1>11. finished # <<>> => Len(finished) > 0
  OBVIOUS
<1> HIDE DEF left
<1>12. \A s \in Seq(Range(finished)) : s \in Seq(recorded)
  BY <1>5
<1>13. /\ after.lost = FALSE
       /\ after.joined \in Seq(Range(finished)) /\ IsInjective(after.joined)
       /\ Range(after.joined) \cup Range(left) = Range(finished)
       /\ Range(after.joined) \cap Range(left) = {}
       /\ after.map = recorded \ Range(after.joined)
       /\ finished # <<>> => after.joined # <<>>
  BY <1>9, <1>10, <1>11 DEF Sound
<1> QED
  BY <1>2, <1>10, <1>12, <1>13 DEF left
-----------------------------------------------------------------------------
(* Vectors of different ids put one after the other. *)
LEMMA JoinMore ==
    ASSUME NEW S, NEW s \in Seq(S), NEW t \in Seq(S), IsInjective(s), IsInjective(t),
           Range(s) \cap Range(t) = {}
    PROVE  /\ s \o t \in Seq(S) /\ IsInjective(s \o t)
           /\ Range(s \o t) = Range(s) \cup Range(t)
<1> DEFINE both == s \o t
           n == Len(s)
<1>1. /\ both \in Seq(S) /\ n \in Nat /\ Len(t) \in Nat
      /\ DOMAIN s = 1..n /\ DOMAIN t = 1..Len(t) /\ DOMAIN both = 1..n + Len(t)
      /\ \A k \in 1..n : both[k] = s[k]
      /\ \A k \in 1..n + Len(t) : k > n => both[k] = t[k - n]
  OBVIOUS
<1> HIDE DEF both, n
<1>2. \A k \in 1..n : k \in DOMAIN both /\ both[k] \in Range(s)
  BY <1>1 DEF Range
<1>3. \A k \in DOMAIN both : ~(k \in 1..n) =>
         /\ k - n \in 1..Len(t) /\ both[k] = t[k - n] /\ both[k] \in Range(t)
  BY <1>1 DEF Range
<1>4. Range(both) = Range(s) \cup Range(t)
  <2>1. \A k \in 1..Len(t) : n + k \in DOMAIN both /\ both[n + k] = t[k]
    BY <1>1
  <2>2. Range(s) \cup Range(t) \subseteq Range(both)
    <3>1. \A k \in 1..n : s[k] \in Range(both)
      BY <1>1, <1>2 DEF Range
    <3>2. \A k \in 1..Len(t) : t[k] \in Range(both)
      BY <2>1 DEF Range
    <3> QED
      BY <1>1, <3>1, <3>2 DEF Range
  <2>3. Range(both) \subseteq Range(s) \cup Range(t)
    <3>1. \A k \in DOMAIN both : both[k] \in Range(s) \cup Range(t)
      BY <1>2, <1>3
    <3> QED
      BY <3>1 DEF Range
  <2> QED
    BY <2>2, <2>3
<1>5. ASSUME NEW j \in DOMAIN both, NEW k \in DOMAIN both, both[j] = both[k]
      PROVE  j = k
  <2>1. CASE j \in 1..n /\ k \in 1..n
    BY <1>1, <1>5, <2>1 DEF IsInjective
  <2>2. CASE ~(j \in 1..n) /\ ~(k \in 1..n)
    <3>1. j - n = k - n
      BY <1>1, <1>3, <1>5, <2>2 DEF IsInjective
    <3> QED
      BY <1>1, <3>1
  <2>3. (j \in 1..n) <=> (k \in 1..n)
    BY <1>2, <1>3, <1>5
  <2> QED
    BY <2>1, <2>2, <2>3
<1> QED
  BY <1>1, <1>4, <1>5 DEF IsInjective, both

LEMMA SetInOrder ==
    ASSUME NEW S, IsFiniteSet(S)
    PROVE  /\ SetToSeq(S) \in Seq(S) /\ IsInjective(SetToSeq(S))
           /\ Range(SetToSeq(S)) = S
<1> DEFINE n == Cardinality(S)
           f == SetToSeq(S)
<1>1. n \in Nat /\ ExistsBijection(1..n, S)
  BY FS_CardinalityType
<1>2. \E g \in [1..n -> S] : IsInjective(g)
  BY <1>1 DEF ExistsBijection, Bijection, Injection
<1>3. f \in [1..n -> S] /\ IsInjective(f)
  BY <1>2 DEF SetToSeq
<1> HIDE DEF f, n
<1>4. f \in Surjection(1..n, S)
  <2>1. IsFiniteSet(1..n) /\ Cardinality(1..n) = n
    BY <1>1, FS_Interval
  <2>2. f \in Injection(1..n, S)
    BY <1>3 DEF Injection
  <2> QED
    BY <2>1, <2>2, FS_Injection, Zenon DEF n
<1>5. Range(f) = S
  BY <1>3, <1>4 DEF Range, Surjection
<1>6. f \in Seq(S)
  BY <1>1, <1>3
<1> QED
  BY <1>3, <1>5, <1>6 DEF f

(* The map holds the threads that run and those of the vector, apart, and  *)
(* every other thread was joined once.                                     *)
Inv ==
    /\ main \in {"plays", "closed"}
    /\ thread_id \in Nat
    /\ joinable_threads \in Seq(Started) /\ IsInjective(joinable_threads)
    /\ joined \in Seq(Started) /\ IsInjective(joined)
    /\ lost = FALSE
    /\ running \subseteq Started /\ running \cap Range(joinable_threads) = {}
    /\ client_threads = running \cup Range(joinable_threads)
    /\ Range(joined) = IF main = "closed" THEN Started ELSE Started \ client_threads
    /\ main = "closed" => running = {}

LEMMA InitInv == TInit => Inv
<1>1. \A S : <<>> \in Seq(S)
  OBVIOUS
<1>2. IsInjective(<<>>) /\ Range(<<>>) = {}
  BY DEF IsInjective, Range
<1>3. TInit => Started = {}
  BY DEF TInit, Started
<1> SUFFICES ASSUME TInit PROVE Inv
  OBVIOUS
<1>4. /\ main = "plays" /\ thread_id = 0 /\ running = {} /\ client_threads = {}
      /\ joinable_threads = <<>> /\ joined = <<>> /\ lost = FALSE
  BY DEF TInit
<1>5. /\ IsInjective(joined) /\ IsInjective(joinable_threads)
      /\ Range(joined) = {} /\ Range(joinable_threads) = {}
  BY <1>2, <1>4
<1>6. thread_id \in Nat /\ joinable_threads \in Seq(Started) /\ joined \in Seq(Started)
  BY <1>1, <1>4
<1> HIDE DEF Started
<1> QED
  BY <1>3, <1>4, <1>5, <1>6, Zenon DEF Inv

LEMMA AcceptInv == Inv /\ StartThread => Inv'
<1> SUFFICES ASSUME Inv, StartThread PROVE Inv'
  OBVIOUS
<1>1. /\ thread_id \in Nat /\ thread_id' = thread_id + 1
      /\ Started' = Started \cup {thread_id} /\ thread_id \notin Started
  BY DEF Inv, StartThread, Started
<1>2. \A s \in Seq(Started) : s \in Seq(Started') /\ Range(s) \subseteq Started
  BY <1>1 DEF Range
<1>3. /\ main' = main /\ main = "plays"
      /\ joinable_threads' = joinable_threads /\ joined' = joined /\ lost' = lost
      /\ running' = running \cup {thread_id}
      /\ client_threads' = client_threads \cup {thread_id}
  BY DEF StartThread
<1> QED
  BY <1>1, <1>2, <1>3 DEF Inv

LEMMA EndsInv == ASSUME Inv, NEW id \in running, ThreadEnds(id) PROVE Inv'
<1>1. /\ running' = running \ {id}
      /\ joinable_threads' = Append(joinable_threads, id)
      /\ UNCHANGED <<main, thread_id, client_threads, joined, lost>>
  BY DEF ThreadEnds
<1>2. Started' = Started
  BY <1>1 DEF Started
<1>3. id \in Started \ Range(joinable_threads)
  BY DEF Inv
<1>4. /\ joinable_threads' \in Seq(Started) /\ IsInjective(joinable_threads')
      /\ Range(joinable_threads') = Range(joinable_threads) \cup {id}
  BY <1>1, <1>3, JoinOne DEF Inv
<1> QED
  BY <1>1, <1>2, <1>3, <1>4 DEF Inv

LEMMA TrickInv == Inv /\ JoinFinished => Inv'
<1> SUFFICES ASSUME Inv, JoinFinished PROVE Inv'
  OBVIOUS
<1> DEFINE after == JoinJoinable(joinable_threads, client_threads)
           left == SubSeq(after.slots, 1, after.size)
<1>1. /\ main = "plays" /\ joinable_threads' = left /\ client_threads' = after.map
      /\ joined' = joined \o after.joined /\ lost' = (lost \/ after.lost)
      /\ UNCHANGED <<main, thread_id, running>>
  BY DEF JoinFinished
<1>2. Started' = Started /\ client_threads \subseteq Started
  <2>1. Range(joinable_threads) \subseteq Started
    BY DEF Inv, Range
  <2> QED
    BY <1>1, <2>1 DEF Inv, Started
<1>3. joinable_threads \in Seq(client_threads) /\ IsInjective(joinable_threads)
  <2>1. joinable_threads \in Seq(Range(joinable_threads))
    BY DEF Inv, Range
  <2>2. Range(joinable_threads) \subseteq client_threads
    BY DEF Inv
  <2> QED
    BY <2>1, <2>2 DEF Inv
<1>4. /\ after.lost = FALSE
      /\ after.joined \in Seq(client_threads) /\ IsInjective(after.joined)
      /\ left \in Seq(client_threads) /\ IsInjective(left)
      /\ Range(after.joined) \cup Range(left) = Range(joinable_threads)
      /\ Range(after.joined) \cap Range(left) = {}
      /\ after.map = client_threads \ Range(after.joined)
  BY <1>3, LoopJoins
<1> HIDE DEF after, left
<1>5. \A s \in Seq(client_threads) : s \in Seq(Started)
  BY <1>2
<1>6. /\ joined' \in Seq(Started) /\ IsInjective(joined')
      /\ Range(joined') = Range(joined) \cup Range(after.joined)
  <2>1. after.joined \in Seq(Started)
    BY <1>4, <1>5
  <2>2. Range(joined) \cap Range(after.joined) = {}
    BY <1>1, <1>4 DEF Inv
  <2> QED
    BY <1>1, <1>4, <2>1, <2>2, JoinMore DEF Inv
<1>7. /\ joinable_threads' \in Seq(Started) /\ IsInjective(joinable_threads')
      /\ lost' = FALSE
  BY <1>1, <1>4, <1>5 DEF Inv
<1>8. /\ client_threads' = running \cup Range(left)
      /\ running \cap Range(left) = {}
      /\ Range(joined') = Started \ client_threads'
  BY <1>1, <1>2, <1>4, <1>6 DEF Inv
<1> QED
  BY <1>1, <1>2, <1>6, <1>7, <1>8 DEF Inv

LEMMA CloseInv == Inv /\ JoinRest => Inv'
<1> SUFFICES ASSUME Inv, JoinRest PROVE Inv'
  OBVIOUS
<1>1. /\ main = "plays" /\ main' = "closed" /\ running = {}
      /\ joined' = joined \o SetToSeq(client_threads)
      /\ UNCHANGED <<thread_id, running, client_threads, joinable_threads, lost>>
  BY DEF JoinRest, Inv
<1>2. Started' = Started /\ client_threads \subseteq Started
  <2>1. Range(joinable_threads) \subseteq Started
    BY DEF Inv, Range
  <2> QED
    BY <1>1, <2>1 DEF Inv, Started
<1>3. IsFiniteSet(client_threads)
  <2>1. IsFiniteSet(Started)
    BY FS_Interval DEF Inv, Started
  <2> QED
    BY <1>2, <2>1, FS_Subset
<1> DEFINE rest == SetToSeq(client_threads)
<1>4. rest \in Seq(client_threads) /\ IsInjective(rest) /\ Range(rest) = client_threads
  BY <1>3, SetInOrder
<1> HIDE DEF rest
<1>5. /\ joined' \in Seq(Started) /\ IsInjective(joined')
      /\ Range(joined') = Range(joined) \cup client_threads
  <2>1. rest \in Seq(Started)
    BY <1>2, <1>4
  <2>2. Range(joined) \cap Range(rest) = {} /\ joined' = joined \o rest
    BY <1>1, <1>4 DEF Inv, rest
  <2> QED
    BY <1>4, <2>1, <2>2, JoinMore DEF Inv
<1>6. Range(joined') = Started
  BY <1>1, <1>2, <1>5 DEF Inv
<1> QED
  BY <1>1, <1>2, <1>5, <1>6 DEF Inv

LEMMA NextInv == Inv /\ [TNext]_recordVars => Inv'
<1>1. Inv /\ UNCHANGED recordVars => Inv'
  <2> SUFFICES ASSUME Inv, UNCHANGED recordVars PROVE Inv'
    OBVIOUS
  <2>1. Started' = Started
    BY DEF recordVars, Started
  <2> QED
    BY <2>1 DEF Inv, recordVars
<1> QED
  BY <1>1, AcceptInv, EndsInv, TrickInv, CloseInv DEF TNext

(* However many clients came and went, the loop that erases from the vector *)
(* it walks has joined finished threads only, none of them twice, and kept  *)
(* both records of the others; it would join one now if any has finished;   *)
(* and after the end of the server every thread was joined once.            *)
THEOREM FinishedThreadsAreJoined == TSpec => []ThreadsAreJoined
<1>1. Inv => ThreadsAreJoined
  <2> SUFFICES ASSUME Inv PROVE ThreadsAreJoined
    OBVIOUS
  <2>1. joinable_threads \in Seq(client_threads)
    <3>1. joinable_threads \in Seq(Range(joinable_threads))
      BY DEF Inv, Range
    <3> QED
      BY <3>1 DEF Inv
  <2>2. joinable_threads # <<>> =>
           JoinJoinable(joinable_threads, client_threads).joined # <<>>
    BY <2>1, LoopJoins DEF Inv
  <2> QED
    BY <2>2 DEF Inv, ThreadsAreJoined
<1> QED
  BY <1>1, InitInv, NextInv, PTL DEF TSpec
=============================================================================
