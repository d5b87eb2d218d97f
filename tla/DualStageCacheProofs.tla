------------------------ MODULE DualStageCacheProofs ------------------------
(***************************************************************************)
(* What the two stages of DualStageCache owe each other, for all keys,     *)
(* hash functions, sizes and limits: an eviction of stage 1 finds the copy *)
(* of stage 0, because a key is only ever entered in its own line.         *)
(***************************************************************************)
EXTENDS DualStageCache, FiniteSetTheorems, TLAPS

Entry == [key : Key \cup {NoKey}, element : Key \cup {NoKey}]
Entries == [Line -> [Way -> Entry]]

-----------------------------------------------------------------------------
(* The entries of stage 0. *)

LEMMA LineOfKey == ASSUME NEW k \in Key PROVE LineOf(k) \in Line
BY CacheAssumption DEF LineOf, Line

\* Whatever is invalidated, an entry keeps its element and at most loses its key; it
\* loses the key that is invalidated if it is in the line of that key.
LEMMA InvalidatedEntry ==
    ASSUME NEW s \in Entries, NEW v
    PROVE  /\ Invalidate(s, v) \in Entries
           /\ \A l \in Line, w \in Way :
                /\ Invalidate(s, v)[l][w].element = s[l][w].element
                /\ Invalidate(s, v)[l][w].key \in {s[l][w].key, NoKey}
                /\ s[l][w].key = v /\ LineOf(v) = l
                       => Invalidate(s, v)[l][w].key = NoKey
<1> DEFINE m == LineOf(v)
           ways == [w \in Way |-> IF s[m][w].key = v
                                  THEN [s[m][w] EXCEPT !.key = NoKey]
                                  ELSE s[m][w]]
<1>1. Invalidate(s, v) = [s EXCEPT ![m] = ways]
  BY DEF Invalidate
<1>2. CASE m \in Line
  <2>1. ways \in [Way -> Entry]
    BY <1>2 DEF Entries, Entry
  <2>2. Invalidate(s, v) \in Entries
    BY <1>1, <1>2, <2>1 DEF Entries
  <2>3. ASSUME NEW l \in Line, NEW w \in Way
        PROVE  /\ Invalidate(s, v)[l][w].element = s[l][w].element
               /\ Invalidate(s, v)[l][w].key \in {s[l][w].key, NoKey}
               /\ s[l][w].key = v /\ LineOf(v) = l
                      => Invalidate(s, v)[l][w].key = NoKey
    <3>1. Invalidate(s, v)[l] = IF l = m THEN ways ELSE s[l]
      BY <1>1 DEF Entries
    <3>2. s[l][w] \in Entry
      BY DEF Entries
    <3>3. CASE l = m
      <4>1. Invalidate(s, v)[l][w] = IF s[l][w].key = v
                                     THEN [s[l][w] EXCEPT !.key = NoKey]
                                     ELSE s[l][w]
        BY <3>1, <3>3
      <4> QED BY <4>1, <3>2 DEF Entry
    <3>4. CASE l # m
      BY <3>1, <3>4
    <3> QED BY <3>3, <3>4
  <2> QED BY <2>2, <2>3
<1>3. CASE m \notin Line
  <2>1. Invalidate(s, v) = s
    BY <1>1, <1>3 DEF Entries
  <2> QED BY <2>1, <1>3
<1> QED BY <1>2, <1>3

\* The line's oldest entry has the key, and the element it had.
LEMMA RekeyedEntry ==
    ASSUME TypeOK, NEW k \in Key
    PROVE  /\ Rekeyed(k) \in Entries
           /\ \A l \in Line, w \in Way :
                /\ Rekeyed(k)[l][w].element = stage0[l][w].element
                /\ Rekeyed(k)[l][w].key = IF l = LineOf(k) /\ w = oldest[l]
                                          THEN k ELSE stage0[l][w].key
<1> DEFINE m == LineOf(k)
<1>1. /\ m \in Line
      /\ oldest[m] \in Way
      /\ stage0 \in Entries
  BY LineOfKey DEF TypeOK, Entries, Entry
<1>2. Rekeyed(k) = [stage0 EXCEPT ![m] =
                        [stage0[m] EXCEPT ![oldest[m]] =
                            [stage0[m][oldest[m]] EXCEPT !.key = k]]]
  BY DEF Rekeyed
<1>3. Rekeyed(k) \in Entries
  <2>1. stage0[m] \in [Way -> Entry] /\ stage0[m][oldest[m]] \in Entry
    BY <1>1 DEF Entries
  <2>2. [stage0[m][oldest[m]] EXCEPT !.key = k] \in Entry
    BY <2>1 DEF Entry
  <2>3. [stage0[m] EXCEPT ![oldest[m]] = [stage0[m][oldest[m]] EXCEPT !.key = k]]
            \in [Way -> Entry]
    BY <2>1, <2>2
  <2> QED BY <1>1, <1>2, <2>3 DEF Entries
<1>4. ASSUME NEW l \in Line, NEW w \in Way
      PROVE  /\ Rekeyed(k)[l][w].element = stage0[l][w].element
             /\ Rekeyed(k)[l][w].key = IF l = LineOf(k) /\ w = oldest[l]
                                       THEN k ELSE stage0[l][w].key
  BY <1>1, <1>2 DEF Entries, Entry
<1> QED BY <1>3, <1>4

-----------------------------------------------------------------------------
(* The queue of stage 1. *)

\* What is moved to the front was in the queue, and nothing is lost or held twice.
LEMMA MovedToFront ==
    ASSUME TypeOK, IsInjective(stage1), NEW k \in Cached
    PROVE  /\ MoveToFront(k) \in Seq(Key)
           /\ IsInjective(MoveToFront(k))
           /\ Cached = Range(MoveToFront(k))
<1> DEFINE p == PositionOf(k)
           n == Len(stage1)
           moved == MoveToFront(k)
<1>1. stage1 \in Seq(Key) /\ DOMAIN stage1 = 1 .. n /\ n \in Nat
  BY DEF TypeOK
<1>2. p \in 1 .. n /\ stage1[p] = k
  BY <1>1 DEF PositionOf, Cached, Range
<1>3. \A i \in 1 .. n : moved[i] = IF i = 1 THEN k
                                   ELSE IF i <= p THEN stage1[i - 1] ELSE stage1[i]
  BY <1>1, <1>2 DEF MoveToFront
<1>4. moved \in [1 .. n -> Key]
  <2>1. ASSUME NEW i \in 1 .. n PROVE moved[i] \in Key
    BY <1>1, <1>2, <1>3
  <2> QED BY <1>1, <2>1 DEF MoveToFront
<1>5. moved \in Seq(Key)
  BY <1>1, <1>4
<1>6. ASSUME NEW i \in 1 .. n, NEW j \in 1 .. n, i < j
      PROVE  moved[i] # moved[j]
  <2>. DEFINE from(x) == IF x = 1 THEN p ELSE IF x <= p THEN x - 1 ELSE x
  <2>1. \A x \in 1 .. n : moved[x] = stage1[from(x)] /\ from(x) \in 1 .. n
    BY <1>1, <1>2, <1>3
  <2>2. from(i) # from(j)
    BY <1>1, <1>2, <1>6
  <2>. HIDE DEF from, moved, n
  <2>3. DOMAIN stage1 = 1 .. n
    BY <1>1
  <2>. QED  BY <2>1, <2>2, <2>3 DEF IsInjective
<1>7. IsInjective(moved)
  BY <1>1, <1>4, <1>6 DEF IsInjective
<1>8. ASSUME NEW i \in 1 .. n PROVE \E j \in 1 .. n : stage1[i] = moved[j]
  <2>1. CASE i = p
    BY <2>1, <1>1, <1>2, <1>3
  <2>2. CASE i < p
    <3>1. i + 1 \in 1 .. n /\ moved[i + 1] = stage1[i]
      BY <2>2, <1>1, <1>2, <1>3
    <3> QED BY <3>1
  <2>3. CASE i > p
    BY <2>3, <1>1, <1>2, <1>3
  <2> QED BY <2>1, <2>2, <2>3, <1>1, <1>2
<1>9. ASSUME NEW i \in 1 .. n PROVE \E j \in 1 .. n : moved[i] = stage1[j]
  BY <1>1, <1>2, <1>3
<1>10. Cached = Range(moved)
  <2>1. DOMAIN stage1 = 1 .. n /\ DOMAIN moved = 1 .. n
    BY <1>1, <1>4
  <2>. HIDE DEF moved, n
  <2>2. \A x : x \in Cached <=> \E i \in 1 .. n : x = stage1[i]
    BY <2>1 DEF Cached, Range
  <2>3. \A x : x \in Range(moved) <=> \E i \in 1 .. n : x = moved[i]
    BY <2>1 DEF Range
  <2>4. \A x : x \in Cached <=> x \in Range(moved)
    BY SMTT(30), <2>2, <2>3, <1>8, <1>9
  <2>. QED  BY <2>4
<1> QED BY <1>5, <1>7, <1>10

\* Making room removes the last key of the queue, when there is one, and no other.
LEMMA KeptKeys ==
    ASSUME TypeOK, IsInjective(stage1)
    PROVE  /\ Kept \in Seq(Key)
           /\ IsInjective(Kept)
           /\ Range(Kept) \subseteq Cached
           /\ \A k \in Cached : ~(IsFull /\ k = LeastRecent) => k \in Range(Kept)
           /\ IsFull /\ stage1 # <<>> => LeastRecent \in Cached /\ LeastRecent \notin Range(Kept)
<1> DEFINE n == Len(stage1)
<1>1. stage1 \in Seq(Key) /\ DOMAIN stage1 = 1 .. n /\ n \in Nat
  BY DEF TypeOK
<1>2. CASE ~IsFull
  BY <1>1, <1>2 DEF Kept, Cached
<1>3. CASE IsFull
  <2>1. Kept = SubSeq(stage1, 1, n - 1)
    BY <1>3 DEF Kept
  <2>2. /\ Kept \in Seq(Key)
        /\ DOMAIN Kept = 1 .. n - 1
        /\ \A i \in 1 .. n - 1 : Kept[i] = stage1[i]
    <3>1. CASE n = 0
      BY <3>1, <2>1, <1>1
    <3>2. CASE n > 0
      BY <3>2, <2>1, <1>1
    <3> QED BY <3>1, <3>2, <1>1
  <2>3. IsInjective(Kept)
    BY <1>1, <2>2 DEF IsInjective
  <2>4. Range(Kept) \subseteq Cached
    BY <1>1, <2>2 DEF Range, Cached
  <2>5. ASSUME NEW k \in Cached, k # LeastRecent
        PROVE  k \in Range(Kept)
    <3>1. PICK i \in 1 .. n : stage1[i] = k
      BY <1>1 DEF Cached, Range
    <3>2. i \in 1 .. n - 1
      BY <3>1, <2>5, <1>1 DEF LeastRecent
    <3> QED BY <3>1, <3>2, <2>2 DEF Range
  <2>6. ASSUME stage1 # <<>> PROVE LeastRecent \in Cached /\ LeastRecent \notin Range(Kept)
    <3>1. n \in 1 .. n /\ LeastRecent = stage1[n] /\ \A i \in 1 .. n - 1 : i \in 1 .. n /\ i # n
      <4>1. n > 0
        BY <1>1, <2>6
      <4>2. LeastRecent = stage1[n]
        BY DEF LeastRecent
      <4>3. n \in 1 .. n /\ \A i \in 1 .. n - 1 : i \in 1 .. n /\ i # n
        <5>. HIDE DEF n
        <5> QED BY <1>1, <4>1
      <4> QED BY <4>2, <4>3
    <3>2. LeastRecent \in Cached
      BY <1>1, <3>1 DEF Cached, Range
    <3>3. \A i \in 1 .. n - 1 : Kept[i] # LeastRecent
      BY <1>1, <2>2, <3>1 DEF IsInjective
    <3> QED BY <2>2, <3>2, <3>3 DEF Range
  <2> QED BY <1>3, <2>2, <2>3, <2>4, <2>5, <2>6
<1> QED BY <1>2, <1>3

-----------------------------------------------------------------------------
(* Loading a key. *)

\* Once room is made: keys are in their lines, and a valid entry other than the one to
\* be replaced is a copy of an element that was kept.
LEMMA RoomIsMade ==
    ASSUME IInv, NEW k \in Key, NEW l \in Line, NEW w \in Way
    PROVE  LET e == Evicted(Rekeyed(k))[l][w]
           IN  /\ Evicted(Rekeyed(k)) \in Entries
               /\ e.element = stage0[l][w].element
               /\ e.key # NoKey => LineOf(e.key) = l
               /\ l = LineOf(k) /\ w = oldest[l] => e.key \in {k, NoKey}
               /\ /\ ~(l = LineOf(k) /\ w = oldest[l])
                  /\ e.key \in Key \ Unloadable
                  => e.key \in Range(Kept) /\ e.element = e.key
<1> DEFINE before == Rekeyed(k)[l][w]
           e == Evicted(Rekeyed(k))[l][w]
<1>1. TypeOK /\ IsInjective(stage1) /\ EntriesInLine /\ Stage0WithinStage1
  BY DEF IInv
<1>2. /\ Rekeyed(k) \in Entries
      /\ before.element = stage0[l][w].element
      /\ before.key = IF l = LineOf(k) /\ w = oldest[l] THEN k ELSE stage0[l][w].key
  BY <1>1, RekeyedEntry
<1>3. /\ Evicted(Rekeyed(k)) \in Entries
      /\ e.element = before.element
      /\ e.key \in {before.key, NoKey}
      /\ IsFull /\ before.key = LeastRecent /\ LineOf(LeastRecent) = l => e.key = NoKey
  BY <1>2, InvalidatedEntry DEF Evicted
<1>4. before.key # NoKey => LineOf(before.key) = l
  BY <1>1, <1>2 DEF EntriesInLine
<1>5. ASSUME ~(l = LineOf(k) /\ w = oldest[l]), e.key \in Key \ Unloadable
      PROVE  e.key \in Range(Kept) /\ e.element = e.key
  <2>1. e.key # NoKey
    BY <1>5, CacheAssumption
  <2>2. e.key = stage0[l][w].key /\ e.key = before.key
    BY <1>2, <1>3, <1>5, <2>1
  <2>3. e.key \in Cached /\ e.element = e.key
    BY <1>1, <1>2, <1>3, <1>5, <2>2 DEF Stage0WithinStage1
  <2>4. ~(IsFull /\ e.key = LeastRecent)
    BY <1>3, <1>4, <2>1, <2>2
  <2> QED BY <1>1, <2>3, <2>4, KeptKeys
<1> QED BY <1>2, <1>3, <1>4, <1>5

\* The entry that is replaced, written over by the element of its key.
Copied(s, l, w, k) == [s EXCEPT ![l][w].element = k]

LEMMA CopiedEntry ==
    ASSUME NEW s \in Entries, NEW l \in Line, NEW w \in Way, NEW k \in Key
    PROVE  /\ Copied(s, l, w, k) \in Entries
           /\ \A l2 \in Line, w2 \in Way :
                /\ Copied(s, l, w, k)[l2][w2].key = s[l2][w2].key
                /\ Copied(s, l, w, k)[l2][w2].element =
                        IF l2 = l /\ w2 = w THEN k ELSE s[l2][w2].element
<1>. DEFINE entry == [s[l][w] EXCEPT !.element = k]
            line == [s[l] EXCEPT ![w] = entry]
<1>1. Copied(s, l, w, k) = [s EXCEPT ![l] = line]
  BY DEF Copied
<1>2. s[l] \in [Way -> Entry] /\ s[l][w] \in Entry
  BY DEF Entries
<1>3. entry \in Entry /\ entry.key = s[l][w].key /\ entry.element = k
  BY <1>2 DEF Entry
<1>4. line \in [Way -> Entry] /\ \A w2 \in Way : line[w2] = IF w2 = w THEN entry ELSE s[l][w2]
  BY <1>2, <1>3
<1>. HIDE DEF entry, line
<1>5. Copied(s, l, w, k) \in Entries
  BY <1>1, <1>4 DEF Entries
<1>6. \A l2 \in Line : Copied(s, l, w, k)[l2] = IF l2 = l THEN line ELSE s[l2]
  BY <1>1 DEF Entries
<1>. QED  BY <1>3, <1>4, <1>5, <1>6

-----------------------------------------------------------------------------
(* The invariant, and every answer. *)

Inv == IInv /\ ExistingKeysAnswered

LEMMA InvInit == Init => Inv
<1> SUFFICES ASSUME Init PROVE Inv
  OBVIOUS
<1>1. TypeOK
  <2>1. oldest \in [Line -> Way] /\ stage1 \in Seq(Key)
    BY CacheAssumption DEF Init, Way
  <2> QED BY <2>1 DEF Init, TypeOK
<1>2. IsInjective(stage1)
  BY DEF Init, IsInjective
<1>3. EntriesInLine
  BY DEF Init, EntriesInLine
<1>4. Stage0WithinStage1
  BY CacheAssumption DEF Init, Stage0WithinStage1
<1>5. ExistingKeysAnswered
  BY CacheAssumption DEF Init, ExistingKeysAnswered
<1> QED BY <1>1, <1>2, <1>3, <1>4, <1>5 DEF Inv, IInv

\* The other way of a line is the next to be replaced.
LEMMA TouchInStep ==
    ASSUME TypeOK, NEW l \in Line, NEW w \in Way, Touch(l, w)
    PROVE  oldest' \in [Line -> Way]
<1>1. Ways - 1 - w \in Way
  BY CacheAssumption DEF Way
<1> QED BY <1>1 DEF TypeOK, Touch

LEMMA HitStage0InStep ==
    ASSUME Inv, NEW k \in Key, HitStage0(k)
    PROVE  Inv'
<1> DEFINE l == LineOf(k)
<1>1. PICK w \in WaysWith(k) : /\ Answer(k, stage0[l][w].element)
                               /\ Touch(l, w)
                               /\ UNCHANGED <<stage0, stage1, memory>>
  BY DEF HitStage0
<1>2. l \in Line /\ w \in Way /\ stage0[l][w].key = k
  BY LineOfKey, <1>1 DEF WaysWith
<1>3. TypeOK /\ EntriesInLine /\ Stage0WithinStage1 /\ IsInjective(stage1)
  BY DEF Inv, IInv
<1>4. oldest' \in [Line -> Way]
  BY <1>1, <1>2, <1>3, TouchInStep
<1>5. stage0[l][w].element \in Key \cup {NoKey}
  BY <1>2, <1>3 DEF TypeOK
<1>6. TypeOK'
  BY <1>1, <1>3, <1>4, <1>5 DEF TypeOK, Answer
<1>7. (EntriesInLine /\ Stage0WithinStage1 /\ IsInjective(stage1))'
  BY <1>1, <1>3 DEF EntriesInLine, Stage0WithinStage1, IsInjective, Cached, Range
<1>8. k \in Key \ Unloadable => stage0[l][w].element = k
  BY <1>2, <1>3 DEF Stage0WithinStage1
<1>9. ExistingKeysAnswered'
  BY <1>1, <1>8 DEF ExistingKeysAnswered, Answer
<1> QED BY <1>6, <1>7, <1>9 DEF Inv, IInv

LEMMA HitStage1InStep ==
    ASSUME Inv, NEW k \in Key, HitStage1(k)
    PROVE  Inv'
<1> DEFINE l == LineOf(k)
           w == oldest[l]
<1>1. /\ k \in Cached
      /\ stage1' = MoveToFront(k)
      /\ stage0' = Copied(Rekeyed(k), l, w, k)
      /\ Answer(k, k)
      /\ Touch(l, w)
  BY DEF HitStage1, Copied
<1>2. TypeOK /\ EntriesInLine /\ Stage0WithinStage1 /\ IsInjective(stage1)
  BY DEF Inv, IInv
<1>3. l \in Line /\ w \in Way
  BY LineOfKey, <1>2 DEF TypeOK
<1>4. stage1' \in Seq(Key) /\ IsInjective(stage1') /\ Cached' = Cached
  BY <1>1, <1>2, MovedToFront DEF Cached
<1>5. /\ Rekeyed(k) \in Entries
      /\ \A l2 \in Line, w2 \in Way :
            /\ Rekeyed(k)[l2][w2].element = stage0[l2][w2].element
            /\ Rekeyed(k)[l2][w2].key = IF l2 = l /\ w2 = w
                                        THEN k ELSE stage0[l2][w2].key
  BY <1>2, RekeyedEntry
<1>6. /\ stage0' \in Entries
      /\ \A l2 \in Line, w2 \in Way :
            /\ stage0'[l2][w2].key = Rekeyed(k)[l2][w2].key
            /\ stage0'[l2][w2].element = IF l2 = l /\ w2 = w THEN k
                                         ELSE Rekeyed(k)[l2][w2].element
  BY <1>1, <1>3, <1>5, CopiedEntry
<1>7. TypeOK'
  <2>1. oldest' \in [Line -> Way]
    BY <1>1, <1>2, <1>3, TouchInStep
  <2> QED BY <2>1, <1>1, <1>4, <1>6 DEF TypeOK, Answer, Entries, Entry
<1>8. EntriesInLine'
  BY <1>2, <1>5, <1>6 DEF EntriesInLine, LineOf
<1>9. Stage0WithinStage1'
  BY <1>1, <1>2, <1>4, <1>5, <1>6 DEF Stage0WithinStage1
<1>10. ExistingKeysAnswered'
  BY <1>1 DEF ExistingKeysAnswered, Answer
<1> QED BY <1>4, <1>7, <1>8, <1>9, <1>10 DEF Inv, IInv

LEMMA LoadInStep ==
    ASSUME Inv, NEW k \in Key, Load(k)
    PROVE  Inv'
<1> DEFINE l == LineOf(k)
           w == oldest[l]
           room == Evicted(Rekeyed(k))
<1>1. /\ k \notin Cached
      /\ stage1' = <<k>> \o Kept
      /\ stage0' = Copied(room, l, w, k)
      /\ Answer(k, k)
      /\ Touch(l, w)
  BY DEF Load, Copied
<1>2. IInv /\ TypeOK /\ IsInjective(stage1)
  BY DEF Inv, IInv
<1>3. l \in Line /\ w \in Way
  BY LineOfKey, <1>2 DEF TypeOK
<1>4. /\ Kept \in Seq(Key)
      /\ IsInjective(Kept)
      /\ Range(Kept) \subseteq Cached
  BY <1>2, KeptKeys
<1>5. /\ stage1' \in Seq(Key)
      /\ DOMAIN stage1' = 1 .. Len(Kept) + 1
      /\ \A i \in DOMAIN stage1' : stage1'[i] = IF i = 1 THEN k ELSE Kept[i - 1]
  BY <1>1, <1>4
<1>6. IsInjective(stage1')
  <2> SUFFICES ASSUME NEW i \in DOMAIN stage1', NEW j \in DOMAIN stage1', i < j
               PROVE  stage1'[i] # stage1'[j]
    BY <1>5 DEF IsInjective
  <2>1. j - 1 \in DOMAIN Kept /\ stage1'[j] = Kept[j - 1]
    BY <1>4, <1>5
  <2>2. CASE i = 1
    BY <2>1, <2>2, <1>1, <1>4, <1>5 DEF Range
  <2>3. CASE i # 1
    <3>1. i - 1 \in DOMAIN Kept /\ stage1'[i] = Kept[i - 1] /\ i - 1 # j - 1
      BY <2>3, <1>4, <1>5
    <3> QED BY <2>1, <3>1, <1>4 DEF IsInjective
  <2> QED BY <2>2, <2>3
<1>7. k \in Cached' /\ Range(Kept) \subseteq Cached'
  <2>1. stage1'[1] = k /\ 1 \in DOMAIN stage1'
    BY <1>4, <1>5
  <2>2. ASSUME NEW i \in DOMAIN Kept
        PROVE  i + 1 \in DOMAIN stage1' /\ stage1'[i + 1] = Kept[i]
    BY <1>4, <1>5
  <2> QED BY <2>1, <2>2 DEF Cached, Range
<1>8. room \in Entries
  BY <1>2, <1>3, RoomIsMade
<1>9. ASSUME NEW l2 \in Line, NEW w2 \in Way
      PROVE  /\ room[l2][w2].key # NoKey => LineOf(room[l2][w2].key) = l2
             /\ l2 = l /\ w2 = w => room[l2][w2].key \in {k, NoKey}
             /\ /\ ~(l2 = l /\ w2 = w)
                /\ room[l2][w2].key \in Key \ Unloadable
                => /\ room[l2][w2].key \in Range(Kept)
                   /\ room[l2][w2].element = room[l2][w2].key
  BY <1>2, RoomIsMade
<1>10. /\ stage0' \in Entries
       /\ \A l2 \in Line, w2 \in Way :
            /\ stage0'[l2][w2].key = room[l2][w2].key
            /\ stage0'[l2][w2].element = IF l2 = l /\ w2 = w THEN k
                                         ELSE room[l2][w2].element
  BY <1>1, <1>3, <1>8, CopiedEntry
<1>11. TypeOK'
  <2>1. oldest' \in [Line -> Way]
    BY <1>1, <1>2, <1>3, TouchInStep
  <2> QED BY <2>1, <1>1, <1>5, <1>10 DEF TypeOK, Answer, Entries, Entry
<1>12. EntriesInLine'
  BY <1>9, <1>10 DEF EntriesInLine, LineOf
<1>13. Stage0WithinStage1'
  <2> SUFFICES ASSUME NEW l2 \in Line, NEW w2 \in Way,
                      stage0'[l2][w2].key \in Key \ Unloadable
               PROVE  /\ stage0'[l2][w2].key \in Cached'
                      /\ stage0'[l2][w2].element = stage0'[l2][w2].key
    BY DEF Stage0WithinStage1
  <2>1. CASE l2 = l /\ w2 = w
    BY <2>1, <1>7, <1>9, <1>10, CacheAssumption
  <2>2. CASE ~(l2 = l /\ w2 = w)
    BY <2>2, <1>7, <1>9, <1>10
  <2> QED BY <2>1, <2>2
<1>14. ExistingKeysAnswered'
  BY <1>1 DEF ExistingKeysAnswered, Answer
<1> QED BY <1>6, <1>11, <1>12, <1>13, <1>14 DEF Inv, IInv

LEMMA FailToLoadInStep ==
    ASSUME Inv, NEW k \in Key, FailToLoad(k)
    PROVE  Inv'
<1> DEFINE l == LineOf(k)
           w == oldest[l]
<1>1. /\ k \in Unloadable
      /\ stage0' = Evicted(Rekeyed(k))
      /\ stage1' = Kept
      /\ Answer(k, Thrown)
      /\ oldest' = oldest
  BY DEF FailToLoad
<1>2. IInv /\ TypeOK /\ IsInjective(stage1)
  BY DEF Inv, IInv
<1>3. l \in Line /\ w \in Way
  BY LineOfKey, <1>2 DEF TypeOK
<1>4. stage1' \in Seq(Key) /\ IsInjective(stage1')
  BY <1>1, <1>2, KeptKeys
<1>5. stage0' \in Entries
  BY <1>1, <1>2, <1>3, RoomIsMade
<1>6. ASSUME NEW l2 \in Line, NEW w2 \in Way
      PROVE  /\ stage0'[l2][w2].key # NoKey => LineOf(stage0'[l2][w2].key) = l2
             /\ l2 = l /\ w2 = w => stage0'[l2][w2].key \in {k, NoKey}
             /\ /\ ~(l2 = l /\ w2 = w)
                /\ stage0'[l2][w2].key \in Key \ Unloadable
                => /\ stage0'[l2][w2].key \in Cached'
                   /\ stage0'[l2][w2].element = stage0'[l2][w2].key
  BY <1>1, <1>2, RoomIsMade DEF Cached
<1>7. TypeOK'
  BY <1>1, <1>2, <1>4, <1>5 DEF TypeOK, Answer, Entries, Entry
<1>8. EntriesInLine'
  BY <1>6 DEF EntriesInLine, LineOf
<1>9. Stage0WithinStage1'
  BY <1>1, <1>6, CacheAssumption DEF Stage0WithinStage1
<1>10. ExistingKeysAnswered'
  BY <1>1 DEF ExistingKeysAnswered, Answer
<1> QED BY <1>4, <1>7, <1>8, <1>9, <1>10 DEF Inv, IInv

LEMMA ClearInStep ==
    ASSUME Inv, Clear
    PROVE  Inv'
<1>1. /\ stage0' = [l \in Line |-> [w \in Way |-> [stage0[l][w] EXCEPT !.key = NoKey]]]
      /\ oldest' = [l \in Line |-> 0]
      /\ stage1' = <<>>
      /\ answer' = [key |-> NoKey, element |-> NoKey]
  BY DEF Clear, InvalidateLines, UnloadAll
<1>2. TypeOK
  BY DEF Inv, IInv
<1>3. stage0' \in Entries /\ \A l \in Line, w \in Way : stage0'[l][w].key = NoKey
  <2>1. ASSUME NEW l \in Line, NEW w \in Way
        PROVE  /\ [stage0[l][w] EXCEPT !.key = NoKey] \in Entry
               /\ [stage0[l][w] EXCEPT !.key = NoKey].key = NoKey
    <3>1. stage0[l][w] \in Entry
      BY <1>2 DEF TypeOK, Entry
    <3>. QED  BY <3>1 DEF Entry
  <2>. QED  BY <1>1, <2>1 DEF Entries
<1>4. TypeOK'
  <2>1. 0 \in Way
    BY CacheAssumption DEF Way
  <2> QED BY <2>1, <1>1, <1>3 DEF TypeOK, Entries, Entry
<1>5. IsInjective(stage1')
  BY <1>1 DEF IsInjective
<1>6. (EntriesInLine /\ Stage0WithinStage1 /\ ExistingKeysAnswered)'
  BY <1>1, <1>3, CacheAssumption
     DEF EntriesInLine, Stage0WithinStage1, ExistingKeysAnswered
<1> QED BY <1>4, <1>5, <1>6 DEF Inv, IInv

\* Every call of the cache keeps the two stages in agreement, and answers as it should.
THEOREM Invariance == Spec => []Inv
<1>1. ASSUME Inv, [Next]_vars PROVE Inv'
  <2>1. CASE UNCHANGED vars
    BY <2>1, <1>1 DEF Inv, IInv, TypeOK, IsInjective, EntriesInLine,
                      Stage0WithinStage1, ExistingKeysAnswered, vars, Cached, Range
  <2>2. CASE Clear
    BY <2>2, <1>1, ClearInStep
  <2>3. ASSUME NEW k \in Key, Get(k) PROVE Inv'
    <3>1. CASE HitStage0(k) BY <3>1, <1>1, HitStage0InStep
    <3>2. CASE HitStage1(k) BY <3>2, <1>1, HitStage1InStep
    <3>3. CASE Load(k) BY <3>3, <1>1, LoadInStep
    <3>4. CASE FailToLoad(k) BY <3>4, <1>1, FailToLoadInStep
    <3> QED BY <2>3, <3>1, <3>2, <3>3, <3>4 DEF Get
  <2> QED BY <1>1, <2>1, <2>2, <2>3 DEF Next
<1> QED BY InvInit, <1>1, PTL DEF Spec

\* Lines, queue and answers have their types (SACacheLine, LRUCache::m_queue).
THEOREM TypeCorrect == Spec => []TypeOK
<1>1. Inv => TypeOK BY DEF Inv, IInv
<1> QED BY Invariance, <1>1, PTL

\* No copy in stage 0 outlives the element of stage 1 it was made from, whatever the
\* hash function, the number of lines and the memory limit (cache.h:661).
THEOREM CopiesAreBacked == Spec => []Stage0WithinStage1
<1>1. Inv => Stage0WithinStage1 BY DEF Inv, IInv
<1> QED BY Invariance, <1>1, PTL

\* A key that can be loaded is answered with its element, also after loads of other
\* keys have thrown and left entries half replaced.
THEOREM AnswersAreRight == Spec => []ExistingKeysAnswered
<1>1. Inv => ExistingKeysAnswered BY DEF Inv
<1> QED BY Invariance, <1>1, PTL

-----------------------------------------------------------------------------
(* The memory of stage 1. *)

\* The elements of finitely many keys take finitely many units.
LEMMA FootprintFinite ==
    ASSUME NEW keys \in SUBSET Key, IsFiniteSet(keys)
    PROVE  IsFiniteSet(Footprint(keys)) /\ Cardinality(Footprint(keys)) \in Nat
<1>. DEFINE units == [k \in keys |-> {k} \X (1 .. Size[k])]
            parts == {units[k] : k \in keys}
<1>1. IsFiniteSet(parts)
  <2>1. units \in Surjection(keys, parts)
    BY DEF Surjection
  <2>. HIDE DEF units, parts
  <2>. QED  BY <2>1, FS_Surjection
<1>2. ASSUME NEW k \in keys PROVE IsFiniteSet(units[k])
  <2>1. Size[k] \in Int /\ 1 \in Int
    BY CacheAssumption
  <2>2. IsFiniteSet({k}) /\ IsFiniteSet(1 .. Size[k])
    BY <2>1, FS_Singleton, FS_Interval
  <2>3. IsFiniteSet({k} \X (1 .. Size[k]))
    BY <2>2, FS_Product
  <2>. QED  BY <2>3
<1>3. \A T \in parts : IsFiniteSet(T)
  BY <1>2
<1>4. Footprint(keys) = UNION parts
  BY DEF Footprint
<1>. HIDE DEF units, parts
<1>5. IsFiniteSet(Footprint(keys))
  BY <1>1, <1>3, <1>4, FS_UNION
<1>. QED  BY <1>5, FS_CardinalityType

\* One key more takes the size of its element more.
LEMMA FootprintGrows ==
    ASSUME NEW keys \in SUBSET Key, IsFiniteSet(keys), NEW k \in Key \ keys
    PROVE  Cardinality(Footprint(keys \cup {k})) = Cardinality(Footprint(keys)) + Size[k]
<1>. DEFINE own == {k} \X (1 .. Size[k])
<1>1. Size[k] \in Nat /\ Size[k] \in Int /\ 1 \in Int
  BY CacheAssumption
<1>2. IsFiniteSet({k}) /\ Cardinality({k}) = 1
  BY FS_Singleton
<1>3. IsFiniteSet(1 .. Size[k])
      /\ Cardinality(1 .. Size[k]) = IF 1 > Size[k] THEN 0 ELSE Size[k] - 1 + 1
  BY <1>1, FS_Interval
<1>4. IsFiniteSet(own) /\ Cardinality(own) = Cardinality({k}) * Cardinality(1 .. Size[k])
  BY <1>2, <1>3, FS_Product
<1>5. Cardinality(own) = Size[k]
  BY <1>1, <1>2, <1>3, <1>4
<1>6. IsFiniteSet(Footprint(keys)) /\ Cardinality(Footprint(keys)) \in Nat
  BY FootprintFinite
<1>7. Footprint(keys \cup {k}) = Footprint(keys) \cup own /\ Footprint(keys) \cap own = {}
  BY DEF Footprint
<1>8. Cardinality({}) = 0
  BY FS_EmptySet
<1>. HIDE DEF own
<1>9. Cardinality(Footprint(keys) \cup own)
        = Cardinality(Footprint(keys)) + Cardinality(own) - Cardinality(Footprint(keys) \cap own)
  BY <1>4, <1>6, FS_Union
<1>10. Cardinality(Footprint(keys) \cap own) = 0
  BY <1>7, <1>8
<1>11. Cardinality(Footprint(keys \cup {k})) = Cardinality(Footprint(keys) \cup own)
  BY <1>7
<1>. QED  BY <1>1, <1>5, <1>6, <1>9, <1>10, <1>11

\* The queue holds finitely many keys.
LEMMA CachedFinite ==
    ASSUME TypeOK
    PROVE  Cached \in SUBSET Key /\ IsFiniteSet(Cached)
<1>1. Len(stage1) \in Nat /\ stage1 \in [1 .. Len(stage1) -> Key]
  BY DEF TypeOK
<1>2. Cached \in SUBSET Key /\ stage1 \in Surjection(1 .. Len(stage1), Cached)
  BY <1>1 DEF Cached, Range, Surjection
<1>3. IsFiniteSet(1 .. Len(stage1))
  <2>1. 1 \in Int /\ Len(stage1) \in Int
    BY <1>1
  <2>. QED  BY <2>1, FS_Interval
<1>. QED  BY <1>2, <1>3, FS_Surjection

\* The element swapper accounts for what is in the queue.
Accounted == memory = Cardinality(Footprint(Cached))

\* With an empty queue it is not full.
LEMMA FullMeansFilled ==
    ASSUME Accounted, IsFull
    PROVE  stage1 # <<>>
<1>1. SUFFICES ASSUME stage1 = <<>> PROVE FALSE
  OBVIOUS
<1>2. Cached = {}
  BY <1>1 DEF Cached, Range
<1>3. Footprint(Cached) = {}
  BY <1>2 DEF Footprint
<1>4. memory = 0
  BY <1>3, FS_EmptySet DEF Accounted
<1>. QED  BY <1>4, CacheAssumption DEF IsFull

\* Making room frees what the evicted element takes.
LEMMA RoomAccounted ==
    ASSUME Inv, Accounted
    PROVE  /\ Range(Kept) \in SUBSET Cached /\ IsFiniteSet(Range(Kept))
           /\ memory - Freed = Cardinality(Footprint(Range(Kept)))
<1>1. TypeOK /\ IsInjective(stage1)
  BY DEF Inv, IInv
<1>2. Cached \in SUBSET Key /\ IsFiniteSet(Cached)
  BY <1>1, CachedFinite
<1>3. /\ Range(Kept) \in SUBSET Cached
      /\ \A k \in Cached : ~(IsFull /\ k = LeastRecent) => k \in Range(Kept)
      /\ IsFull /\ stage1 # <<>> => LeastRecent \in Cached /\ LeastRecent \notin Range(Kept)
  BY <1>1, KeptKeys
<1>4. IsFiniteSet(Range(Kept))
  BY <1>2, <1>3, FS_Subset
<1>5. CASE IsFull
  <2>1. LeastRecent \in Key \ Range(Kept) /\ Cached = Range(Kept) \cup {LeastRecent}
    BY <1>2, <1>3, <1>5, FullMeansFilled
  <2>2. memory = Cardinality(Footprint(Range(Kept))) + Size[LeastRecent]
    BY <1>2, <1>3, <1>4, <2>1, FootprintGrows DEF Accounted
  <2>3. Cardinality(Footprint(Range(Kept))) \in Nat
    BY <1>2, <1>3, <1>4, FootprintFinite
  <2>4. Size[LeastRecent] \in Nat
    BY <2>1, CacheAssumption
  <2>5. memory - Freed = Cardinality(Footprint(Range(Kept)))
    BY <1>5, <2>2, <2>3, <2>4 DEF Freed
  <2>. QED  BY <1>3, <1>4, <2>5
<1>6. CASE ~IsFull
  <2>1. Range(Kept) = Cached
    BY <1>3, <1>6
  <2>2. Cardinality(Footprint(Cached)) \in Nat
    BY <1>2, FootprintFinite
  <2>3. memory - Freed = Cardinality(Footprint(Range(Kept)))
    BY <1>6, <2>1, <2>2 DEF Freed, Accounted
  <2>. QED  BY <1>3, <1>4, <2>3
<1>. QED  BY <1>5, <1>6

\* Every call accounts for what it loads and unloads.
LEMMA GetAccounts ==
    ASSUME Inv, Accounted, NEW k \in Key, Get(k)
    PROVE  Accounted'
<1>1. TypeOK /\ IsInjective(stage1)
  BY DEF Inv, IInv
<1>2. CASE HitStage0(k)
  BY <1>2 DEF HitStage0, Accounted, Cached
<1>3. CASE HitStage1(k)
  <2>1. k \in Cached /\ stage1' = MoveToFront(k) /\ memory' = memory
    BY <1>3 DEF HitStage1
  <2>2. Cached' = Cached
    BY <1>1, <2>1, MovedToFront DEF Cached
  <2>. QED  BY <2>1, <2>2 DEF Accounted
<1>4. CASE Load(k)
  <2>1. k \notin Cached /\ stage1' = <<k>> \o Kept /\ memory' = memory - Freed + Size[k]
    BY <1>4 DEF Load
  <2>2. /\ Range(Kept) \in SUBSET Cached /\ IsFiniteSet(Range(Kept))
        /\ memory - Freed = Cardinality(Footprint(Range(Kept)))
    BY RoomAccounted
  <2>3. Cached' = Range(Kept) \cup {k}
    <3>1. Kept \in Seq(Key)
      BY <1>1, KeptKeys
    <3>2. /\ DOMAIN stage1' = 1 .. Len(Kept) + 1 /\ DOMAIN Kept = 1 .. Len(Kept)
          /\ \A i \in DOMAIN stage1' : stage1'[i] = IF i = 1 THEN k ELSE Kept[i - 1]
          /\ \A i \in DOMAIN Kept : i + 1 \in DOMAIN stage1' /\ stage1'[i + 1] = Kept[i]
          /\ 1 \in DOMAIN stage1'
          /\ \A i \in DOMAIN stage1' : i # 1 => i - 1 \in DOMAIN Kept
      BY <2>1, <3>1
    <3>3. ASSUME NEW x PROVE x \in Cached' <=> x \in Range(Kept) \cup {k}
      BY <3>2 DEF Cached, Range
    <3>. QED  BY <3>3
  <2>4. Range(Kept) \in SUBSET Key /\ k \in Key \ Range(Kept)
    BY <1>1, <2>1, <2>2, CachedFinite
  <2>5. Cardinality(Footprint(Range(Kept) \cup {k})) = Cardinality(Footprint(Range(Kept))) + Size[k]
    BY <2>2, <2>4, FootprintGrows
  <2>. QED  BY <2>1, <2>2, <2>3, <2>5 DEF Accounted
<1>5. CASE FailToLoad(k)
  <2>1. stage1' = Kept /\ memory' = memory - Freed
    BY <1>5 DEF FailToLoad
  <2>. QED  BY <2>1, RoomAccounted DEF Accounted, Cached
<1>. QED  BY <1>2, <1>3, <1>4, <1>5 DEF Get

\* The swapper's memory is always what the elements in the queue take, also after loads
\* that threw once room was made: unloading never takes off more than there is, and a full
\* cache has an element to evict (texturecache.cpp:189, cache.h:893).
THEOREM MemoryIsAccounted == Spec => []MemoryAccounted
<1>1. Init => Accounted
  <2>. SUFFICES ASSUME Init PROVE Accounted
    OBVIOUS
  <2>1. Cached = {} /\ memory = 0
    BY DEF Init, Cached, Range
  <2>2. Footprint(Cached) = {}
    BY <2>1 DEF Footprint
  <2>. QED  BY <2>1, <2>2, FS_EmptySet DEF Accounted
<1>2. Inv /\ Accounted /\ [Next]_vars => Accounted'
  <2>. SUFFICES ASSUME Inv, Accounted, [Next]_vars PROVE Accounted'
    OBVIOUS
  <2>1. CASE Clear
    <3>1. Cached' = {} /\ memory' = 0
      BY <2>1 DEF Clear, UnloadAll, Cached, Range
    <3>2. Footprint(Cached)' = {}
      BY <3>1 DEF Footprint
    <3>. QED  BY <3>1, <3>2, FS_EmptySet DEF Accounted
  <2>2. CASE UNCHANGED vars
    BY <2>2 DEF vars, Accounted, Cached
  <2>. QED  BY <2>1, <2>2, GetAccounts DEF Next
<1>3. Inv /\ Accounted => MemoryAccounted
  BY FullMeansFilled DEF Inv, IInv, Accounted, MemoryAccounted
<1>. QED  BY <1>1, <1>2, <1>3, Invariance, PTL DEF Spec

\* When every load succeeds, get() always answers with the element of its key: what the
\* documentation promises of a missing key as well fails only after a load that threw.
THEOREM AnswersWithoutThrow ==
    ASSUME Unloadable = {}
    PROVE  Spec => []AnswersTheKey
<1>. DEFINE KnownKey == answer.key \in Key \/ answer.key = answer.element
<1>1. Init => KnownKey
  BY DEF Init
<1>2. KnownKey /\ [Next]_vars => KnownKey'
  <2>1. ASSUME NEW k \in Key, Get(k) PROVE answer'.key = k
    BY <2>1 DEF Get, HitStage0, HitStage1, Load, FailToLoad, Answer
  <2>2. Clear => answer'.key = answer'.element
    BY DEF Clear
  <2>. QED  BY <2>1, <2>2 DEF Next, vars
<1>3. Inv /\ KnownKey => AnswersTheKey
  BY DEF Inv, ExistingKeysAnswered, AnswersTheKey
<1>. QED  BY <1>1, <1>2, <1>3, Invariance, PTL DEF Spec

=============================================================================
