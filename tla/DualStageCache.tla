--------------------------- MODULE DualStageCache ---------------------------
(***************************************************************************)
(* foundation/utility/cache.h: a set associative cache (stage 0) in front  *)
(* of an LRU cache (stage 1), with the element swappers of TextureCache    *)
(* and of AccessCacheMap behind them.  Every cache belongs to one thread,  *)
(* so a call is one step.                                                  *)
(*                                                                         *)
(* An element is represented by the key it was loaded for.  Stage 0 copies *)
(* elements out of stage 1 and owns nothing: when stage 1 unloads an       *)
(* element, it must invalidate the copy in stage 0.                        *)
(***************************************************************************)
EXTENDS Integers, Sequences, Functions, FiniteSets

CONSTANTS Key,
          Hash,        \* the key hasher
          NoKey,       \* the invalid key, and the element of an entry never loaded
          Thrown,      \* the answer of a call that threw
          Lines, Ways,
          Size,        \* memory of a key's element: 1 where is_full() counts elements
          Limit,       \* m_memory_limit, or Lines * Ways
          Unloadable   \* keys whose element swapper throws in load()

ASSUME CacheAssumption ==
    /\ Hash \in [Key -> Nat] /\ Size \in [Key -> Nat \ {0}]
    /\ NoKey \notin Key /\ Thrown \notin Key \cup {NoKey}
    /\ Lines \in Nat \ {0} /\ Ways \in {1, 2} /\ Limit \in Nat \ {0}
    /\ Unloadable \subseteq Key

VARIABLES stage0,  \* the entries of every line
          oldest,  \* m_oldest of every line (0 in a direct-mapped cache)
          stage1,  \* the keys in the LRU queue, most recently used first
          memory,  \* m_memory_size of the element swapper
          answer   \* the last call: its key, and the element it returned or Thrown

vars == <<stage0, oldest, stage1, memory, answer>>

Line == 0 .. Lines - 1
Way == 0 .. Ways - 1
Cached == Range(stage1)

LineOf(k) == Hash[k] % Lines
WaysWith(k) == {w \in Way : stage0[LineOf(k)][w].key = k}

Init ==
    /\ stage0 = [l \in Line |-> [w \in Way |-> [key |-> NoKey, element |-> NoKey]]]
    /\ oldest = [l \in Line |-> 0]
    /\ stage1 = <<>>
    /\ memory = 0
    /\ answer = [key |-> NoKey, element |-> NoKey]

-----------------------------------------------------------------------------

\* SACache::invalidate(): the entry keeps its element.
Invalidate(entries, k) ==
    [entries EXCEPT ![LineOf(k)] =
        [w \in Way |-> IF @[w].key = k THEN [@[w] EXCEPT !.key = NoKey] ELSE @[w]]]

\* SACacheLine::touch_entry()
Touch(l, w) == oldest' = [oldest EXCEPT ![l] = Ways - 1 - w]

\* m_index
PositionOf(k) == CHOOSE i \in DOMAIN stage1 : stage1[i] = k

\* LRUCache::get() of a cached key moves it to the front of the queue.
MoveToFront(k) ==
    [i \in DOMAIN stage1 |->
        CASE i = 1 -> k
          [] i \in 2 .. PositionOf(k) -> stage1[i - 1]
          [] OTHER -> stage1[i]]

Answer(k, element) == answer' = [key |-> k, element |-> element]

\* get(): the key is in its line.
HitStage0(k) ==
    \E w \in WaysWith(k) :
        /\ Answer(k, stage0[LineOf(k)][w].element)
        /\ Touch(LineOf(k), w)
        /\ UNCHANGED <<stage0, stage1, memory>>

\* The line's oldest entry is given the key before its element is known.
Rekeyed(k) == [stage0 EXCEPT ![LineOf(k)][oldest[LineOf(k)]].key = k]

\* Mutant: the element is not copied into stage 0.
HitStage1WithoutCopy(k) ==
    LET l == LineOf(k)
        w == oldest[l]
    IN  /\ WaysWith(k) = {}
        /\ k \in Cached
        /\ stage1' = MoveToFront(k)
        /\ stage0' = Rekeyed(k)
        /\ Answer(k, stage0[l][w].element)
        /\ Touch(l, w)
        /\ UNCHANGED memory

\* get(): the key is not in its line, but in the LRU cache.
HitStage1(k) ==
    LET l == LineOf(k)
        w == oldest[l]
    IN  /\ WaysWith(k) = {}
        /\ k \in Cached
        /\ stage1' = MoveToFront(k)
        /\ stage0' = [Rekeyed(k) EXCEPT ![l][w].element = k]
        /\ Answer(k, k)
        /\ Touch(l, w)
        /\ UNCHANGED memory

IsFull == memory >= Limit

\* m_queue.back()
LeastRecent == stage1[Len(stage1)]

\* Mutant: stage 0 is not told of the eviction.
EvictedUnnoticed(entries) == entries

\* What makes room in LRUCache::get() when the swapper is full: the last element of
\* the queue, which is also invalidated in stage 0.
Evicted(entries) == IF IsFull THEN Invalidate(entries, LeastRecent) ELSE entries
Kept == IF IsFull THEN SubSeq(stage1, 1, Len(stage1) - 1) ELSE stage1

\* Mutant: an unloaded element is still accounted for.
FreedNothing == 0

Freed == IF IsFull THEN Size[LeastRecent] ELSE 0

\* get(): the key is nowhere and its element is loaded.
Load(k) ==
    LET l == LineOf(k)
        w == oldest[l]
    IN  /\ WaysWith(k) = {}
        /\ k \notin Cached \cup Unloadable
        /\ stage1' = <<k>> \o Kept
        /\ stage0' = [Evicted(Rekeyed(k)) EXCEPT ![l][w].element = k]
        /\ memory' = memory - Freed + Size[k]
        /\ Answer(k, k)
        /\ Touch(l, w)

\* get(): load() throws, out of both caches.  Room was made already, and stage 0 has
\* given the key to an entry that holds the element of another, or none.
FailToLoad(k) ==
    /\ WaysWith(k) = {}
    /\ k \in Unloadable
    /\ stage0' = Evicted(Rekeyed(k))
    /\ stage1' = Kept
    /\ memory' = memory - Freed
    /\ Answer(k, Thrown)
    /\ UNCHANGED oldest

Get(k) == HitStage0(k) \/ HitStage1(k) \/ Load(k) \/ FailToLoad(k)

\* SACacheLine::invalidate() of every line: the entries keep their elements.
InvalidateLines ==
    /\ stage0' = [l \in Line |-> [w \in Way |-> [stage0[l][w] EXCEPT !.key = NoKey]]]
    /\ oldest' = [l \in Line |-> 0]

\* LRUCache::clear() unloads every element.
UnloadAll == stage1' = <<>> /\ memory' = 0

Clear ==
    /\ InvalidateLines
    /\ UnloadAll
    /\ answer' = [key |-> NoKey, element |-> NoKey]

Next == Clear \/ \E k \in Key : Get(k)

Spec == Init /\ [][Next]_vars

-----------------------------------------------------------------------------
(* Properties. *)

\* The size of memory is the business of MemoryAccounted.
TypeOK ==
    /\ stage0 \in [Line -> [Way -> [key : Key \cup {NoKey}, element : Key \cup {NoKey}]]]
    /\ oldest \in [Line -> Way]
    /\ stage1 \in Seq(Key)
    /\ answer \in [key : Key \cup {NoKey}, element : Key \cup {NoKey, Thrown}]

\* get() returns the element of the key it was asked for, or throws.  For a key that
\* does not exist: "Exception thrown when looking for an object that does not exist"
\* (lazy.h:259).
AnswersTheKey ==
    answer.element # Thrown =>
        answer.element = answer.key /\ answer.key \notin Unloadable

\* A load that failed does no harm to the keys that exist.
ExistingKeysAnswered == answer.key \in Key \ Unloadable => answer.element = answer.key

\* A valid entry of stage 0 is a copy of an element stage 1 still holds: no pointer in
\* it outlives the element (what the test's MyIntegrityChecker looks for).  Loads that
\* throw in between do not change that; only the key that failed has no element.
Stage0WithinStage1 ==
    \A l \in Line, w \in Way :
        LET e == stage0[l][w]
        IN  e.key \in Key \ Unloadable => e.key \in Cached /\ e.element = e.key

\* The units of memory that the elements of these keys take.
Footprint(keys) == UNION {{k} \X (1 .. Size[k]) : k \in keys}

\* The index and the queue of stage 1 hold every key once, and the swapper's memory is
\* what its elements take: "assert(m_memory_size >= tile_memory_size)" holds
\* (texturecache.cpp:189), and a full cache has an element to evict.
MemoryAccounted ==
    /\ IsInjective(stage1)
    /\ memory = Cardinality(Footprint(Cached))
    /\ IsFull => stage1 # <<>>

(* What the first two of these properties rest on. *)

\* A key is only ever looked for in its line.
EntriesInLine ==
    \A l \in Line, w \in Way : stage0[l][w].key # NoKey => LineOf(stage0[l][w].key) = l

\* Invalidating and evicting a key find all there is of it.
IInv ==
    /\ TypeOK
    /\ IsInjective(stage1)
    /\ EntriesInLine
    /\ Stage0WithinStage1

=============================================================================
