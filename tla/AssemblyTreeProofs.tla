-------------------------- MODULE AssemblyTreeProofs --------------------------
(***************************************************************************)
(* The inductive invariant of AssemblyTree: for any number of workers,     *)
(* assemblies, cache lines, edits and failing builds, the references to    *)
(* the trees are counted exactly, refer to trees that exist, and every     *)
(* tree is built once, from the regions that its version stands for.       *)
(*                                                                         *)
(* The half that is about versions is disturbed by the user and the master *)
(* thread only; the half that is about references by the workers, and by   *)
(* the master thread when there is no intersector or all are released.     *)
(***************************************************************************)
EXTENDS AssemblyTree, FiniteSetTheorems, SequenceTheorems, TLAPS

\* The versions of the assemblies against those of their trees.
VersionInv ==
    /\ VersionsCountEdits
    /\ StoredVersionsPast
    /\ TreesUpToDate
    /\ TreesNumbered
    /\ ItemsHaveTrees

\* The references to the trees.
ReferenceInv ==
    /\ NoIntersectors
    /\ LookupsInStep
    /\ LinesDistinct
    /\ CachesCurrent
    /\ BuildsLocked
    /\ CountsAccesses

-----------------------------------------------------------------------------
(* Trees. *)

\* The Access that refers to nothing is told apart from every tree.
LEMMA NoTreeIsNoTree == NoTree \notin Tree
BY DEF NoTree, Tree

\* A tree belongs to an assembly.
LEMMA TreeOfAssembly == \A t \in Tree : t[1] \in Assembly
BY DEF Tree

\* There are as many trees as versions, so the last tree of an assembly has a name.
LEMMA CurrentTreeExists ==
    ASSUME TypeOK, VersionInv, NEW a \in Assembly, number[a] # 0
    PROVE  CurrentTree(a) \in Tree /\ CurrentTree(a)[1] = a
<1>1. number[a] \in Nat /\ stored[a] \in Nat /\ version[a] \in Nat /\ edits \in Nat
  BY DEF TypeOK
<1>2. number[a] <= stored[a] /\ stored[a] <= version[a]
  BY DEF VersionInv, TreesNumbered, StoredVersionsPast
<1>3. edits <= MaxEdits /\ version[a] <= edits + 1
  BY <1>1 DEF VersionInv, VersionsCountEdits
<1>4. number[a] \in 1 .. MaxEdits + 1
  BY <1>1, <1>2, <1>3, TreeAssumption
<1>. QED  BY <1>4 DEF CurrentTree, Tree

\* The bounds are numbers.
LEMMA Bounds == MaxEdits \in Nat /\ MaxThrows \in Nat /\ AssemblyCount \in Nat
BY TreeAssumption

\* The entries of stage 0 are numbered from 0.
LEMMA EntryOfAssembly == \A a \in Assembly : EntryOf(a) \in Entry
<1>. SUFFICES ASSUME NEW a \in Assembly PROVE EntryOf(a) \in Entry
  OBVIOUS
<1>1. a \in Nat /\ AssemblyCount \in Nat /\ Lines \in Nat \ {0}
  BY TreeAssumption DEF Assembly
<1>. QED  BY <1>1, SMT DEF EntryOf, Entry

-----------------------------------------------------------------------------
(* Versions. *)

\* Nothing has been edited or built yet.
LEMMA InitVersionInv == Init => VersionInv
BY TreeAssumption
   DEF Init, VersionInv, VersionsCountEdits, StoredVersionsPast, TreesUpToDate, TreesNumbered,
       ItemsHaveTrees, InvalidKey, Assembly

\* A step that leaves the scene and the trees alone, while rays are traced.
LEMMA VersionsUndisturbed ==
    ASSUME VersionInv, UNCHANGED <<sceneVars, treeVars>>, phase = "tracing"
    PROVE  VersionInv'
BY DEF VersionInv, VersionsCountEdits, StoredVersionsPast, TreesUpToDate, TreesNumbered,
       ItemsHaveTrees, NextToDo, sceneVars, treeVars

\* An edit counts for the version before it is over, and exempts the assembly meanwhile.
LEMMA UserVersionInv == ASSUME TypeOK, VersionInv, UserStep PROVE VersionInv'
<1>0. InvalidKey \notin Assembly
  BY Bounds DEF InvalidKey, Assembly
<1>1. \A a \in Assembly : version[a] \in Nat /\ stored[a] \in Nat
  BY DEF TypeOK
<1>2. edits \in Nat
  BY DEF TypeOK
<1>3. ASSUME NEW b \in Assembly, EditObjects(b) PROVE VersionInv'
  <2>1. /\ edits' = edits + 1 /\ edits < MaxEdits
        /\ changing = InvalidKey /\ changing' = b
        /\ UNCHANGED <<version, phase, todo, reading, items, stored, number, captured>>
    BY <1>3 DEF EditObjects, EditBegins, treeVars
  <2>2. \A a \in Assembly : a # b => content'[a] = content[a]
    BY <1>3 DEF EditObjects, TypeOK
  <2>3. VersionsCountEdits'
    <3>1. edits' <= MaxEdits
      BY <1>2, <2>1, Bounds
    <3>2. ASSUME NEW a \in Assembly
          PROVE  version'[a] + (IF a = changing' THEN 1 ELSE 0) <= edits' + 1
      <4>1. version[a] <= edits + 1
        BY <1>0, <1>1, <1>2, <2>1 DEF VersionInv, VersionsCountEdits
      <4>. QED  BY <4>1, <1>1, <1>2, <2>1
    <3>. QED  BY <3>1, <3>2 DEF VersionsCountEdits
  <2>4. TreesUpToDate'
    BY <1>0, <2>1, <2>2 DEF VersionInv, TreesUpToDate
  <2>5. (StoredVersionsPast /\ TreesNumbered /\ ItemsHaveTrees)'
    BY <2>1 DEF VersionInv, StoredVersionsPast, NextToDo, TreesNumbered, ItemsHaveTrees
  <2>. QED  BY <2>3, <2>4, <2>5 DEF VersionInv
<1>4. CASE \E a \in Assembly : EditInstances(a) \/ RemoveAssembly(a)
  <2>1. /\ edits' = edits + 1 /\ edits < MaxEdits
        /\ UNCHANGED <<content, version, changing, phase, treeVars>>
    BY <1>4 DEF EditInstances, RemoveAssembly, EditBegins
  <2>2. VersionsCountEdits'
    <3>1. edits' <= MaxEdits
      BY <1>2, <2>1, Bounds
    <3>2. ASSUME NEW a \in Assembly
          PROVE  version'[a] + (IF a = changing' THEN 1 ELSE 0) <= edits' + 1
      <4>1. version[a] + (IF a = changing THEN 1 ELSE 0) <= edits + 1
        BY DEF VersionInv, VersionsCountEdits
      <4>. QED  BY <4>1, <1>1, <1>2, <2>1
    <3>. QED  BY <3>1, <3>2 DEF VersionsCountEdits
  <2>3. (StoredVersionsPast /\ TreesUpToDate /\ TreesNumbered /\ ItemsHaveTrees)'
    BY <2>1 DEF VersionInv, StoredVersionsPast, NextToDo, TreesUpToDate, TreesNumbered,
                ItemsHaveTrees, treeVars
  <2>. QED  BY <2>2, <2>3 DEF VersionInv
<1>5. CASE BumpVersion
  <2>1. /\ changing \in Assembly /\ changing' = InvalidKey
        /\ version' = [version EXCEPT ![changing] = @ + 1]
        /\ UNCHANGED <<content, edits, phase, treeVars>>
    BY <1>5 DEF BumpVersion, TypeOK
  <2>2. \A a \in Assembly :
           version'[a] = version[a] + (IF a = changing THEN 1 ELSE 0)
    BY <1>1, <2>1 DEF TypeOK
  <2>3. VersionsCountEdits'
    BY <1>0, <1>1, <2>1, <2>2 DEF VersionInv, VersionsCountEdits
  <2>4. StoredVersionsPast'
    BY <1>1, <2>1, <2>2 DEF VersionInv, StoredVersionsPast, NextToDo, treeVars, TypeOK
  <2>5. TreesUpToDate'
    <3>1. stored[changing] # version'[changing]
      BY <1>1, <2>1, <2>2 DEF VersionInv, StoredVersionsPast
    <3>. QED  BY <1>1, <2>1, <2>2, <3>1 DEF VersionInv, TreesUpToDate, treeVars
  <2>6. (TreesNumbered /\ ItemsHaveTrees)'
    BY <2>1 DEF VersionInv, TreesNumbered, ItemsHaveTrees, treeVars
  <2>. QED  BY <2>3, <2>4, <2>5, <2>6 DEF VersionInv
<1>. QED  BY <1>3, <1>4, <1>5 DEF UserStep

\* The version that is stored was read before the regions.
LEMMA MasterVersionInv == ASSUME TypeOK, VersionInv, MasterStep PROVE VersionInv'
<1>1. CASE BeginUpdate
  BY <1>1 DEF BeginUpdate, VersionInv, VersionsCountEdits, StoredVersionsPast, TreesUpToDate,
              TreesNumbered, ItemsHaveTrees, sceneVars
<1>2. ASSUME NEW a \in Assembly, ReadVersion(a) PROVE VersionInv'
  <2>1. \A b \in Assembly : NextToDo(b) => b = a
    BY <1>2 DEF ReadVersion, NextToDo, Assembly
  <2>2. /\ reading' = version[a] /\ phase = "updating"
        /\ UNCHANGED <<content, version, changing, edits, phase, todo, items, stored, number,
                       captured>>
    BY <1>2 DEF ReadVersion, sceneVars
  <2>3. version[a] \in Nat /\ stored[a] <= version[a]
    BY DEF TypeOK, VersionInv, StoredVersionsPast
  <2>4. StoredVersionsPast'
    <3>1. a \in todo
      BY <1>2 DEF ReadVersion, NextToDo
    <3>2. \A b \in Assembly : NextToDo(b)' => b = a
      BY <2>1, <2>2 DEF NextToDo
    <3>. QED  BY <2>2, <2>3, <3>1, <3>2 DEF VersionInv, StoredVersionsPast
  <2>5. (VersionsCountEdits /\ TreesUpToDate /\ TreesNumbered /\ ItemsHaveTrees)'
    BY <2>2 DEF VersionInv, VersionsCountEdits, TreesUpToDate, TreesNumbered, ItemsHaveTrees
  <2>. QED  BY <2>4, <2>5 DEF VersionInv
<1>3. ASSUME NEW a \in Assembly, UpdateTree(a) PROVE VersionInv'
  <2>0. /\ version[a] \in Nat /\ stored[a] \in Nat /\ number[a] \in Nat /\ reading \in Nat
        /\ number[a] <= stored[a] /\ (stored[a] # 0 => number[a] # 0)
    BY DEF TypeOK, VersionInv, TreesNumbered
  <2>1. /\ phase = "updating" /\ reading # 0 /\ reading' = 0 /\ NextToDo(a)
        /\ todo' = todo \ {a}
        /\ UNCHANGED <<content, version, changing, edits, phase, items>>
    BY <1>3 DEF UpdateTree, sceneVars
  <2>2. stored[a] <= reading /\ reading <= version[a]
    BY <2>1 DEF VersionInv, StoredVersionsPast
  <2>3. \A b \in Assembly : b # a =>
           /\ stored'[b] = stored[b] /\ number'[b] = number[b] /\ captured'[b] = captured[b]
    BY <1>3 DEF UpdateTree, TypeOK
  <2>4. stored'[a] = reading
    BY <1>3 DEF UpdateTree, TypeOK
  <2>5. IF reading # stored[a]
        THEN number'[a] = number[a] + 1 /\ captured'[a] = content[a]
        ELSE number'[a] = number[a] /\ captured'[a] = captured[a]
    BY <1>3 DEF UpdateTree, TypeOK
  <2>6. (VersionsCountEdits /\ StoredVersionsPast)'
    BY <2>1, <2>2, <2>3, <2>4 DEF VersionInv, VersionsCountEdits, StoredVersionsPast
  <2>7. TreesUpToDate'
    BY <2>1, <2>3, <2>4, <2>5 DEF VersionInv, TreesUpToDate
  <2>8. TreesNumbered'
    <3>1. number'[a] <= stored'[a] /\ number'[a] # 0
      BY <2>0, <2>1, <2>2, <2>4, <2>5
    <3>. QED  BY <2>3, <3>1 DEF VersionInv, TreesNumbered
  <2>9. ItemsHaveTrees'
    <3>1. number'[a] # 0
      BY <2>0, <2>1, <2>5
    <3>. QED  BY <2>1, <2>3, <3>1 DEF VersionInv, ItemsHaveTrees, TypeOK
  <2>. QED  BY <2>6, <2>7, <2>8, <2>9 DEF VersionInv
<1>4. CASE StartTracing
  BY <1>4 DEF StartTracing, VersionInv, VersionsCountEdits, StoredVersionsPast, TreesUpToDate,
              TreesNumbered, ItemsHaveTrees, NextToDo, sceneVars, treeVars
<1>5. CASE ReleaseIntersectors \/ Destroy
  BY <1>5 DEF ReleaseIntersectors, Destroy, VersionInv, VersionsCountEdits, StoredVersionsPast,
              TreesUpToDate, TreesNumbered, ItemsHaveTrees, sceneVars, treeVars
<1>6. CASE \E a \in Assembly : MissAssembly(a)
  BY <1>6 DEF MissAssembly, VersionInv, VersionsCountEdits, StoredVersionsPast, TreesUpToDate,
              TreesNumbered, ItemsHaveTrees, NextToDo, sceneVars, treeVars
<1>. QED  BY <1>1, <1>2, <1>3, <1>4, <1>5, <1>6 DEF MasterStep

-----------------------------------------------------------------------------
(* Sequences of lines. *)

\* Moving a line to the front permutes the lines.
LEMMA MovedToFrontPermutes ==
    ASSUME NEW S, NEW lines \in Seq(S), NEW i \in DOMAIN lines
    PROVE  LET moved == MovedToFront(lines, i)
           IN  /\ moved \in Seq(S) /\ DOMAIN moved = DOMAIN lines /\ moved # <<>>
               /\ \A k \in DOMAIN moved : \E l \in DOMAIN lines : moved[k] = lines[l]
               /\ \A l \in DOMAIN lines : \E k \in DOMAIN moved : moved[k] = lines[l]
               /\ (\A k, l \in DOMAIN lines : lines[k][1] = lines[l][1] => k = l)
                     => \A k, l \in DOMAIN moved : moved[k][1] = moved[l][1] => k = l
<1>. DEFINE moved == MovedToFront(lines, i)
            From(k) == IF k = 1 THEN i ELSE IF k <= i THEN k - 1 ELSE k
            To(l) == IF l = i THEN 1 ELSE IF l < i THEN l + 1 ELSE l
<1>1. Len(lines) \in Nat /\ DOMAIN lines = 1 .. Len(lines) /\ i \in 1 .. Len(lines)
  BY LenProperties
<1>2. DOMAIN moved = 1 .. Len(lines)
  BY <1>1 DEF MovedToFront
<1>3. \A k \in 1 .. Len(lines) : From(k) \in 1 .. Len(lines) /\ To(k) \in 1 .. Len(lines)
  BY <1>1
<1>4. \A k \in 1 .. Len(lines) : moved[k] = lines[From(k)]
  BY <1>1 DEF MovedToFront
<1>5. \A k \in 1 .. Len(lines) : From(To(k)) = k /\ To(From(k)) = k
  BY <1>1
<1>6. \A k \in 1 .. Len(lines) : moved[k] \in S
  BY <1>1, <1>3, <1>4, ElementOfSeq
<1>7. moved \in Seq(S)
  BY <1>1, <1>2, <1>6, IsASeq DEF MovedToFront
<1>8. moved # <<>>
  BY <1>1, <1>2
<1>9. \A l \in DOMAIN lines : moved[To(l)] = lines[l] /\ To(l) \in DOMAIN moved
  BY <1>1, <1>2, <1>3, <1>4, <1>5
<1>10. ASSUME \A k, l \in DOMAIN lines : lines[k][1] = lines[l][1] => k = l,
              NEW k \in DOMAIN moved, NEW l \in DOMAIN moved, moved[k][1] = moved[l][1]
       PROVE  k = l
  <2>1. From(k) = From(l)
    BY ZenonT(60), <1>1, <1>2, <1>3, <1>4, <1>10
  <2>. QED  BY <1>2, <1>5, <2>1
<1>. HIDE DEF From, To
<1>. QED  BY <1>1, <1>2, <1>3, <1>4, <1>7, <1>8, <1>9, <1>10

-----------------------------------------------------------------------------
(* Access objects. *)

\* There are finitely many Access objects.
LEMMA AccessesFinite == \A t \in Tree : IsFiniteSet(AccessesTo(t))
<1>1. ThreadCount \in Int /\ AssemblyCount \in Int /\ Lines \in Int
  BY TreeAssumption
<1>2. IsFiniteSet(Worker) /\ IsFiniteSet(Entry) /\ IsFiniteSet(Assembly)
  BY <1>1, FS_Interval DEF Worker, Entry, Assembly
<1>3. IsFiniteSet({"front", "back", "local"})
  <2>1. IsFiniteSet({"front"})
    BY FS_Singleton
  <2>2. IsFiniteSet({"front"} \cup {"back"})
    BY <2>1, FS_AddElement
  <2>3. IsFiniteSet(({"front"} \cup {"back"}) \cup {"local"})
    BY <2>2, FS_AddElement
  <2>4. ({"front"} \cup {"back"}) \cup {"local"} = {"front", "back", "local"}
    OBVIOUS
  <2>. QED  BY <2>3, <2>4
<1>4. IsFiniteSet(Entry \cup Assembly)
  BY <1>2, FS_Union
<1>5. IsFiniteSet({"front", "back", "local"} \X (Entry \cup Assembly))
  BY <1>3, <1>4, FS_Product
<1>6. IsFiniteSet(AccessObject)
  BY <1>2, <1>5, FS_Product DEF AccessObject
<1>7. ASSUME NEW t \in Tree PROVE IsFiniteSet(AccessesTo(t))
  <2>1. AccessesTo(t) \in SUBSET AccessObject
    BY DEF AccessesTo
  <2>. QED  BY <1>6, <2>1, FS_Subset
<1>. QED  BY <1>7

\* An Access object is where it is.
LEMMA Accesses ==
    ASSUME NEW w \in Worker, NEW k \in {"front", "back", "local"}, NEW i \in Entry \cup Assembly,
           NEW t \in Tree
    PROVE  <<w, <<k, i>>>> \in AccessesTo(t) <=> Refers(w, k, i, t)
BY DEF AccessesTo, AccessObject

\* A reference more, and the count one up.
LEMMA CountGains ==
    ASSUME TypeOK, CountsAccesses,
           NEW w \in Worker, NEW k \in {"front", "back", "local"}, NEW i \in Entry \cup Assembly,
           NEW t \in Tree,
           refs' = [refs EXCEPT ![t] = @ + 1],
           ~Refers(w, k, i, t),
           \A v \in Worker, l \in {"front", "back", "local"}, j \in Entry \cup Assembly, u \in Tree :
               Refers(v, l, j, u)' <=>
                   Refers(v, l, j, u) \/ (v = w /\ l = k /\ j = i /\ u = t)
    PROVE  CountsAccesses'
<1>. DEFINE x == <<w, <<k, i>>>>
<1>1. x \in AccessObject /\ x \notin AccessesTo(t)
  BY Accesses DEF AccessObject
<1>2. AccessesTo(t)' = AccessesTo(t) \cup {x}
  BY <1>1 DEF AccessesTo, AccessObject
<1>3. \A u \in Tree : u # t => AccessesTo(u)' = AccessesTo(u)
  BY DEF AccessesTo, AccessObject
<1>4. Cardinality(AccessesTo(t) \cup {x}) = Cardinality(AccessesTo(t)) + 1
  BY <1>1, AccessesFinite, FS_AddElement
<1>. HIDE DEF x
<1>5. refs'[t] = refs[t] + 1 /\ \A u \in Tree : u # t => refs'[u] = refs[u]
  BY DEF TypeOK
<1>. QED  BY <1>2, <1>3, <1>4, <1>5 DEF CountsAccesses

\* A reference less, and the count one down.
LEMMA CountLoses ==
    ASSUME TypeOK, CountsAccesses,
           NEW w \in Worker, NEW k \in {"front", "back", "local"}, NEW i \in Entry \cup Assembly,
           NEW t \in Tree,
           refs' = [refs EXCEPT ![t] = @ - 1],
           Refers(w, k, i, t),
           \A v \in Worker, l \in {"front", "back", "local"}, j \in Entry \cup Assembly, u \in Tree :
               Refers(v, l, j, u)' <=>
                   Refers(v, l, j, u) /\ ~ (v = w /\ l = k /\ j = i /\ u = t)
    PROVE  CountsAccesses'
<1>. DEFINE x == <<w, <<k, i>>>>
<1>1. x \in AccessObject /\ x \in AccessesTo(t)
  BY Accesses DEF AccessObject
<1>2. AccessesTo(t)' = AccessesTo(t) \ {x}
  BY <1>1 DEF AccessesTo, AccessObject
<1>3. \A u \in Tree : u # t => AccessesTo(u)' = AccessesTo(u)
  BY DEF AccessesTo, AccessObject
<1>4. Cardinality(AccessesTo(t) \ {x}) = Cardinality(AccessesTo(t)) - 1
  BY <1>1, AccessesFinite, FS_RemoveElement
<1>. HIDE DEF x
<1>5. refs'[t] = refs[t] - 1 /\ \A u \in Tree : u # t => refs'[u] = refs[u]
  BY DEF TypeOK
<1>. QED  BY <1>2, <1>3, <1>4, <1>5 DEF CountsAccesses

\* The same references, and the same counts.
LEMMA CountStays ==
    ASSUME CountsAccesses, refs' = refs,
           \A v \in Worker, l \in {"front", "back", "local"}, j \in Entry \cup Assembly, u \in Tree :
               Refers(v, l, j, u)' <=> Refers(v, l, j, u)
    PROVE  CountsAccesses'
<1>1. \A u \in Tree : AccessesTo(u)' = AccessesTo(u)
  BY DEF AccessesTo, AccessObject
<1>. QED  BY <1>1 DEF CountsAccesses

-----------------------------------------------------------------------------
(* Types. *)

\* All variables have their types initially.
LEMMA InitTypeOK == Init => TypeOK
<1>. SUFFICES ASSUME Init PROVE TypeOK
  OBVIOUS
<1>1. \A w \in Worker : back[w] \in Seq(Tree)
  BY EmptySeq DEF Init
<1>2. back \in [Worker -> Seq(Tree)]
  BY <1>1 DEF Init
<1>3. 0 \in Nat /\ 1 \in Nat \ {0}
  OBVIOUS
<1>. QED  BY <1>2, <1>3 DEF Init, TypeOK, NoKeys, NoAccesses, NoTree

\* What a worker may rely on in the course of a lookup.
LEMMA LookupFacts ==
    ASSUME TypeOK, VersionInv, ReferenceInv, NEW w \in Worker
    PROVE  /\ pc[w] # "trace" =>
                  /\ target[w] \in Assembly /\ EntryOf(target[w]) \in Entry
                  /\ CurrentTree(target[w]) \in Tree
                  /\ CurrentTree(target[w])[1] = target[w]
           /\ IF pc[w] \in {"build", "unwind", "push", "drop"}
              THEN local[w] = CurrentTree(target[w]) ELSE local[w] = NoTree
           /\ back[w] \in Seq(Tree) /\ Len(back[w]) \in Nat
           /\ DOMAIN back[w] = 1 .. Len(back[w])
           /\ \A i \in DOMAIN back[w] : back[w][i] \in Tree
           /\ pc[w] = "evict" => Lines \in DOMAIN back[w] /\ Len(back[w]) = Lines
           /\ pc[w] \in {"drop", "release", "acquire"} => 1 \in DOMAIN back[w]
<1>1. LookupInStep(w)
  BY DEF ReferenceInv, LookupsInStep
<1>2. pc[w] # "trace" =>
         target[w] \in Assembly /\ CurrentTree(target[w]) \in Tree
         /\ CurrentTree(target[w])[1] = target[w]
  BY <1>1, CurrentTreeExists DEF LookupInStep
<1>3. /\ back[w] \in Seq(Tree) /\ Len(back[w]) \in Nat
      /\ DOMAIN back[w] = 1 .. Len(back[w])
      /\ \A i \in DOMAIN back[w] : back[w][i] \in Tree
  BY LenProperties, ElementOfSeq DEF TypeOK
<1>4. Lines \in Nat \ {0}
  BY TreeAssumption
<1>5. pc[w] = "evict" => Len(back[w]) = Lines
  BY <1>1 DEF LookupInStep
<1>6. pc[w] \in {"drop", "release", "acquire"} => Len(back[w]) # 0
  BY <1>1, <1>3, EmptySeq DEF LookupInStep
<1>. QED  BY <1>1, <1>2, <1>3, <1>4, <1>5, <1>6, EntryOfAssembly DEF LookupInStep

\* The user and the master thread keep the types.
LEMMA OthersTypeOK == ASSUME TypeOK, VersionInv, UserStep \/ MasterStep PROVE TypeOK'
<1>0. 0 \in Nat /\ \A n \in Nat : n + 1 \in Nat /\ n + 1 \in Nat \ {0}
  OBVIOUS
<1>1. ASSUME NEW a \in Assembly, EditObjects(a) PROVE TypeOK'
  <2>1. content' \in [Assembly -> SUBSET Object]
    BY <1>1 DEF EditObjects, TypeOK
  <2>. QED  BY <1>0, <1>1, <2>1 DEF EditObjects, EditBegins, TypeOK, treeVars, lazyVars, workerVars
<1>2. CASE \E a \in Assembly : EditInstances(a) \/ RemoveAssembly(a)
  BY <1>0, <1>2 DEF EditInstances, RemoveAssembly, EditBegins, TypeOK, treeVars, lazyVars, workerVars
<1>3. CASE BumpVersion
  BY <1>0, <1>3 DEF BumpVersion, TypeOK, treeVars, lazyVars, workerVars
<1>4. CASE BeginUpdate
  BY <1>4 DEF BeginUpdate, TypeOK, sceneVars, lazyVars, workerVars
<1>5. CASE \E a \in Assembly : ReadVersion(a)
  BY <1>5 DEF ReadVersion, TypeOK, sceneVars, lazyVars, workerVars
<1>6. ASSUME NEW a \in Assembly, UpdateTree(a) PROVE TypeOK'
  <2>1. stored' \in [Assembly -> Nat]
    BY <1>6 DEF UpdateTree, TypeOK
  <2>2. number' \in [Assembly -> Nat] /\ captured' \in [Assembly -> SUBSET Object]
    <3>1. CASE reading # stored[a]
      <4>1. /\ number' = [number EXCEPT ![a] = @ + 1]
            /\ captured' = [captured EXCEPT ![a] = content[a]]
        BY <1>6, <3>1 DEF UpdateTree
      <4>2. number' \in [Assembly -> Nat]
        BY <4>1 DEF TypeOK
      <4>3. captured' \in [Assembly -> SUBSET Object]
        BY <4>1 DEF TypeOK
      <4>. QED  BY <4>2, <4>3
    <3>2. CASE reading = stored[a]
      BY <1>6, <3>2 DEF UpdateTree, TypeOK
    <3>. QED  BY <3>1, <3>2
  <2>. QED  BY <1>0, <1>6, <2>1, <2>2 DEF UpdateTree, TypeOK, sceneVars, lazyVars, workerVars
<1>7. CASE StartTracing \/ Destroy \/ \E a \in Assembly : MissAssembly(a)
  BY <1>7 DEF StartTracing, Destroy, MissAssembly, TypeOK, sceneVars, treeVars, lazyVars, workerVars
<1>8. CASE ReleaseIntersectors
  <2>1. \A w \in Worker : back'[w] \in Seq(Tree)
    BY <1>8, EmptySeq DEF ReleaseIntersectors
  <2>2. back' \in [Worker -> Seq(Tree)]
    BY <1>8, <2>1 DEF ReleaseIntersectors
  <2>3. \A t \in Tree : refs[t] - Cardinality(AccessesTo(t)) \in Int
    BY AccessesFinite, FS_CardinalityType DEF TypeOK
  <2>4. refs' \in [Tree -> Int]
    BY <1>8, <2>3 DEF ReleaseIntersectors
  <2>. QED  BY <1>8, <2>2, <2>4 DEF ReleaseIntersectors, TypeOK, NoKeys, NoAccesses, sceneVars, treeVars
<1>. QED  BY <1>1, <1>2, <1>3, <1>4, <1>5, <1>6, <1>7, <1>8 DEF UserStep, MasterStep

\* A worker keeps the types.
LEMMA WorkerTypeOK ==
    ASSUME TypeOK, VersionInv, ReferenceInv, NEW w \in Worker, WorkerStep(w)
    PROVE  TypeOK'
<1>. USE DEF At, Goto, masterLeaves
<1>0. \A n \in Int : n + 1 \in Int /\ n - 1 \in Int
  OBVIOUS
<1>1. \A t \in Tree : refs[t] \in Int
  BY DEF TypeOK
<1>2. ASSUME NEW a \in Assembly, MissFront(w, a) PROVE TypeOK'
  <2>1. back' \in [Worker -> Seq(Tree)]
    <3>1. CASE back' = back
      BY <3>1 DEF TypeOK
    <3>2. ASSUME NEW i \in DOMAIN back[w], back' = [back EXCEPT ![w] = MovedToFront(@, i)]
          PROVE  back' \in [Worker -> Seq(Tree)]
      <4>1. MovedToFront(back[w], i) \in Seq(Tree)
        BY MovedToFrontPermutes DEF TypeOK
      <4>. QED  BY <3>2, <4>1 DEF TypeOK
    <3>. QED  BY <1>2, <3>1, <3>2 DEF MissFront
  <2>2. keys' \in [Worker -> [Entry -> Assembly \cup {InvalidKey}]]
    BY <1>2 DEF MissFront, TypeOK
  <2>3. pc' \in [Worker -> {"trace", "evict", "load", "build", "unwind", "push", "drop",
                           "release", "acquire"}]
    BY <1>2 DEF MissFront, TypeOK
  <2>. QED  BY <1>2, <2>1, <2>2, <2>3 DEF MissFront, TypeOK, sceneVars, treeVars, lazyVars
<1>3. CASE Evict(w)
  <2>1. Lines \in DOMAIN back[w] /\ back[w][Lines] \in Tree
    BY <1>3, LookupFacts DEF Evict
  <2>2. refs' \in [Tree -> Int]
    BY <1>0, <1>1, <1>3, <2>1 DEF Evict, TypeOK
  <2>3. back' \in [Worker -> Seq(Tree)]
    <3>1. SubSeq(back[w], 1, Lines - 1) \in Seq(Tree)
      BY LookupFacts, <1>3, TreeAssumption DEF Evict
    <3>. QED  BY <1>3, <3>1 DEF Evict, TypeOK
  <2>4. keys' \in [Worker -> [Entry -> Assembly \cup {InvalidKey}]]
    <3>1. PICK e : \/ keys' = keys
                    \/ keys' = [keys EXCEPT ![w] = [keys[w] EXCEPT ![e] = InvalidKey]]
      BY <1>3 DEF Evict, TypeOK
    <3>2. [keys[w] EXCEPT ![e] = InvalidKey] \in [Entry -> Assembly \cup {InvalidKey}]
      BY DEF TypeOK
    <3>. QED  BY <3>1, <3>2 DEF TypeOK
  <2>. QED  BY <1>3, <2>2, <2>3, <2>4 DEF Evict, TypeOK, sceneVars, treeVars
<1>4. CASE Load(w)
  <2>1. CurrentTree(target[w]) \in Tree
    BY <1>4, LookupFacts DEF Load
  <2>2. refs' \in [Tree -> Int]
    BY <1>0, <1>1, <1>4, <2>1 DEF Load, TypeOK
  <2>3. mutex' \in [Tree -> Worker \cup {0}]
    BY <1>4, <2>1 DEF Load, TypeOK
  <2>4. local' \in [Worker -> Tree \cup {NoTree}]
    BY <1>4, <2>1 DEF Load, TypeOK
  <2>5. pc' \in [Worker -> {"trace", "evict", "load", "build", "unwind", "push", "drop",
                           "release", "acquire"}]
    BY <1>4 DEF Load, TypeOK
  <2>. QED  BY <1>4, <2>2, <2>3, <2>4, <2>5 DEF Load, TypeOK, sceneVars, treeVars
<1>5. CASE Build(w)
  <2>1. local[w] \in Tree
    BY <1>5, LookupFacts DEF Build
  <2>2. builds' \in [Tree -> Nat]
    BY <1>5, <2>1 DEF Build, TypeOK
  <2>3. mutex' \in [Tree -> Worker \cup {0}] /\ built' \subseteq Tree
    BY <1>5, <2>1 DEF Build, TypeOK
  <2>. QED  BY <1>5, <2>2, <2>3 DEF Build, TypeOK, sceneVars, treeVars
<1>6. CASE MissObjectInstance(w) \/ MissInstance(w) \/ FindNothing(w)
  BY <1>6 DEF MissObjectInstance, MissInstance, FindNothing, TypeOK, sceneVars, treeVars, lazyVars,
              workerVars
<1>7. CASE ThrowInBuild(w)
  <2>1. mutex' \in [Tree -> Worker \cup {0}]
    BY <1>7 DEF ThrowInBuild, TypeOK
  <2>2. throws' \in Nat
    BY <1>7 DEF ThrowInBuild, TypeOK
  <2>3. pc' \in [Worker -> {"trace", "evict", "load", "build", "unwind", "push", "drop",
                           "release", "acquire"}]
    BY <1>7 DEF ThrowInBuild, TypeOK
  <2>. QED  BY <1>7, <2>1, <2>2, <2>3 DEF ThrowInBuild, TypeOK, sceneVars, treeVars
<1>8. CASE Unwind(w) \/ DropLine(w)
  <2>1. local[w] \in Tree
    BY <1>8, LookupFacts DEF Unwind, DropLine
  <2>2. refs' \in [Tree -> Int]
    BY <1>0, <1>1, <1>8, <2>1 DEF Unwind, DropLine, TypeOK
  <2>. QED  BY <1>8, <2>1, <2>2 DEF Unwind, DropLine, TypeOK, sceneVars, treeVars
<1>9. CASE Push(w)
  <2>1. local[w] \in Tree
    BY <1>9, LookupFacts DEF Push
  <2>2. refs' \in [Tree -> Int]
    BY <1>0, <1>1, <1>9, <2>1 DEF Push, TypeOK
  <2>3. <<local[w]>> \o back[w] \in Seq(Tree)
    BY <2>1, ConcatProperties DEF TypeOK
  <2>4. back' \in [Worker -> Seq(Tree)]
    BY <1>9, <2>3 DEF Push, TypeOK
  <2>. QED  BY <1>9, <2>2, <2>4 DEF Push, TypeOK, sceneVars, treeVars
<1>10. CASE ReleaseEntry(w)
  <2>1. EntryOf(target[w]) \in Entry
    BY <1>10, LookupFacts DEF ReleaseEntry
  <2>2. refs' \in [Tree -> Int]
    BY <1>0, <1>1, <1>10, <2>1 DEF ReleaseEntry, TypeOK
  <2>3. front' \in [Worker -> [Entry -> Tree \cup {NoTree}]]
    BY <1>10, <2>1 DEF ReleaseEntry, TypeOK
  <2>. QED  BY <1>10, <2>2, <2>3 DEF ReleaseEntry, TypeOK, sceneVars, treeVars
<1>11. CASE AcquireEntry(w)
  <2>1. EntryOf(target[w]) \in Entry /\ back[w][1] \in Tree
    BY <1>11, LookupFacts DEF AcquireEntry
  <2>2. refs' \in [Tree -> Int]
    BY <1>0, <1>1, <1>11, <2>1 DEF AcquireEntry, TypeOK
  <2>3. front' \in [Worker -> [Entry -> Tree \cup {NoTree}]]
    BY <1>11, <2>1 DEF AcquireEntry, TypeOK
  <2>. QED  BY <1>11, <2>2, <2>3 DEF AcquireEntry, TypeOK, sceneVars, treeVars
<1>. QED
  BY <1>2, <1>3, <1>4, <1>5, <1>6, <1>7, <1>8, <1>9, <1>10, <1>11 DEF WorkerStep, AccessStep

-----------------------------------------------------------------------------
(* References. *)

\* There are none initially.
LEMMA InitReferenceInv == Init => ReferenceInv
<1>. SUFFICES ASSUME Init PROVE ReferenceInv
  OBVIOUS
<1>1. \A w \in Worker : /\ pc[w] = "trace" /\ back[w] = <<>> /\ front[w] = NoAccesses
                        /\ local[w] = NoTree
  BY DEF Init
<1>2. \A w \in Worker : DOMAIN back[w] = {}
  BY <1>1
<1>3. NoIntersectors /\ LookupsInStep /\ LinesDistinct
  BY <1>1, <1>2 DEF NoIntersectors, LookupsInStep, LookupInStep, LinesDistinct
<1>4. CachesCurrent
  BY <1>1, <1>2 DEF CachesCurrent, NoAccesses
<1>5. BuildsLocked
  BY <1>1 DEF BuildsLocked, Init
<1>6. CountsAccesses
  <2>1. ASSUME NEW t \in Tree PROVE AccessesTo(t) = {}
    BY <1>1, <1>2, NoTreeIsNoTree DEF AccessesTo, AccessObject, Refers, NoAccesses
  <2>. QED  BY <2>1, FS_EmptySet DEF CountsAccesses, Init
<1>. QED  BY <1>3, <1>4, <1>5, <1>6 DEF ReferenceInv

\* A step that leaves the trees, their locks and the workers alone.
LEMMA ReferencesUndisturbed ==
    ASSUME ReferenceInv, UNCHANGED <<number, lazyVars, workerVars>>,
           phase' \in {"idle", "updating", "destroyed"}
              => phase \in {"idle", "updating", "destroyed"}
    PROVE  ReferenceInv'
<1>. USE DEF ReferenceInv, lazyVars, workerVars
<1>1. (NoIntersectors /\ LookupsInStep /\ LinesDistinct)'
  BY DEF NoIntersectors, LookupsInStep, LookupInStep, LinesDistinct, CurrentTree, InBack
<1>2. (CachesCurrent /\ BuildsLocked)'
  BY DEF CachesCurrent, CurrentTree, BuildsLocked
<1>3. CountsAccesses'
  BY CountStays DEF Refers
<1>. QED  BY <1>1, <1>2, <1>3

\* A new tree takes the place of one that nothing refers to; the intersectors are
\* released with all that they refer to.
LEMMA OthersReferenceInv ==
    ASSUME TypeOK, ReferenceInv, UserStep \/ MasterStep PROVE ReferenceInv'
<1>1. CASE UserStep
  BY <1>1, ReferencesUndisturbed
     DEF UserStep, EditObjects, EditInstances, RemoveAssembly, BumpVersion, treeVars
<1>2. CASE \/ BeginUpdate \/ StartTracing \/ Destroy
           \/ \E a \in Assembly : ReadVersion(a) \/ MissAssembly(a)
  BY <1>2, ReferencesUndisturbed
     DEF BeginUpdate, StartTracing, Destroy, ReadVersion, MissAssembly, treeVars
<1>3. ASSUME NEW a \in Assembly, UpdateTree(a) PROVE ReferenceInv'
  <2>1. phase = "updating" /\ phase' = phase /\ UNCHANGED <<lazyVars, workerVars>>
    BY <1>3 DEF UpdateTree
  <2>2. \A w \in Worker : pc[w] = "trace" /\ front[w] = NoAccesses /\ back[w] = <<>>
    BY <2>1 DEF ReferenceInv, NoIntersectors
  <2>3. (NoIntersectors /\ LinesDistinct /\ BuildsLocked)'
    BY <2>1 DEF ReferenceInv, NoIntersectors, LinesDistinct, BuildsLocked, lazyVars, workerVars
  <2>4. LookupsInStep'
    BY <2>1, <2>2 DEF ReferenceInv, LookupsInStep, LookupInStep, workerVars
  <2>5. CachesCurrent'
    BY <2>1, <2>2 DEF CachesCurrent, NoAccesses, workerVars
  <2>6. CountsAccesses'
    BY <2>1, CountStays DEF ReferenceInv, Refers, lazyVars, workerVars
  <2>. QED  BY <2>3, <2>4, <2>5, <2>6 DEF ReferenceInv
<1>4. CASE ReleaseIntersectors
  <2>1. /\ \A w \in Worker : /\ pc'[w] = "trace" /\ local'[w] = local[w] /\ pc[w] = "trace"
                             /\ front'[w] = NoAccesses /\ back'[w] = <<>>
        /\ UNCHANGED <<number, mutex, built, builds>>
    BY <1>4 DEF ReleaseIntersectors, treeVars
  <2>2. \A w \in Worker : local'[w] = NoTree /\ DOMAIN back'[w] = {}
    BY <2>1 DEF ReferenceInv, LookupsInStep, LookupInStep
  <2>3. (NoIntersectors /\ LookupsInStep /\ LinesDistinct)'
    BY <2>1, <2>2 DEF NoIntersectors, LookupsInStep, LookupInStep, LinesDistinct
  <2>4. CachesCurrent'
    BY <2>1, <2>2 DEF CachesCurrent, NoAccesses
  <2>5. BuildsLocked'
    BY <2>1 DEF ReferenceInv, BuildsLocked
  <2>6. CountsAccesses'
    <3>1. ASSUME NEW t \in Tree PROVE AccessesTo(t)' = {}
      BY <2>1, <2>2, NoTreeIsNoTree DEF AccessesTo, AccessObject, Refers, NoAccesses
    <3>2. \A t \in Tree : refs'[t] = 0
      <4>1. \A t \in Tree : refs[t] = Cardinality(AccessesTo(t)) /\ refs[t] \in Int
        BY DEF ReferenceInv, CountsAccesses, TypeOK
      <4>2. \A t \in Tree : refs'[t] = refs[t] - Cardinality(AccessesTo(t))
        BY <1>4 DEF ReleaseIntersectors
      <4>. QED  BY <4>1, <4>2
    <3>. QED  BY <3>1, <3>2, FS_EmptySet DEF CountsAccesses
  <2>. QED  BY <2>3, <2>4, <2>5, <2>6 DEF ReferenceInv
<1>. QED  BY <1>1, <1>2, <1>3, <1>4 DEF MasterStep

\* The lookups of the other workers go on as before.
LEMMA OtherLookups ==
    ASSUME LookupsInStep, NEW w \in Worker, number' = number,
           \A v \in Worker \ {w} :
              /\ pc'[v] = pc[v] /\ target'[v] = target[v] /\ local'[v] = local[v]
              /\ front'[v] = front[v] /\ back'[v] = back[v],
           LookupInStep(w)'
    PROVE  LookupsInStep'
BY DEF LookupsInStep, LookupInStep, CurrentTree, InBack

\* Steps of the lookup are taken while tracing.
LEMMA WorkerTracing ==
    ASSUME NEW w \in Worker, WorkerStep(w)
    PROVE  /\ phase = "tracing" /\ phase' \in {"tracing", "lost", "failed"}
           /\ UNCHANGED <<sceneVars, treeVars>>
BY DEF WorkerStep, AccessStep, MissFront, Evict, Load, Build, MissObjectInstance, ThrowInBuild,
       Unwind, Push, DropLine, ReleaseEntry, AcquireEntry, MissInstance, FindNothing, Goto, At,
       masterLeaves

\* A miss of stage 0 refers to nothing new.
LEMMA MissFrontReferenceInv ==
    ASSUME TypeOK, VersionInv, ReferenceInv, NEW w \in Worker, NEW a \in Assembly, MissFront(w, a)
    PROVE  ReferenceInv'
<1>. USE DEF ReferenceInv
<1>1. /\ phase = "tracing" /\ phase' = "tracing" /\ pc[w] = "trace" /\ a \in items
      /\ pc' = [pc EXCEPT ![w] = IF InBack(w, a) THEN "release"
                                 ELSE IF Len(back[w]) = Lines THEN "evict" ELSE "load"]
      /\ target' = [target EXCEPT ![w] = a]
      /\ UNCHANGED <<number, refs, mutex, built, builds, local, front>>
  BY DEF MissFront, Goto, At, masterLeaves, treeVars, lazyVars
<1>2. /\ \A v \in Worker \ {w} : back'[v] = back[v]
      /\ \A k \in DOMAIN back'[w] : \E l \in DOMAIN back[w] : back'[w][k] = back[w][l]
      /\ \A l \in DOMAIN back[w] : \E k \in DOMAIN back'[w] : back'[w][k] = back[w][l]
      /\ \A k, l \in DOMAIN back'[w] : back'[w][k][1] = back'[w][l][1] => k = l
      /\ InBack(w, a) => back'[w] # <<>>
      /\ ~InBack(w, a) => back' = back
  <2>0. back[w] \in Seq(Tree) /\ \A k, l \in DOMAIN back[w] : back[w][k][1] = back[w][l][1] => k = l
    BY DEF TypeOK, LinesDistinct
  <2>1. CASE ~InBack(w, a)
    <3>1. back' = back
      BY <2>1 DEF MissFront, InBack
    <3>. QED  BY <2>0, <2>1, <3>1
  <2>2. CASE InBack(w, a)
    <3>1. PICK i \in DOMAIN back[w] : back' = [back EXCEPT ![w] = MovedToFront(@, i)]
      BY <2>2 DEF MissFront
    <3>2. back'[w] = MovedToFront(back[w], i) /\ \A v \in Worker \ {w} : back'[v] = back[v]
      BY <3>1 DEF TypeOK
    <3>. DEFINE moved == MovedToFront(back[w], i)
    <3>3. \A k \in DOMAIN moved : \E l \in DOMAIN back[w] : moved[k] = back[w][l]
      BY <2>0, <3>1, MovedToFrontPermutes
    <3>4. \A l \in DOMAIN back[w] : \E k \in DOMAIN moved : moved[k] = back[w][l]
      BY ZenonT(60), <2>0, <3>1, MovedToFrontPermutes
    <3>5. moved # <<>>
      BY <2>0, <3>1, MovedToFrontPermutes
    <3>6. \A k, l \in DOMAIN moved : moved[k][1] = moved[l][1] => k = l
      BY <2>0, <3>1, MovedToFrontPermutes
    <3>. HIDE DEF moved
    <3>7. back'[w] = moved
      BY <3>2 DEF moved
    <3>. QED  BY <2>2, <3>2, <3>3, <3>4, <3>5, <3>6, <3>7
  <2>. QED  BY <2>1, <2>2
<1>3. NoIntersectors'
  BY <1>1 DEF NoIntersectors
<1>4. number[a] # 0
  BY <1>1 DEF VersionInv, ItemsHaveTrees
<1>5. LookupInStep(w)'
  <2>1. local[w] = NoTree
    BY <1>1, LookupFacts
  <2>2. pc'[w] = (IF InBack(w, a) THEN "release"
                  ELSE IF Len(back[w]) = Lines THEN "evict" ELSE "load") /\ target'[w] = a
    BY <1>1 DEF TypeOK
  <2>3. ~InBack(w, a) => ~InBack(w, a)'
    BY <1>2 DEF InBack
  <2>4. pc'[w] = "release" => back'[w] # <<>>
    BY <1>2, <2>2
  <2>5. pc'[w] = "evict" => Len(back'[w]) = Lines
    BY <1>2, <2>2
  <2>6. pc'[w] \in {"evict", "load"} => ~InBack(w, target[w])'
    BY <2>2, <2>3 DEF InBack
  <2>7. pc'[w] \in {"release", "evict", "load"} /\ local'[w] = NoTree
        /\ target'[w] \in Assembly /\ number'[target'[w]] # 0
    BY <1>1, <1>4, <2>1, <2>2
  <2>. QED  BY <2>4, <2>5, <2>6, <2>7 DEF LookupInStep, InBack
<1>6. LookupsInStep'
  BY <1>1, <1>2, <1>5, OtherLookups DEF TypeOK
<1>7. LinesDistinct' /\ CachesCurrent'
  BY <1>1, <1>2 DEF LinesDistinct, CachesCurrent, CurrentTree
<1>8. BuildsLocked'
  BY <1>1 DEF BuildsLocked, TypeOK
<1>9. CountsAccesses'
  BY <1>1, <1>2, CountStays DEF Refers
<1>. QED  BY <1>3, <1>6, <1>7, <1>8, <1>9

\* An eviction gives up the reference of the last line.
LEMMA EvictReferenceInv ==
    ASSUME TypeOK, VersionInv, ReferenceInv, NEW w \in Worker, Evict(w)
    PROVE  ReferenceInv'
<1>. USE DEF ReferenceInv
<1>. DEFINE victim == back[w][Lines]
<1>1. /\ phase = "tracing" /\ phase' = "tracing" /\ pc[w] = "evict"
      /\ pc' = [pc EXCEPT ![w] = "load"]
      /\ refs' = [refs EXCEPT ![victim] = @ - 1]
      /\ back' = [back EXCEPT ![w] = SubSeq(@, 1, Lines - 1)]
      /\ UNCHANGED <<number, mutex, built, builds, local, front, target>>
  BY DEF Evict, Goto, At, masterLeaves, treeVars
<1>2. /\ Lines \in Nat \ {0} /\ Len(back[w]) = Lines /\ DOMAIN back[w] = 1 .. Lines
      /\ \A i \in 1 .. Lines : back[w][i] \in Tree
      /\ \A i, j \in 1 .. Lines : back[w][i][1] = back[w][j][1] => i = j
  <2>1. \A i, j \in DOMAIN back[w] : back[w][i][1] = back[w][j][1] => i = j
    BY DEF LinesDistinct
  <2>. QED  BY <1>1, <2>1, LookupFacts, TreeAssumption
<1>3. /\ DOMAIN back'[w] = 1 .. Lines - 1
      /\ \A i \in 1 .. Lines - 1 : back'[w][i] = back[w][i]
      /\ \A v \in Worker \ {w} : back'[v] = back[v]
  <2>1. back'[w] = SubSeq(back[w], 1, Lines - 1) /\ \A v \in Worker \ {w} : back'[v] = back[v]
    BY <1>1 DEF TypeOK
  <2>. QED  BY <1>2, <2>1
<1>4. NoIntersectors'
  BY <1>1 DEF NoIntersectors
<1>5. LookupsInStep'
  <2>1. LookupInStep(w)
    BY DEF LookupsInStep
  <2>2. LookupInStep(w)'
    <3>1. pc'[w] = "load"
      BY <1>1 DEF TypeOK
    <3>2. ~InBack(w, target[w]) /\ target[w] \in Assembly /\ number[target[w]] # 0
          /\ local[w] = NoTree
      BY <1>1, <2>1 DEF LookupInStep
    <3>3. ~InBack(w, target[w])'
      BY <1>1, <1>2, <1>3, <3>2 DEF InBack
    <3>. QED  BY <1>1, <3>1, <3>2, <3>3 DEF LookupInStep, InBack
  <2>. QED  BY <1>1, <1>3, <2>2, OtherLookups DEF TypeOK
<1>6. LinesDistinct' /\ CachesCurrent'
  BY <1>1, <1>2, <1>3 DEF LinesDistinct, CachesCurrent, CurrentTree
<1>7. BuildsLocked'
  BY <1>1 DEF BuildsLocked, TypeOK
<1>8. CountsAccesses'
  <2>1. victim \in Tree /\ victim[1] \in Entry \cup Assembly
    BY <1>2, TreeOfAssembly
  <2>2. Refers(w, "back", victim[1], victim)
    BY <1>2 DEF Refers
  <2>3. ASSUME NEW u \in Tree
        PROVE  (\E l \in DOMAIN back'[w] : back'[w][l] = u)
                  <=> (\E l \in DOMAIN back[w] : back[w][l] = u) /\ u # victim
    <3>1. ASSUME NEW l \in DOMAIN back'[w], back'[w][l] = u
          PROVE  l \in DOMAIN back[w] /\ back[w][l] = u /\ u # victim
      <4>1. l \in 1 .. Lines /\ l # Lines /\ Lines \in 1 .. Lines /\ back[w][l] = u
        BY <1>2, <1>3, <3>1
      <4>. QED  BY <1>2, <4>1
    <3>2. ASSUME NEW l \in DOMAIN back[w], back[w][l] = u, u # victim
          PROVE  l \in DOMAIN back'[w] /\ back'[w][l] = u
      <4>1. l \in 1 .. Lines - 1
        BY <1>2, <3>2
      <4>. QED  BY <1>3, <3>2, <4>1
    <3>. QED  BY <3>1, <3>2
  <2>4. ASSUME NEW v \in Worker, NEW l \in {"front", "back", "local"},
               NEW j \in Entry \cup Assembly, NEW u \in Tree
        PROVE  Refers(v, l, j, u)' <=>
                  Refers(v, l, j, u) /\ ~ (v = w /\ l = "back" /\ j = victim[1] /\ u = victim)
    <3>1. CASE l # "back"
      BY <1>1, <3>1 DEF Refers
    <3>2. CASE l = "back" /\ v # w
      BY <1>3, <3>2 DEF Refers
    <3>3. CASE l = "back" /\ v = w
      BY <2>3, <3>3 DEF Refers
    <3>. QED  BY <3>1, <3>2, <3>3
  <2>. QED  BY ZenonT(60), <1>1, <2>1, <2>2, <2>4, CountLoses
<1>. QED  BY <1>4, <1>5, <1>6, <1>7, <1>8

\* A load refers to the tree through the local line, and keeps the lock if it builds.
LEMMA LoadReferenceInv ==
    ASSUME TypeOK, VersionInv, ReferenceInv, NEW w \in Worker, Load(w)
    PROVE  ReferenceInv'
<1>. USE DEF ReferenceInv
<1>. DEFINE t == CurrentTree(target[w])
<1>1. /\ phase = "tracing" /\ phase' = "tracing" /\ pc[w] = "load"
      /\ pc' = [pc EXCEPT ![w] = IF t \in built THEN "push" ELSE "build"]
      /\ mutex[t] = 0
      /\ local' = [local EXCEPT ![w] = t]
      /\ refs' = [refs EXCEPT ![t] = @ + 1]
      /\ mutex' = [mutex EXCEPT ![t] = IF t \in built THEN 0 ELSE w]
      /\ UNCHANGED <<number, built, builds, front, back, target>>
  BY DEF Load, Goto, At, Free, masterLeaves, treeVars
<1>2. t \in Tree /\ local[w] = NoTree
  BY <1>1, LookupFacts
<1>3. pc'[w] = (IF t \in built THEN "push" ELSE "build") /\ local'[w] = t
      /\ \A v \in Worker \ {w} : pc'[v] = pc[v] /\ local'[v] = local[v]
  BY <1>1 DEF TypeOK
<1>4. (NoIntersectors /\ LinesDistinct /\ CachesCurrent)'
  BY <1>1 DEF NoIntersectors, LinesDistinct, CachesCurrent, CurrentTree
<1>5. LookupsInStep'
  <2>1. LookupInStep(w)
    BY DEF LookupsInStep
  <2>2. LookupInStep(w)'
    BY <1>1, <1>3, <2>1 DEF LookupInStep, InBack, CurrentTree
  <2>. QED  BY <1>1, <1>3, <2>2, OtherLookups
<1>6. BuildsLocked'
  <2>1. ASSUME NEW v \in Worker, v # w, pc'[v] = "build"
        PROVE  mutex'[local'[v]] = v /\ local'[v] \notin built'
    <3>1. local[v] \in Tree /\ mutex[local[v]] = v /\ local[v] \notin built /\ local'[v] = local[v]
      BY <1>3, <2>1, LookupFacts DEF BuildsLocked
    <3>2. v # 0
      BY DEF Worker
    <3>. QED  BY <1>1, <3>1, <3>2 DEF TypeOK
  <2>2. pc'[w] = "build" => mutex'[local'[w]] = w /\ local'[w] \notin built'
    BY <1>1, <1>2, <1>3 DEF TypeOK
  <2>. QED  BY <1>1, <2>1, <2>2 DEF BuildsLocked
<1>7. CountsAccesses'
  <2>1. 0 \in Entry \cup Assembly
    BY TreeAssumption DEF Entry
  <2>2. ~Refers(w, "local", 0, t)
    BY <1>2, NoTreeIsNoTree DEF Refers
  <2>3. \A v \in Worker, l \in {"front", "back", "local"}, j \in Entry \cup Assembly, u \in Tree :
           Refers(v, l, j, u)' <=>
               Refers(v, l, j, u) \/ (v = w /\ l = "local" /\ j = 0 /\ u = t)
    BY <1>1, <1>2, <1>3, NoTreeIsNoTree DEF Refers
  <2>. QED  BY ZenonT(60), <1>1, <1>2, <2>1, <2>2, <2>3, CountGains
<1>. QED  BY <1>4, <1>5, <1>6, <1>7

\* A tree is built, or its building fails, under its lock.
LEMMA BuildReferenceInv ==
    ASSUME TypeOK, VersionInv, ReferenceInv, NEW w \in Worker, Build(w) \/ ThrowInBuild(w)
    PROVE  ReferenceInv'
<1>. USE DEF ReferenceInv
<1>. DEFINE t == local[w]
<1>1. /\ phase = "tracing" /\ phase' = "tracing" /\ pc[w] = "build"
      /\ pc' \in {[pc EXCEPT ![w] = "push"], [pc EXCEPT ![w] = "unwind"]}
      /\ mutex' = [mutex EXCEPT ![t] = 0]
      /\ \/ built' = built \cup {t} /\ builds' = [builds EXCEPT ![t] = @ + 1]
         \/ UNCHANGED <<built, builds>>
      /\ UNCHANGED <<number, refs, local, front, back, target>>
  BY DEF Build, ThrowInBuild, Goto, At, masterLeaves, treeVars
<1>2. t \in Tree /\ mutex[t] = w /\ t \notin built
  BY <1>1, LookupFacts DEF BuildsLocked
<1>3. pc'[w] \in {"push", "unwind"} /\ \A v \in Worker \ {w} : pc'[v] = pc[v]
  BY <1>1 DEF TypeOK
<1>4. (NoIntersectors /\ LinesDistinct /\ CachesCurrent)'
  BY <1>1 DEF NoIntersectors, LinesDistinct, CachesCurrent, CurrentTree
<1>5. LookupsInStep'
  <2>1. LookupInStep(w)
    BY DEF LookupsInStep
  <2>2. LookupInStep(w)'
    BY <1>1, <1>3, <2>1 DEF LookupInStep, InBack, CurrentTree
  <2>. QED  BY <1>1, <1>3, <2>2, OtherLookups
<1>6. BuildsLocked'
  <2>1. ASSUME NEW v \in Worker, pc'[v] = "build"
        PROVE  mutex'[local'[v]] = v /\ local'[v] \notin built'
    <3>1. v # w /\ pc[v] = "build"
      BY <1>3, <2>1
    <3>2. local[v] \in Tree /\ mutex[local[v]] = v /\ local[v] \notin built
      BY <3>1, LookupFacts DEF BuildsLocked
    <3>3. local[v] # t
      BY <1>2, <3>1, <3>2
    <3>. QED  BY <1>1, <3>2, <3>3 DEF TypeOK
  <2>2. ASSUME NEW u \in Tree PROVE builds'[u] = (IF u \in built' THEN 1 ELSE 0)
    <3>1. builds[u] = (IF u \in built THEN 1 ELSE 0)
      BY DEF BuildsLocked
    <3>. QED  BY <1>1, <1>2, <3>1 DEF TypeOK
  <2>. QED  BY <2>1, <2>2 DEF BuildsLocked
<1>7. CountsAccesses'
  BY <1>1, CountStays DEF Refers
<1>. QED  BY <1>4, <1>5, <1>6, <1>7

\* The local line is destroyed, with the tree or without.
LEMMA DropReferenceInv ==
    ASSUME TypeOK, VersionInv, ReferenceInv, NEW w \in Worker, Unwind(w) \/ DropLine(w)
    PROVE  ReferenceInv'
<1>. USE DEF ReferenceInv
<1>. DEFINE t == local[w]
<1>1. /\ phase = "tracing" /\ phase' = "tracing" /\ pc[w] \in {"unwind", "drop"}
      /\ pc' = [pc EXCEPT ![w] = IF pc[w] = "drop" THEN "release" ELSE "trace"]
      /\ local' = [local EXCEPT ![w] = NoTree]
      /\ refs' = [refs EXCEPT ![t] = @ - 1]
      /\ pc[w] = "drop" => target' = target
      /\ \A v \in Worker \ {w} : target'[v] = target[v]
      /\ UNCHANGED <<number, mutex, built, builds, front, back>>
  BY DEF Unwind, DropLine, Goto, At, masterLeaves, treeVars, TypeOK
<1>2. t \in Tree
  BY <1>1, LookupFacts
<1>3. /\ pc'[w] = (IF pc[w] = "drop" THEN "release" ELSE "trace") /\ local'[w] = NoTree
      /\ \A v \in Worker \ {w} : pc'[v] = pc[v] /\ local'[v] = local[v]
  BY <1>1 DEF TypeOK
<1>4. (NoIntersectors /\ LinesDistinct /\ CachesCurrent)'
  BY <1>1 DEF NoIntersectors, LinesDistinct, CachesCurrent, CurrentTree
<1>5. LookupsInStep'
  <2>1. LookupInStep(w)
    BY DEF LookupsInStep
  <2>2. LookupInStep(w)'
    BY <1>1, <1>3, <2>1 DEF LookupInStep
  <2>. QED  BY <1>1, <1>3, <2>2, OtherLookups
<1>6. BuildsLocked'
  BY <1>1, <1>3 DEF BuildsLocked
<1>7. CountsAccesses'
  <2>1. 0 \in Entry \cup Assembly
    BY TreeAssumption DEF Entry
  <2>2. Refers(w, "local", 0, t)
    BY DEF Refers
  <2>3. \A v \in Worker, l \in {"front", "back", "local"}, j \in Entry \cup Assembly, u \in Tree :
           Refers(v, l, j, u)' <=>
               Refers(v, l, j, u) /\ ~ (v = w /\ l = "local" /\ j = 0 /\ u = t)
    BY <1>1, <1>2, <1>3, NoTreeIsNoTree DEF Refers
  <2>. QED  BY ZenonT(60), <1>1, <1>2, <2>1, <2>2, <2>3, CountLoses
<1>. QED  BY <1>4, <1>5, <1>6, <1>7

\* The new first line is a copy of the local one, of another key than the lines it heads.
LEMMA PushReferenceInv ==
    ASSUME TypeOK, VersionInv, ReferenceInv, NEW w \in Worker, Push(w)
    PROVE  ReferenceInv'
<1>. USE DEF ReferenceInv
<1>. DEFINE t == local[w]
<1>1. /\ phase = "tracing" /\ phase' = "tracing" /\ pc[w] = "push"
      /\ pc' = [pc EXCEPT ![w] = "drop"]
      /\ refs' = [refs EXCEPT ![t] = @ + 1]
      /\ back' = [back EXCEPT ![w] = <<t>> \o @]
      /\ UNCHANGED <<number, mutex, built, builds, local, front, target>>
  BY DEF Push, Goto, At, masterLeaves, treeVars
<1>2. LookupInStep(w)
  BY DEF LookupsInStep
<1>3. t \in Tree /\ t = CurrentTree(target[w]) /\ t[1] = target[w] /\ ~InBack(w, t[1])
  BY <1>1, <1>2, LookupFacts DEF LookupInStep
<1>4. /\ Len(back[w]) \in Nat /\ DOMAIN back[w] = 1 .. Len(back[w]) /\ back[w] \in Seq(Tree)
      /\ \A k, l \in DOMAIN back[w] : back[w][k][1] = back[w][l][1] => k = l
  BY LookupFacts DEF LinesDistinct
<1>5. /\ DOMAIN back'[w] = 1 .. Len(back[w]) + 1
      /\ back'[w][1] = t
      /\ \A l \in 1 .. Len(back[w]) : back'[w][l + 1] = back[w][l]
      /\ \A v \in Worker \ {w} : back'[v] = back[v]
  <2>1. back'[w] = <<t>> \o back[w] /\ \A v \in Worker \ {w} : back'[v] = back[v]
    BY <1>1 DEF TypeOK
  <2>. QED  BY <1>3, <1>4, <2>1
<1>6. \A k \in DOMAIN back'[w] :
         k = 1 \/ (k - 1 \in 1 .. Len(back[w]) /\ back'[w][k] = back[w][k - 1])
  <2>1. ASSUME NEW k \in 1 .. Len(back[w]) + 1, k # 1
        PROVE  k - 1 \in 1 .. Len(back[w]) /\ back'[w][k] = back[w][k - 1]
    <3>1. k - 1 \in 1 .. Len(back[w]) /\ (k - 1) + 1 = k
      BY <1>4, <2>1
    <3>. QED  BY <1>5, <3>1
  <2>. QED  BY <1>5, <2>1
<1>7. NoIntersectors'
  BY <1>1 DEF NoIntersectors
<1>8. LookupsInStep'
  <2>1. pc'[w] = "drop" /\ \A v \in Worker \ {w} : pc'[v] = pc[v]
    BY <1>1 DEF TypeOK
  <2>2. back'[w] # <<>>
    BY <1>4, <1>5
  <2>3. LookupInStep(w)'
    BY <1>1, <1>2, <2>1, <2>2 DEF LookupInStep, CurrentTree
  <2>. QED  BY <1>1, <1>5, <2>1, <2>3, OtherLookups
<1>9. LinesDistinct'
  <2>1. \A k \in 1 .. Len(back[w]) : back[w][k][1] # t[1]
    BY <1>3, <1>4 DEF InBack
  <2>2. ASSUME NEW k \in DOMAIN back'[w], NEW l \in DOMAIN back'[w],
               back'[w][k][1] = back'[w][l][1]
        PROVE  k = l
    <3>1. CASE k = 1 \/ l = 1
      BY ZenonT(60), <1>5, <1>6, <2>1, <2>2, <3>1
    <3>2. CASE k # 1 /\ l # 1
      <4>1. k - 1 = l - 1
        BY <1>4, <1>6, <2>2, <3>2
      <4>2. k \in Int /\ l \in Int
        BY <1>4, <1>5
      <4>. QED  BY <4>1, <4>2
    <3>. QED  BY <3>1, <3>2
  <2>. QED  BY ZenonT(60), <1>5, <2>2 DEF LinesDistinct
<1>10. CachesCurrent'
  <2>1. ASSUME NEW k \in DOMAIN back'[w] PROVE back'[w][k] = CurrentTree(back'[w][k][1])
    <3>1. CASE k = 1
      BY <1>3, <1>5, <3>1
    <3>2. CASE k # 1
      <4>1. back'[w][k] = back[w][k - 1] /\ k - 1 \in DOMAIN back[w]
        BY <1>4, <1>6, <3>2
      <4>2. \A l \in DOMAIN back[w] : back[w][l] = CurrentTree(back[w][l][1])
        BY DEF CachesCurrent
      <4>. QED  BY <4>1, <4>2
    <3>. QED  BY <3>1, <3>2
  <2>. QED  BY <1>1, <1>5, <2>1 DEF CachesCurrent, CurrentTree
<1>11. BuildsLocked'
  BY <1>1 DEF BuildsLocked, TypeOK
<1>12. CountsAccesses'
  <2>1. t[1] \in Entry \cup Assembly
    BY <1>3, TreeOfAssembly
  <2>2. ~Refers(w, "back", t[1], t)
    BY <1>3 DEF Refers, InBack
  <2>3. ASSUME NEW u \in Tree
        PROVE  (\E l \in DOMAIN back'[w] : back'[w][l] = u)
                  <=> (\E l \in DOMAIN back[w] : back[w][l] = u) \/ u = t
    <3>1. ASSUME NEW l \in DOMAIN back[w] PROVE l + 1 \in DOMAIN back'[w]
      BY <1>4, <1>5
    <3>2. 1 \in DOMAIN back'[w]
      BY <1>4, <1>5
    <3>3. ASSUME NEW l \in DOMAIN back'[w], back'[w][l] = u
          PROVE  (\E m \in DOMAIN back[w] : back[w][m] = u) \/ u = t
      BY <1>4, <1>5, <1>6, <3>3
    <3>4. ASSUME NEW l \in DOMAIN back[w], back[w][l] = u
          PROVE  \E m \in DOMAIN back'[w] : back'[w][m] = u
      BY <1>4, <1>5, <3>1, <3>4
    <3>. QED  BY <1>5, <3>2, <3>3, <3>4
  <2>4. ASSUME NEW v \in Worker, NEW l \in {"front", "back", "local"},
               NEW j \in Entry \cup Assembly, NEW u \in Tree
        PROVE  Refers(v, l, j, u)' <=>
                  Refers(v, l, j, u) \/ (v = w /\ l = "back" /\ j = t[1] /\ u = t)
    <3>1. CASE l # "back"
      BY <1>1, <3>1 DEF Refers
    <3>2. CASE l = "back" /\ v # w
      BY <1>5, <3>2 DEF Refers
    <3>3. CASE l = "back" /\ v = w
      BY <2>3, <3>3 DEF Refers
    <3>. QED  BY <3>1, <3>2, <3>3
  <2>5. refs' = [refs EXCEPT ![t] = @ + 1] /\ t \in Tree
    BY <1>1, <1>3
  <2>. QED  BY <2>1, <2>2, <2>4, <2>5, CountGains
<1>. QED  BY <1>7, <1>8, <1>9, <1>10, <1>11, <1>12

\* The entry gives up its tree, if it had one.
LEMMA ReleaseReferenceInv ==
    ASSUME TypeOK, VersionInv, ReferenceInv, NEW w \in Worker, ReleaseEntry(w)
    PROVE  ReferenceInv'
<1>. USE DEF ReferenceInv
<1>. DEFINE e == EntryOf(target[w])
            old == front[w][e]
<1>1. /\ phase = "tracing" /\ phase' = "tracing" /\ pc[w] = "release"
      /\ pc' = [pc EXCEPT ![w] = "acquire"]
      /\ refs' = IF old = NoTree THEN refs ELSE [refs EXCEPT ![old] = @ - 1]
      /\ front' = [front EXCEPT ![w] = [@ EXCEPT ![e] = NoTree]]
      /\ UNCHANGED <<number, mutex, built, builds, local, back, target>>
  BY DEF ReleaseEntry, Goto, At, masterLeaves, treeVars
<1>2. e \in Entry /\ old \in Tree \cup {NoTree}
  BY <1>1, LookupFacts DEF TypeOK
<1>3. /\ front'[w] = [front[w] EXCEPT ![e] = NoTree]
      /\ \A v \in Worker \ {w} : front'[v] = front[v] /\ pc'[v] = pc[v]
      /\ pc'[w] = "acquire"
  BY <1>1 DEF TypeOK
<1>4. front'[w][e] = NoTree /\ \A i \in Entry : i # e => front'[w][i] = front[w][i]
  BY <1>2, <1>3 DEF TypeOK
<1>5. (NoIntersectors /\ LinesDistinct)'
  BY <1>1 DEF NoIntersectors, LinesDistinct
<1>6. CachesCurrent'
  BY <1>1, <1>3, <1>4 DEF CachesCurrent, CurrentTree
<1>7. LookupsInStep'
  <2>1. LookupInStep(w)
    BY DEF LookupsInStep
  <2>2. LookupInStep(w)'
    BY <1>1, <1>3, <1>4, <2>1 DEF LookupInStep
  <2>. QED  BY <1>1, <1>3, <2>2, OtherLookups
<1>8. BuildsLocked'
  BY <1>1, <1>3 DEF BuildsLocked
<1>9. CountsAccesses'
  <2>1. ASSUME NEW v \in Worker, NEW l \in {"front", "back", "local"},
               NEW j \in Entry \cup Assembly, NEW u \in Tree
        PROVE  Refers(v, l, j, u)' <=>
                  Refers(v, l, j, u) /\ ~ (v = w /\ l = "front" /\ j = e /\ u = old)
    <3>1. CASE l # "front" \/ v # w
      BY <1>1, <1>3, <3>1 DEF Refers
    <3>2. CASE l = "front" /\ v = w
      BY <1>2, <1>4, <3>2, NoTreeIsNoTree DEF Refers
    <3>. QED  BY <3>1, <3>2
  <2>2. CASE old = NoTree
    BY <1>1, <2>1, <2>2, NoTreeIsNoTree, CountStays
  <2>3. CASE old # NoTree
    <3>1. old \in Tree /\ Refers(w, "front", e, old) /\ e \in Entry \cup Assembly
      BY <1>2, <2>3 DEF Refers
    <3>. QED  BY ZenonT(60), <1>1, <2>1, <2>3, <3>1, CountLoses
  <2>. QED  BY <2>2, <2>3
<1>. QED  BY <1>5, <1>6, <1>7, <1>8, <1>9

\* The entry, which refers to nothing, gets the tree of the first line.
LEMMA AcquireReferenceInv ==
    ASSUME TypeOK, VersionInv, ReferenceInv, NEW w \in Worker, AcquireEntry(w)
    PROVE  ReferenceInv'
<1>. USE DEF ReferenceInv
<1>. DEFINE e == EntryOf(target[w])
            new == back[w][1]
<1>1. /\ phase = "tracing" /\ phase' = "tracing" /\ pc[w] = "acquire"
      /\ pc' = [pc EXCEPT ![w] = "trace"]
      /\ refs' = [refs EXCEPT ![new] = @ + 1]
      /\ front' = [front EXCEPT ![w] = [@ EXCEPT ![e] = new]]
      /\ \A v \in Worker \ {w} : target'[v] = target[v]
      /\ UNCHANGED <<number, mutex, built, builds, local, back>>
  BY DEF AcquireEntry, Goto, At, masterLeaves, treeVars, TypeOK
<1>2. LookupInStep(w)
  BY DEF LookupsInStep
<1>3. /\ e \in Entry /\ new \in Tree /\ 1 \in DOMAIN back[w] /\ front[w][e] = NoTree
      /\ local[w] = NoTree
  BY <1>1, <1>2, LookupFacts DEF LookupInStep
<1>4. /\ front'[w] = [front[w] EXCEPT ![e] = new]
      /\ \A v \in Worker \ {w} : front'[v] = front[v] /\ pc'[v] = pc[v]
      /\ pc'[w] = "trace"
  BY <1>1 DEF TypeOK
<1>5. front'[w][e] = new /\ \A i \in Entry : i # e => front'[w][i] = front[w][i]
  BY <1>3, <1>4 DEF TypeOK
<1>6. (NoIntersectors /\ LinesDistinct)'
  BY <1>1 DEF NoIntersectors, LinesDistinct
<1>7. CachesCurrent'
  <2>1. new = CurrentTree(new[1])
    BY <1>3 DEF CachesCurrent
  <2>2. \A i \in Entry : front'[w][i] # NoTree => front'[w][i] = CurrentTree(front'[w][i][1])
    BY <1>5, <2>1 DEF CachesCurrent
  <2>. QED  BY <1>1, <1>4, <2>2 DEF CachesCurrent, CurrentTree
<1>8. LookupsInStep'
  <2>1. LookupInStep(w)'
    BY <1>1, <1>3, <1>4 DEF LookupInStep
  <2>. QED  BY <1>1, <1>4, <2>1, OtherLookups
<1>9. BuildsLocked'
  BY <1>1, <1>4 DEF BuildsLocked
<1>10. CountsAccesses'
  <2>1. ASSUME NEW v \in Worker, NEW l \in {"front", "back", "local"},
               NEW j \in Entry \cup Assembly, NEW u \in Tree
        PROVE  Refers(v, l, j, u)' <=>
                  Refers(v, l, j, u) \/ (v = w /\ l = "front" /\ j = e /\ u = new)
    <3>1. CASE l # "front" \/ v # w
      BY <1>1, <1>4, <3>1 DEF Refers
    <3>2. CASE l = "front" /\ v = w
      BY <1>3, <1>5, <3>2, NoTreeIsNoTree DEF Refers
    <3>. QED  BY <3>1, <3>2
  <2>2. ~Refers(w, "front", e, new) /\ e \in Entry \cup Assembly /\ new \in Tree
    BY <1>3, NoTreeIsNoTree DEF Refers
  <2>3. refs' = [refs EXCEPT ![new] = @ + 1]
    BY <1>1
  <2>. QED  BY <2>1, <2>2, <2>3, CountGains
<1>. QED  BY <1>6, <1>7, <1>8, <1>9, <1>10

\* Every step of a worker.
LEMMA WorkerReferenceInv ==
    ASSUME TypeOK, VersionInv, ReferenceInv, NEW w \in Worker, WorkerStep(w)
    PROVE  ReferenceInv'
<1>1. CASE MissObjectInstance(w) \/ MissInstance(w) \/ FindNothing(w)
  BY <1>1, WorkerTracing, ReferencesUndisturbed
     DEF MissObjectInstance, MissInstance, FindNothing, treeVars
<1>. QED
  BY <1>1, MissFrontReferenceInv, EvictReferenceInv, LoadReferenceInv, BuildReferenceInv,
     DropReferenceInv, PushReferenceInv, ReleaseReferenceInv, AcquireReferenceInv
     DEF WorkerStep, AccessStep

-----------------------------------------------------------------------------
(* The theorems. *)

\* The two halves and the types are all of the invariant.
LEMMA Halves == IInv <=> TypeOK /\ VersionInv /\ ReferenceInv
BY DEF IInv, VersionInv, ReferenceInv

\* Steps of the user, the master thread and the workers, and steps of none of them.
LEMMA NextIInv == IInv /\ [Next]_vars => IInv'
<1>. SUFFICES ASSUME TypeOK, VersionInv, ReferenceInv, [Next]_vars
              PROVE  TypeOK' /\ VersionInv' /\ ReferenceInv'
  BY DEF IInv, VersionInv, ReferenceInv
<1>1. CASE UserStep
  BY <1>1, OthersTypeOK, UserVersionInv, OthersReferenceInv
<1>2. CASE MasterStep
  BY <1>2, OthersTypeOK, MasterVersionInv, OthersReferenceInv
<1>3. ASSUME NEW w \in Worker, WorkerStep(w) PROVE TypeOK' /\ VersionInv' /\ ReferenceInv'
  BY <1>3, WorkerTypeOK, WorkerTracing, VersionsUndisturbed, WorkerReferenceInv
<1>4. CASE UNCHANGED vars
  <2>1. TypeOK'
    BY <1>4 DEF TypeOK, vars, sceneVars, treeVars, lazyVars, workerVars
  <2>2. VersionInv'
    BY <1>4 DEF VersionInv, VersionsCountEdits, StoredVersionsPast, TreesUpToDate, TreesNumbered,
                ItemsHaveTrees, NextToDo, vars, sceneVars, treeVars
  <2>3. ReferenceInv'
    BY <1>4, ReferencesUndisturbed DEF vars, treeVars
  <2>. QED  BY <2>1, <2>2, <2>3
<1>. QED  BY <1>1, <1>2, <1>3, <1>4 DEF Next

\* The inductive invariant holds in every reachable state.
THEOREM Invariance == Spec => []IInv
<1>1. Init => IInv
  BY InitTypeOK, InitVersionInv, InitReferenceInv, Halves
<1>. QED  BY <1>1, NextIInv, PTL DEF Spec

\* The variables keep their types.
THEOREM TypeCorrect == Spec => []TypeOK
<1>1. IInv => TypeOK
  BY DEF IInv
<1>. QED  BY <1>1, Invariance, PTL

\* assemblytree.cpp, lazy.h: every reference count is exact, at every step of every lookup.
THEOREM ReferencesCounted == Spec => []CountsAccesses
<1>1. IInv => CountsAccesses
  BY DEF IInv
<1>. QED  BY <1>1, Invariance, PTL

\* AssemblyTree::update() and ~AssemblyTree delete only trees that nothing refers to.
THEOREM NothingDangles == Spec => []NoDanglingAccess
<1>1. ASSUME TypeOK, VersionInv, ReferenceInv, NEW t \in Tree, AccessesTo(t) # {}
      PROVE  Exists(t)
  <2>1. PICK w \in Worker : \/ \E e \in Entry : front[w][e] = t
                            \/ \E i \in DOMAIN back[w] : back[w][i] = t
                            \/ local[w] = t
    BY <1>1 DEF AccessesTo, AccessObject, Refers
  <2>2. CASE local[w] = t
    <3>1. pc[w] # "trace" /\ t = CurrentTree(t[1])
      BY <1>1, <2>2, LookupFacts, NoTreeIsNoTree
    <3>. QED  BY <1>1, <3>1 DEF Exists, ReferenceInv, NoIntersectors
  <2>3. CASE \E e \in Entry : front[w][e] = t
    <3>1. t = CurrentTree(t[1]) /\ front[w] # NoAccesses
      BY <1>1, <2>3, NoTreeIsNoTree DEF ReferenceInv, CachesCurrent, NoAccesses
    <3>. QED  BY <1>1, <3>1 DEF Exists, ReferenceInv, NoIntersectors
  <2>4. CASE \E i \in DOMAIN back[w] : back[w][i] = t
    <3>1. t = CurrentTree(t[1]) /\ back[w] # <<>>
      BY <1>1, <2>4 DEF ReferenceInv, CachesCurrent
    <3>. QED  BY <1>1, <3>1 DEF Exists, ReferenceInv, NoIntersectors
  <2>. QED  BY <2>1, <2>2, <2>3, <2>4
<1>2. IInv => NoDanglingAccess
  BY <1>1, Halves DEF NoDanglingAccess
<1>. QED  BY <1>2, Invariance, PTL

\* AssemblyTree::update_child_trees(): a tree whose version is its assembly's has the
\* assembly's regions.
THEOREM UpToDate == Spec => []TreesUpToDate
<1>1. IInv => TreesUpToDate
  BY DEF IInv
<1>. QED  BY <1>1, Invariance, PTL

\* Lazy and Access: no tree is built twice.
THEOREM OneBuild == Spec => []BuiltOnce
<1>1. IInv => BuiltOnce
  BY DEF IInv, BuildsLocked, BuiltOnce
<1>. QED  BY <1>1, Invariance, PTL

-----------------------------------------------------------------------------
(* When the scene is edited between renderings only. *)

\* The user does not disturb it.
LEMMA UserKeepsScene ==
    ASSUME TypeOK, SceneKept, 
           phase # "idle" => changing = InvalidKey /\ UNCHANGED <<placed, removed>>,
           (phase # "idle" => changing = InvalidKey)', UserStep
    PROVE  SceneKept'
<1>1. UNCHANGED <<phase, treeVars, lazyVars, workerVars>>
  BY DEF UserStep, EditObjects, EditInstances, RemoveAssembly, BumpVersion
<1>2. phase \in {"updating", "tracing"} => UNCHANGED <<version, placed, removed>>
  BY DEF UserStep, EditObjects, EditInstances, RemoveAssembly, BumpVersion
<1>3. (placed \cap removed = {})'
  BY DEF SceneKept, UserStep, EditObjects, EditInstances, RemoveAssembly, BumpVersion
<1>. QED  BY <1>1, <1>2, <1>3 DEF SceneKept, NextToDo, treeVars, workerVars

\* The master thread finds it as it was when the update began.
LEMMA MasterKeepsScene ==
    ASSUME IInv, SceneKept, MasterStep
    PROVE  SceneKept'
<1>1. TypeOK /\ StoredVersionsPast /\ NoIntersectors
  BY DEF IInv
<1>2. UNCHANGED <<sceneVars, pc, target>>
  BY DEF MasterStep, BeginUpdate, ReadVersion, UpdateTree, StartTracing, ReleaseIntersectors,
         Destroy, MissAssembly, workerVars
<1>3. CASE BeginUpdate
  <2>1. phase = "idle" /\ phase' = "updating" /\ items' \subseteq placed /\ todo' = placed
    BY <1>3 DEF BeginUpdate
  <2>2. reading' = 0
    BY <1>1, <1>3 DEF BeginUpdate, StoredVersionsPast
  <2>3. \A w \in Worker : pc[w] = "trace"
    BY <1>1, <2>1 DEF NoIntersectors
  <2>. QED  BY <1>2, <2>1, <2>2, <2>3 DEF SceneKept, sceneVars
<1>4. ASSUME NEW a \in Assembly, ReadVersion(a) PROVE SceneKept'
  <2>1. phase = "updating" /\ NextToDo(a) /\ reading' = version[a]
    BY <1>4 DEF ReadVersion
  <2>2. UNCHANGED <<phase, todo, items, stored>>
    BY <1>4 DEF ReadVersion
  <2>3. todo \subseteq Int
    BY <1>1, TreeAssumption DEF TypeOK, Assembly
  <2>4. ASSUME NEW b \in Assembly, NextToDo(b) PROVE a = b
    BY <2>1, <2>3, <2>4 DEF NextToDo
  <2>. QED  BY <1>2, <2>1, <2>2, <2>4 DEF SceneKept, sceneVars, NextToDo
<1>5. ASSUME NEW a \in Assembly, UpdateTree(a) PROVE SceneKept'
  <2>1. /\ phase = "updating" /\ NextToDo(a) /\ reading # 0
        /\ stored' = [stored EXCEPT ![a] = reading]
        /\ todo' = todo \ {a} /\ reading' = 0
        /\ UNCHANGED <<phase, items>>
    BY <1>5 DEF UpdateTree
  <2>2. reading = version[a]
    BY <2>1 DEF SceneKept
  <2>3. stored \in [Assembly -> Nat] /\ items \subseteq Assembly
    BY <1>1 DEF TypeOK
  <2>4. \A b \in items' \ todo' : stored'[b] = version[b]
    BY <2>1, <2>2, <2>3 DEF SceneKept
  <2>. QED  BY <1>2, <2>1, <2>4 DEF SceneKept, sceneVars
<1>6. CASE StartTracing
  BY <1>2, <1>6 DEF StartTracing, SceneKept, NextToDo, sceneVars, treeVars
<1>7. CASE ReleaseIntersectors \/ Destroy
  BY <1>2, <1>7 DEF ReleaseIntersectors, Destroy, SceneKept, sceneVars
<1>8. ~ \E a \in Assembly : MissAssembly(a)
  BY DEF MissAssembly, NextToDo, SceneKept
<1>. QED  BY <1>3, <1>4, <1>5, <1>6, <1>7, <1>8 DEF MasterStep

\* A worker finds the instance and the object instances that it looks for.
LEMMA WorkerKeepsScene ==
    ASSUME IInv, SceneKept, phase # "idle" => changing = InvalidKey,
           NEW w \in Worker, WorkerStep(w)
    PROVE  SceneKept'
<1>1. /\ TypeOK /\ ItemsHaveTrees /\ TreesUpToDate
      /\ pc \in [Worker -> {"trace", "evict", "load", "build", "unwind", "push", "drop",
                           "release", "acquire"}]
      /\ target \in [Worker -> Assembly \cup {InvalidKey}]
  BY DEF IInv, TypeOK
<1>2. phase = "tracing"
  BY WorkerTracing
<1>3. items \subseteq placed \ removed /\ todo = {}
      /\ \A v \in Worker : pc[v] # "trace" => target[v] \in items
  BY <1>1, <1>2 DEF SceneKept, ItemsHaveTrees
<1>4. ~MissInstance(w)
  BY <1>3 DEF MissInstance
<1>5. ~MissObjectInstance(w)
  <2>. SUFFICES ASSUME At(w, "build") PROVE RegionsFound(target[w])
    BY DEF MissObjectInstance
  <2>1. target[w] \in items /\ items \subseteq Assembly
    BY <1>1, <1>3 DEF At, TypeOK
  <2>2. target[w] # changing
    BY <1>2, <2>1, TreeAssumption DEF Assembly, InvalidKey
  <2>3. stored[target[w]] = version[target[w]]
    BY <1>2, <1>3, <2>1 DEF SceneKept
  <2>. QED  BY <1>1, <1>3, <2>1, <2>2, <2>3 DEF TreesUpToDate, RegionsFound
<1>6. CASE FindNothing(w)
  BY <1>6 DEF FindNothing, SceneKept, sceneVars
<1>7. CASE ~FindNothing(w)
  <2>1. UNCHANGED masterLeaves
    BY <1>4, <1>5, <1>7
       DEF WorkerStep, AccessStep, MissFront, Evict, Load, Build, ThrowInBuild, Unwind, Push, DropLine,
           ReleaseEntry, AcquireEntry
  <2>2. \A v \in Worker : pc'[v] # "trace" => target'[v] \in items
    <3>1. CASE \E a \in Assembly : MissFront(w, a)
      BY <1>1, <1>3, <3>1 DEF MissFront, Goto
    <3>2. CASE Unwind(w) \/ AcquireEntry(w)
      BY <1>1, <1>3, <3>2 DEF Unwind, AcquireEntry, Goto
    <3>3. CASE Evict(w) \/ Load(w) \/ Build(w) \/ ThrowInBuild(w) \/ Push(w) \/ DropLine(w)
               \/ ReleaseEntry(w)
      <4>1. UNCHANGED target /\ pc[w] # "trace" /\ \A v \in Worker \ {w} : pc'[v] = pc[v]
        BY <1>1, <3>3
           DEF Evict, Load, Build, ThrowInBuild, Push, DropLine, ReleaseEntry, Goto, At
      <4>. QED  BY <1>3, <4>1
    <3>. QED  BY <1>4, <1>5, <1>7, <3>1, <3>2, <3>3 DEF WorkerStep, AccessStep
  <2>. QED  BY <1>2, <2>1, <2>2 DEF SceneKept, NextToDo, masterLeaves, sceneVars, treeVars
<1>. QED  BY <1>6, <1>7

\* The assertions on the instances that the trees refer to cannot fail if the scene is
\* edited between renderings only: it is the edits during one that make them fail.
THEOREM ScenesFound == Spec /\ EditsBetweenRenderings => []InstancesFound
<1>1. Init => SceneKept
  BY DEF Init, SceneKept
<1>2. ASSUME IInv, SceneKept, phase # "idle" => changing = InvalidKey,
             (phase # "idle" => changing = InvalidKey)', [Next]_vars,
             [phase # "idle" => UNCHANGED <<placed, removed>>]_vars
      PROVE  SceneKept'
  <2>1. TypeOK
    BY <1>2 DEF IInv
  <2>2. CASE UNCHANGED vars
    BY <1>2, <2>2 DEF vars, sceneVars, treeVars, workerVars, SceneKept, NextToDo
  <2>3. CASE UserStep /\ ~UNCHANGED vars
    BY <1>2, <2>1, <2>3, UserKeepsScene
  <2>4. CASE MasterStep
    BY <1>2, <2>4, MasterKeepsScene
  <2>5. ASSUME NEW w \in Worker, WorkerStep(w) PROVE SceneKept'
    BY <1>2, <2>5, WorkerKeepsScene
  <2>. QED  BY <1>2, <2>2, <2>3, <2>4, <2>5 DEF Next
<1>3. SceneKept => InstancesFound
  BY DEF SceneKept, InstancesFound
<1>. QED  BY <1>1, <1>2, <1>3, Invariance, PTL DEF Spec, EditsBetweenRenderings

=============================================================================
