----------------------------- MODULE AssemblyTree -----------------------------
(***************************************************************************)
(* renderer/kernel/intersection/assemblytree.cpp over the lazy objects of  *)
(* foundation/utility/lazy.h: the tree of a scene's assembly instances,    *)
(* with one lazily built triangle tree per assembly.                       *)
(*                                                                         *)
(* Three parties share it.  The master thread brings the trees up to date  *)
(* before each rendering.  The worker threads look trees up while they     *)
(* trace rays, each through the dual-stage cache of its own intersector,   *)
(* and the first one to need a tree builds it.  The user edits the scene   *)
(* in the user interface thread, even while it is being rendered.          *)
(*                                                                         *)
(* An Access object is where a reference to a tree is kept: one in every   *)
(* entry of stage 0, one in every line of stage 1, and the local one of    *)
(* LRUCache::get().  Each locked section is one step; building a tree      *)
(* holds the lock over several.  Flushable assemblies, whose region trees  *)
(* contain further lazy trees, are left out.                               *)
(***************************************************************************)
EXTENDS Integers, Sequences, FiniteSets

CONSTANTS ThreadCount,
          AssemblyCount,  \* assemblies, numbered like their unique IDs
          Object,         \* object instances that an assembly may contain
          Lines,          \* of the access cache: stage-0 entries (one way), stage-1 lines
          MaxEdits,       \* bound: edits of the scene
          MaxThrows       \* bound: builds of a tree that fail

ASSUME TreeAssumption ==
    /\ {ThreadCount, AssemblyCount, Lines} \subseteq Nat \ {0}
    /\ {MaxEdits, MaxThrows} \subseteq Nat

VARIABLES content,   \* the object instances of each assembly
          placed,    \* assemblies that have an instance in the scene
          removed,   \* assemblies that the user has deleted
          version,   \* each assembly's version ID
          changing,  \* the assembly that the user interface thread is editing
          edits,     \* history: how many edits were begun
          phase,     \* what the master thread does with the tree
          todo,      \* assemblies whose trees are still to be updated
          reading,   \* current_version_id, once read
          items,     \* assembly instances in the tree
          stored,    \* m_assembly_versions, 0 where there is no entry (versions, 0 .. in the code, are 1 ..)
          number,    \* how many trees an assembly has had: the last one exists
          captured,  \* the regions given to the factory of this tree
          refs,      \* m_reference_count of each tree
          mutex,     \* the worker inside each tree's m_mutex, 0 if free
          built,     \* trees whose m_object is not null
          builds,    \* history: how often each tree was built
          throws,    \* history: how many builds failed
          pc,        \* where each worker is in AccessCacheMap::access()
          target,    \* the assembly it looks up
          local,     \* the Access of the local line of LRUCache::get()
          keys,      \* stage 0 of its cache: the key of each entry
          front,     \* and its Access
          back       \* stage 1 of its cache: an Access per line, the latest first

sceneVars == <<content, placed, removed, version, changing, edits>>
treeVars == <<todo, reading, items, stored, number, captured>>
lazyVars == <<refs, mutex, built, builds, throws>>
workerVars == <<pc, target, local, keys, front, back>>
vars == <<sceneVars, phase, treeVars, lazyVars, workerVars>>

Worker == 1 .. ThreadCount
Assembly == 0 .. AssemblyCount - 1
InvalidKey == AssemblyCount

Tree == Assembly \X (1 .. MaxEdits + 1)
NoTree == <<>>
CurrentTree(a) == <<a, number[a]>>

Entry == 0 .. Lines - 1
EntryOf(a) == a % Lines

NoKeys == [e \in Entry |-> InvalidKey]
NoAccesses == [e \in Entry |-> NoTree]

Init ==
    /\ content \in [Assembly -> SUBSET Object]
    /\ placed \in SUBSET Assembly
    /\ removed = {}
    /\ version = [a \in Assembly |-> 1]
    /\ changing = InvalidKey /\ edits = 0
    /\ phase = "idle"
    /\ todo = {} /\ reading = 0 /\ items = {}
    /\ stored = [a \in Assembly |-> 0]
    /\ number = [a \in Assembly |-> 0]
    /\ captured = [a \in Assembly |-> {}]
    /\ refs = [t \in Tree |-> 0]
    /\ mutex = [t \in Tree |-> 0]
    /\ built = {} /\ builds = [t \in Tree |-> 0] /\ throws = 0
    /\ pc = [w \in Worker |-> "trace"]
    /\ target = [w \in Worker |-> InvalidKey]
    /\ local = [w \in Worker |-> NoTree]
    /\ keys = [w \in Worker |-> NoKeys]
    /\ front = [w \in Worker |-> NoAccesses]
    /\ back = [w \in Worker |-> <<>>]

-----------------------------------------------------------------------------
(* ProjectBuilder: the user edits the scene. *)

EditBegins ==
    /\ changing = InvalidKey
    /\ edits < MaxEdits
    /\ phase \notin {"destroyed", "lost", "failed"}
    /\ edits' = edits + 1

\* insert_objects(), remove_object(), remove_object_instance() up to their last line.
EditObjects(a) ==
    /\ EditBegins
    /\ a \notin removed
    /\ changing' = a
    /\ \E o \in Object :
          content' = [content EXCEPT ![a] = IF o \in @ THEN @ \ {o} ELSE @ \cup {o}]
    /\ UNCHANGED <<placed, removed, version, phase, treeVars, lazyVars, workerVars>>

\* assembly.bump_version_id()
BumpVersion ==
    /\ changing # InvalidKey
    /\ version' = [version EXCEPT ![changing] = @ + 1]
    /\ changing' = InvalidKey
    /\ UNCHANGED <<content, placed, removed, edits, phase, treeVars, lazyVars, workerVars>>

\* insert_assembly_instance(), remove_assembly_instance()
EditInstances(a) ==
    /\ EditBegins
    /\ a \notin removed
    /\ placed' = IF a \in placed THEN placed \ {a} ELSE placed \cup {a}
    /\ UNCHANGED <<content, removed, version, changing, phase, treeVars, lazyVars, workerVars>>

\* remove_assembly(): its instances go, then the assembly itself.  Its tree stays.
RemoveAssembly(a) ==
    /\ EditBegins
    /\ a \notin removed
    /\ placed' = placed \ {a}
    /\ removed' = removed \cup {a}
    /\ UNCHANGED <<content, version, changing, phase, treeVars, lazyVars, workerVars>>

-----------------------------------------------------------------------------
(* AssemblyTree: the master thread. *)

\* update() before a rendering: clear(), build_assembly_tree(), collect_assemblies().
BeginUpdate ==
    /\ phase = "idle"
    /\ phase' = "updating"
    /\ items' = {a \in placed : content[a] # {}}
    /\ todo' = placed
    /\ UNCHANGED <<sceneVars, reading, stored, number, captured, lazyVars, workerVars>>

\* The assemblies are gone through in the order of their unique IDs.
NextToDo(a) == a \in todo /\ \A b \in todo : a <= b

\* get_by_uid() does not find the assembly any more, or the reference it returned is to
\* an assembly that has been deleted since.
MissAssembly(a) ==
    /\ phase = "updating"
    /\ NextToDo(a) /\ a \in removed
    /\ phase' = "lost"
    /\ UNCHANGED <<sceneVars, treeVars, lazyVars, workerVars>>

\* current_version_id is read before the regions are collected.
ReadVersion(a) ==
    /\ phase = "updating"
    /\ NextToDo(a) /\ a \notin removed /\ reading = 0
    /\ reading' = version[a]
    /\ UNCHANGED <<sceneVars, phase, todo, items, stored, number, captured,
                   lazyVars, workerVars>>

\* Mutant: the version is read again when it is stored.
StoreLatestVersion(a) ==
    /\ phase = "updating"
    /\ NextToDo(a) /\ a \notin removed /\ reading # 0
    /\ IF reading # stored[a]
       THEN /\ number' = [number EXCEPT ![a] = @ + 1]
            /\ captured' = [captured EXCEPT ![a] = content[a]]
       ELSE UNCHANGED <<number, captured>>
    /\ stored' = [stored EXCEPT ![a] = version[a]]
    /\ todo' = todo \ {a}
    /\ reading' = 0
    /\ UNCHANGED <<sceneVars, phase, items, lazyVars, workerVars>>

\* One turn of the loop of update_child_trees(): a tree that is missing or out of date is
\* replaced by one that is to be built from the regions the assembly has now.
UpdateTree(a) ==
    /\ phase = "updating"
    /\ NextToDo(a) /\ a \notin removed /\ reading # 0
    /\ IF reading # stored[a]
       THEN /\ number' = [number EXCEPT ![a] = @ + 1]
            /\ captured' = [captured EXCEPT ![a] = content[a]]
       ELSE UNCHANGED <<number, captured>>
    /\ stored' = [stored EXCEPT ![a] = reading]
    /\ todo' = todo \ {a}
    /\ reading' = 0
    /\ UNCHANGED <<sceneVars, phase, items, lazyVars, workerVars>>

\* The renderers are built, each with an intersector, and rendering starts.
StartTracing ==
    /\ phase = "updating"
    /\ todo = {}
    /\ phase' = "tracing"
    /\ UNCHANGED <<sceneVars, treeVars, lazyVars, workerVars>>

\* Where an Access object can be: a worker's entries, its lines, which have different
\* keys, and its local line.
AccessObject == Worker \X ({"front", "back", "local"} \X (Entry \cup Assembly))

\* The Access object of worker w at place i of kind k refers to tree t.
Refers(w, k, i, t) ==
    \/ k = "front" /\ i \in Entry /\ front[w][i] = t
    \/ k = "back"  /\ i = t[1] /\ \E l \in DOMAIN back[w] : back[w][l] = t
    \/ k = "local" /\ i = 0 /\ local[w] = t

AccessesTo(t) == {x \in AccessObject : Refers(x[1], x[2][1], x[2][2], t)}

\* Mutant: the intersectors outlive the rendering.
KeepIntersectors ==
    /\ phase = "tracing"
    /\ \A w \in Worker : pc[w] = "trace"
    /\ phase' = "idle"
    /\ UNCHANGED <<sceneVars, treeVars, lazyVars, workerVars>>

\* The frame renderer is released, which it is when no job is left, and with it every
\* intersector and the Access objects in its cache.
ReleaseIntersectors ==
    /\ phase = "tracing"
    /\ \A w \in Worker : pc[w] = "trace"
    /\ phase' = "idle"
    /\ refs' = [t \in Tree |-> refs[t] - Cardinality(AccessesTo(t))]
    /\ keys' = [w \in Worker |-> NoKeys]
    /\ front' = [w \in Worker |-> NoAccesses]
    /\ back' = [w \in Worker |-> <<>>]
    /\ UNCHANGED <<sceneVars, treeVars, mutex, built, builds, throws, pc, target, local>>

\* The project is closed: ~TraceContext, ~AssemblyTree.
Destroy ==
    /\ phase = "idle"
    /\ changing = InvalidKey
    /\ phase' = "destroyed"
    /\ UNCHANGED <<sceneVars, treeVars, lazyVars, workerVars>>

-----------------------------------------------------------------------------
(* AssemblyLeafVisitor::visit() and the access cache: worker w. *)

At(w, l) == phase = "tracing" /\ pc[w] = l

Goto(w, from, to) == At(w, from) /\ pc' = [pc EXCEPT ![w] = to]

\* A step that locks the mutex of tree t and unlocks it waits while t is being built.
Free(t) == mutex[t] = 0

masterLeaves == <<sceneVars, phase, treeVars>>

InFront(w, a) == keys[w][EntryOf(a)] = a
InBack(w, a) == \E i \in DOMAIN back[w] : back[w][i][1] = a

\* A ray has hit the box of an assembly instance that the user has removed since the
\* trees were updated: get_by_uid() returns null.
MissInstance(w) ==
    /\ At(w, "trace")
    /\ items \ placed # {}
    /\ phase' = "lost"
    /\ UNCHANGED <<sceneVars, treeVars, lazyVars, workerVars>>

\* Stage 0 answers with an Access that refers to no tree: the entry was given its key
\* before its load failed.
FindNothing(w) ==
    /\ At(w, "trace")
    /\ \E a \in items \cap placed : InFront(w, a) /\ front[w][EntryOf(a)] = NoTree
    /\ phase' = "failed"
    /\ UNCHANGED <<sceneVars, treeVars, lazyVars, workerVars>>

\* The line at position i becomes the first one.
MovedToFront(lines, i) ==
    [k \in DOMAIN lines |->
        IF k = 1 THEN lines[i] ELSE IF k <= i THEN lines[k - 1] ELSE lines[k]]

\* Neither a hit of stage 0 nor the use of the tree it returns changes anything.  On a
\* miss the entry is given the key and stage 1 is asked.
MissFront(w, a) ==
    /\ a \in items \cap placed
    /\ ~InFront(w, a)
    /\ Goto(w, "trace", IF InBack(w, a) THEN "release"
                        ELSE IF Len(back[w]) = Lines THEN "evict" ELSE "load")
    /\ target' = [target EXCEPT ![w] = a]
    /\ keys' = [keys EXCEPT ![w] = [@ EXCEPT ![EntryOf(a)] = a]]
    /\ \/ ~InBack(w, a) /\ UNCHANGED back
       \/ \E i \in DOMAIN back[w] :
             /\ back[w][i][1] = a
             /\ back' = [back EXCEPT ![w] = MovedToFront(@, i)]
    /\ UNCHANGED <<masterLeaves, lazyVars, local, front>>

\* The last line is unloaded, which invalidates the key in stage 0 but leaves the Access
\* there, and resets the Access of the line.
Evict(w) ==
    LET victim == back[w][Lines]
    IN  /\ Goto(w, "evict", "load")
        /\ Free(victim)
        /\ refs' = [refs EXCEPT ![victim] = @ - 1]
        /\ back' = [back EXCEPT ![w] = SubSeq(@, 1, Lines - 1)]
        /\ IF InFront(w, victim[1])
           THEN keys' = [keys EXCEPT ![w] = [@ EXCEPT ![EntryOf(victim[1])] = InvalidKey]]
           ELSE UNCHANGED keys
        /\ UNCHANGED <<masterLeaves, mutex, built, builds, throws, target, local, front>>

\* Access::reset(lazy) of the local line: the reference is counted, and the lock is kept
\* if there is no object yet.
Load(w) ==
    LET t == CurrentTree(target[w])
    IN  /\ Goto(w, "load", IF t \in built THEN "push" ELSE "build")
        /\ Free(t)
        /\ local' = [local EXCEPT ![w] = t]
        /\ refs' = [refs EXCEPT ![t] = @ + 1]
        /\ mutex' = [mutex EXCEPT ![t] = IF t \in built THEN 0 ELSE w]
        /\ UNCHANGED <<masterLeaves, built, builds, throws, target, keys, front, back>>

\* The object instances that the regions given to the tree belong to are in the assembly.
RegionsFound(a) == a \notin removed /\ captured[a] \subseteq content[a]

\* TriangleTree's constructor has found the object instances its regions belong to.
Build(w) ==
    LET t == local[w]
    IN  /\ Goto(w, "build", "push")
        /\ RegionsFound(target[w])
        /\ built' = built \cup {t}
        /\ builds' = [builds EXCEPT ![t] = @ + 1]
        /\ mutex' = [mutex EXCEPT ![t] = 0]
        /\ UNCHANGED <<masterLeaves, refs, throws, target, local, keys, front, back>>

\* It has not: the user has removed one, and get_by_index() reads past the end, or the
\* assembly that the tree's arguments refer to.
MissObjectInstance(w) ==
    /\ At(w, "build")
    /\ ~RegionsFound(target[w])
    /\ phase' = "lost"
    /\ UNCHANGED <<sceneVars, treeVars, lazyVars, workerVars>>

\* Mutant: the lock is not released on the way out.
ThrowHoldingLock(w) ==
    /\ throws < MaxThrows
    /\ Goto(w, "build", "unwind")
    /\ throws' = throws + 1
    /\ UNCHANGED <<masterLeaves, refs, mutex, built, builds, target, local, keys, front, back>>

\* The factory throws: the lock is released, the object stays null.
ThrowInBuild(w) ==
    /\ throws < MaxThrows
    /\ Goto(w, "build", "unwind")
    /\ throws' = throws + 1
    /\ mutex' = [mutex EXCEPT ![local[w]] = 0]
    /\ UNCHANGED <<masterLeaves, refs, built, builds, target, local, keys, front, back>>

\* Mutant: an Access under construction is not destroyed.
UnwindWithoutReset(w) ==
    /\ Goto(w, "unwind", "trace")
    /\ Free(local[w])
    /\ local' = [local EXCEPT ![w] = NoTree]
    /\ target' = [target EXCEPT ![w] = InvalidKey]
    /\ UNCHANGED <<masterLeaves, lazyVars, keys, front, back>>

\* The local line is destroyed and the exception ends the job.
Unwind(w) ==
    /\ Goto(w, "unwind", "trace")
    /\ Free(local[w])
    /\ refs' = [refs EXCEPT ![local[w]] = @ - 1]
    /\ local' = [local EXCEPT ![w] = NoTree]
    /\ target' = [target EXCEPT ![w] = InvalidKey]
    /\ UNCHANGED <<masterLeaves, mutex, built, builds, throws, keys, front, back>>

\* m_queue.push_front(line): the Access is copied, which takes the lock once more.
Push(w) ==
    /\ Goto(w, "push", "drop")
    /\ Free(local[w])
    /\ refs' = [refs EXCEPT ![local[w]] = @ + 1]
    /\ back' = [back EXCEPT ![w] = <<local[w]>> \o @]
    /\ UNCHANGED <<masterLeaves, mutex, built, builds, throws, target, local, keys, front>>

\* The local line is destroyed.
DropLine(w) ==
    /\ Goto(w, "drop", "release")
    /\ Free(local[w])
    /\ refs' = [refs EXCEPT ![local[w]] = @ - 1]
    /\ local' = [local EXCEPT ![w] = NoTree]
    /\ UNCHANGED <<masterLeaves, mutex, built, builds, throws, target, keys, front, back>>

\* Stage 0's element = stage 1's element, first half: Access::reset() gives up the tree
\* that the entry referred to.
ReleaseEntry(w) ==
    LET e == EntryOf(target[w])
        old == front[w][e]
    IN  /\ Goto(w, "release", "acquire")
        /\ old # NoTree => Free(old)
        /\ refs' = IF old = NoTree THEN refs ELSE [refs EXCEPT ![old] = @ - 1]
        /\ front' = [front EXCEPT ![w] = [@ EXCEPT ![e] = NoTree]]
        /\ UNCHANGED <<masterLeaves, mutex, built, builds, throws, target, local, keys, back>>

\* The second half, after which the tree is used.
AcquireEntry(w) ==
    LET e == EntryOf(target[w])
        new == back[w][1]
    IN  /\ Goto(w, "acquire", "trace")
        /\ Free(new)
        /\ refs' = [refs EXCEPT ![new] = @ + 1]
        /\ front' = [front EXCEPT ![w] = [@ EXCEPT ![e] = new]]
        /\ target' = [target EXCEPT ![w] = InvalidKey]
        /\ UNCHANGED <<masterLeaves, mutex, built, builds, throws, local, keys, back>>

AccessStep(w) ==
    \/ Evict(w) \/ Load(w) \/ Build(w) \/ MissObjectInstance(w) \/ Unwind(w)
    \/ Push(w) \/ DropLine(w) \/ ReleaseEntry(w) \/ AcquireEntry(w)

WorkerStep(w) ==
    \/ AccessStep(w)
    \/ ThrowInBuild(w) \/ MissInstance(w) \/ FindNothing(w)
    \/ \E a \in Assembly : MissFront(w, a)

UserStep ==
    \/ \E a \in Assembly : EditObjects(a) \/ EditInstances(a) \/ RemoveAssembly(a)
    \/ BumpVersion

MasterStep ==
    \/ \E a \in Assembly : ReadVersion(a) \/ UpdateTree(a) \/ MissAssembly(a)
    \/ BeginUpdate \/ StartTracing \/ ReleaseIntersectors \/ Destroy

Next ==
    \/ UserStep
    \/ MasterStep
    \/ \E w \in Worker : WorkerStep(w)

Spec == Init /\ [][Next]_vars

\* The worker threads are scheduled and building a tree terminates.
Fairness == \A w \in Worker : WF_vars(AccessStep(w))

FairSpec == Spec /\ Fairness

-----------------------------------------------------------------------------
(* Properties. *)

TypeOK ==
    /\ content \in [Assembly -> SUBSET Object]
    /\ placed \subseteq Assembly
    /\ removed \subseteq Assembly
    /\ version \in [Assembly -> Nat \ {0}]
    /\ changing \in Assembly \cup {InvalidKey}
    /\ edits \in Nat
    /\ phase \in {"idle", "updating", "tracing", "destroyed", "lost", "failed"}
    /\ todo \subseteq Assembly
    /\ reading \in Nat
    /\ items \subseteq Assembly
    /\ stored \in [Assembly -> Nat]
    /\ number \in [Assembly -> Nat]
    /\ captured \in [Assembly -> SUBSET Object]
    /\ refs \in [Tree -> Int]
    /\ mutex \in [Tree -> Worker \cup {0}]
    /\ built \subseteq Tree
    /\ builds \in [Tree -> Nat]
    /\ throws \in Nat
    /\ pc \in [Worker -> {"trace", "evict", "load", "build", "unwind", "push", "drop",
                          "release", "acquire"}]
    /\ target \in [Worker -> Assembly \cup {InvalidKey}]
    /\ local \in [Worker -> Tree \cup {NoTree}]
    /\ keys \in [Worker -> [Entry -> Assembly \cup {InvalidKey}]]
    /\ front \in [Worker -> [Entry -> Tree \cup {NoTree}]]
    /\ back \in [Worker -> Seq(Tree)]

Exists(t) == t = CurrentTree(t[1]) /\ phase # "destroyed"

\* The reference count of a tree is the number of Access objects that refer to it,
\* through copies, evictions, entries overwritten and builds that throw.
CountsAccesses == \A t \in Tree : refs[t] = Cardinality(AccessesTo(t))

\* No Access object, not even one left behind in an invalidated entry, refers to a tree
\* that was deleted by an update or with the project.
NoDanglingAccess == \A t \in Tree : AccessesTo(t) # {} => Exists(t)

\* A tree whose stored version is that of its assembly was given the regions that the
\* assembly has: an edit made during an update is made up for by the next one.
TreesUpToDate ==
    \A a \in Assembly \ {changing} :
        stored[a] = version[a] => captured[a] = content[a]

\* However many workers need a tree at once, and whichever builds fail, it is built once.
BuiltOnce == \A t \in Tree : builds[t] <= 1

\* What the properties above rest on.

\* An assembly's version has grown by the edits of it that are over.
VersionsCountEdits ==
    /\ edits <= MaxEdits
    /\ \A a \in Assembly : version[a] + (IF a = changing THEN 1 ELSE 0) <= edits + 1

\* No tree is newer than its assembly.
StoredVersionsPast ==
    /\ \A a \in Assembly : stored[a] <= version[a]
    /\ reading # 0 =>
          /\ phase \in {"updating", "lost"} /\ todo # {}
          /\ \A a \in Assembly : NextToDo(a) => stored[a] <= reading /\ reading <= version[a]

\* A new tree comes with a new version.
TreesNumbered ==
    \A a \in Assembly :
        number[a] <= stored[a] /\ (stored[a] # 0 => number[a] # 0)

\* The instances that rays can hit have a tree, once the update is over.
ItemsHaveTrees ==
    /\ \A a \in items \ todo : number[a] # 0
    /\ phase \notin {"updating", "lost"} => todo = {}

\* Between renderings there is no intersector.
NoIntersectors ==
    phase \in {"idle", "updating", "destroyed"} =>
        \A w \in Worker : pc[w] = "trace" /\ front[w] = NoAccesses /\ back[w] = <<>>

\* What worker w has done so far of the lookup it is in.
LookupInStep(w) ==
    /\ pc[w] # "trace" => target[w] \in Assembly /\ number[target[w]] # 0
    /\ IF pc[w] \in {"build", "unwind", "push", "drop"}
       THEN local[w] = CurrentTree(target[w])
       ELSE local[w] = NoTree
    /\ pc[w] = "evict" => Len(back[w]) = Lines
    /\ pc[w] \in {"evict", "load", "build", "unwind", "push"} => ~InBack(w, target[w])
    /\ pc[w] \in {"drop", "release", "acquire"} => back[w] # <<>>
    /\ pc[w] = "acquire" => front[w][EntryOf(target[w])] = NoTree

LookupsInStep == \A w \in Worker : LookupInStep(w)

\* The lines of a worker have different keys.
LinesDistinct ==
    \A w \in Worker : \A i, j \in DOMAIN back[w] :
        back[w][i][1] = back[w][j][1] => i = j

\* What the cache of a worker refers to is the last tree of its assembly.
CachesCurrent ==
    \A w \in Worker :
        /\ \A e \in Entry : front[w][e] # NoTree => front[w][e] = CurrentTree(front[w][e][1])
        /\ \A i \in DOMAIN back[w] : back[w][i] = CurrentTree(back[w][i][1])

\* A tree is built by the worker that holds its lock, and only when it is not there.
BuildsLocked ==
    /\ \A w \in Worker : pc[w] = "build" => mutex[local[w]] = w /\ local[w] \notin built
    /\ \A t \in Tree : builds[t] = (IF t \in built THEN 1 ELSE 0)

IInv ==
    /\ TypeOK
    /\ VersionsCountEdits
    /\ StoredVersionsPast
    /\ TreesUpToDate
    /\ TreesNumbered
    /\ ItemsHaveTrees
    /\ NoIntersectors
    /\ LookupsInStep
    /\ LinesDistinct
    /\ CachesCurrent
    /\ BuildsLocked
    /\ CountsAccesses

\* Looking up a tree ends, for a worker that waits for another one to build it too.
AccessReturns ==
    \A w \in Worker :
        pc[w] # "trace" ~> pc[w] = "trace" \/ phase \in {"lost", "failed"}

\* "assert(assembly_instance)" (assemblytree.cpp:483), "assert(object_instance)"
\* (triangletree.cpp:739): the scene still has what the trees refer to.  Not so: the user
\* may edit it in the project explorer while it is being rendered.
InstancesFound == phase # "lost"

\* What a caller has to do for them to hold: edit the scene between renderings only, and
\* no edit is half done when one begins.
EditsBetweenRenderings ==
    /\ [](phase # "idle" => changing = InvalidKey)
    /\ [][phase # "idle" => UNCHANGED <<placed, removed>>]_vars

\* Then a rendering finds the scene as the update has seen it.
SceneKept ==
    /\ phase # "lost"
    /\ placed \cap removed = {}
    /\ phase \in {"updating", "tracing"} =>
          /\ items \cup todo \subseteq placed
          /\ \A a \in items \ todo : stored[a] = version[a]
          /\ \A a \in Assembly : reading # 0 /\ NextToDo(a) => reading = version[a]
          /\ \A w \in Worker : pc[w] # "trace" => target[w] \in items

=============================================================================
