-------------------------- MODULE TextureViewPool --------------------------
(***************************************************************************)
(* The view cache of the render graph backend, TextureViewPool in          *)
(* include/render_graph/backend/texture_view_pool.hpp.                     *)
(*                                                                         *)
(* The pool is an eastl::unordered_map<Key, pair<view, frame>>.  Key has   *)
(* no operator== and no hash specialisation: both the map's hash and its   *)
(* equality go through the implicit conversion Key::operator size_t, so    *)
(* two keys are "equal" to the map exactly when their hashes are equal.    *)
(* The hash is the constant function Hash; an injective Hash is the        *)
(* collision-free case, a non-injective one a 64-bit collision.            *)
(*                                                                         *)
(* A key is abstracted to the texture it projects and one value of Subs    *)
(* standing for the other fields (format, usages, aspects, dims, mip and   *)
(* array ranges); the device is fixed by initialize().  Backend views are  *)
(* numbered in creation order: view v was created for createdFor[v].      *)
(***************************************************************************)
EXTENDS Naturals, Sequences, FiniteSets

CONSTANTS
    Textures,   \* physical textures (CGPUTextureId) the pool may see
    Subs,       \* the remaining key fields, abstracted
    Hash,       \* Key::operator size_t, a function from Keys
    InFlight,   \* RG_MAX_FRAME_IN_FLIGHT
    MaxFrame,   \* bound on the render graph frame index
    MaxViews,   \* bound on backend views created (cgpu_create_texture_view)
    NoResult    \* model value: no allocate() result in this step

VARIABLES
    views,       \* the map's entries: [key, view, frame]
    alive,       \* textures not yet destroyed
    createdFor,  \* createdFor[v]: the key view v was created for
    lastUse,     \* lastUse[v]: frame of the last allocate that returned v
    freed,       \* views released with cgpu_free_texture_view
    frame,       \* RenderGraph::frame_index
    result       \* what the last allocate returned, or NoResult

vars == <<views, alive, createdFor, lastUse, freed, frame, result>>

\* struct TextureViewPool::Key, without the device field.
Keys == [texture : Textures, sub : Subs]

Frames == 0..MaxFrame

ViewIds == 1..Len(createdFor)

\* mutant: an equality that compares only the texture field
KeyEqTextureOnly(a, b) == a.texture = b.texture

\* The map's key equality: Key converts to size_t on both sides of ==.
KeyEq(a, b) == Hash[a] = Hash[b]

\* mutant: a lookup that never matches the stored key (a hash computed
\* over bytes that differ between equal keys)
FindNothing(k) == {}

\* views.find(key): the entry the map considers equal to key, if any.
Find(k) == {e \in views : KeyEq(e.key, k)}

Cached(v) == \E e \in views : e.view = v

----------------------------------------------------------------------------
(* Mutants: plausible faults of the code, each breaking one property.     *)

\* a hit that returns the view without refreshing its timestamp
AllocateHitNoTouch(k) ==
    /\ k.texture \in alive
    /\ \E e \in Find(k) :
          /\ e.key.texture = k.texture
          /\ result' = [key |-> k, view |-> e.view]
          /\ lastUse' = [lastUse EXCEPT ![e.view] = frame]
    /\ UNCHANGED <<views, alive, createdFor, freed, frame>>

\* a miss that creates a view without recording its timestamp
AllocateMissNoStamp(k) ==
    /\ k.texture \in alive
    /\ ~\E e \in Find(k) : e.key.texture = k.texture
    /\ Len(createdFor) < MaxViews
    /\ LET v == Len(createdFor) + 1
           found == Find(k)
       IN  /\ views' = IF found = {}
                       THEN views \cup {[key |-> k, view |-> v, frame |-> frame]}
                       ELSE {IF e \in found THEN [e EXCEPT !.view = v, !.frame = frame]
                                            ELSE e : e \in views}
           /\ createdFor' = Append(createdFor, k)
           /\ result' = [key |-> k, view |-> v]
    /\ UNCHANGED <<alive, lastUse, freed, frame>>

\* an erase loop that stops after the first matching entry
EraseFirstOnly(t) ==
    /\ t \in alive
    /\ LET removed == {e \in views : e.key.texture = t}
           one == IF removed = {} THEN {} ELSE {CHOOSE e \in removed : TRUE}
       IN  /\ views' = views \ one
           /\ freed' = freed \cup {e.view : e \in one}
    /\ alive' = alive \ {t}
    /\ result' = NoResult
    /\ UNCHANGED <<createdFor, lastUse, frame>>

\* an erase loop that drops the texture test and frees every entry
EraseAll(t) ==
    /\ t \in alive
    /\ views' = {}
    /\ freed' = freed \cup {e.view : e \in views}
    /\ alive' = alive \ {t}
    /\ result' = NoResult
    /\ UNCHANGED <<createdFor, lastUse, frame>>

\* a finalize that clears the map without freeing the views
FinalizeNoFree ==
    /\ views' = {}
    /\ result' = NoResult
    /\ UNCHANGED <<alive, createdFor, lastUse, freed, frame>>

----------------------------------------------------------------------------

Init ==
    /\ views = {}
    /\ alive = Textures
    /\ createdFor = <<>>
    /\ lastUse = <<>>
    /\ freed = {}
    /\ frame = 0
    /\ result = NoResult

\* allocate(), found branch: the entry is equal to key and (the extra check
\* of the code) is for the same texture; refresh its frame and return it.
AllocateHit(k) ==
    /\ k.texture \in alive
    /\ \E e \in Find(k) :
          /\ e.key.texture = k.texture
          /\ views' = (views \ {e}) \cup {[e EXCEPT !.frame = frame]}
          /\ result' = [key |-> k, view |-> e.view]
          /\ lastUse' = [lastUse EXCEPT ![e.view] = frame]
    /\ UNCHANGED <<alive, createdFor, freed, frame>>

\* allocate(), else branch: create a backend view and store it with
\* views[key] = {new_view, frame}.  When an entry equal to key exists (same
\* hash, other texture) operator[] overwrites its value and keeps its key.
AllocateMiss(k) ==
    /\ k.texture \in alive
    /\ ~\E e \in Find(k) : e.key.texture = k.texture
    /\ Len(createdFor) < MaxViews
    /\ LET v == Len(createdFor) + 1
           found == Find(k)
       IN  /\ views' = IF found = {}
                       THEN views \cup {[key |-> k, view |-> v, frame |-> frame]}
                       ELSE {IF e \in found THEN [e EXCEPT !.view = v, !.frame = frame]
                                            ELSE e : e \in views}
           /\ createdFor' = Append(createdFor, k)
           /\ lastUse' = Append(lastUse, frame)
           /\ result' = [key |-> k, view |-> v]
    /\ UNCHANGED <<alive, freed, frame>>

Allocate(k) == AllocateHit(k) \/ AllocateMiss(k)

\* erase(texture), called when the texture is destroyed: free and remove
\* every entry whose key names the texture.
Erase(t) ==
    /\ t \in alive
    /\ LET removed == {e \in views : e.key.texture = t}
       IN  /\ views' = views \ removed
           /\ freed' = freed \cup {e.view : e \in removed}
    /\ alive' = alive \ {t}
    /\ result' = NoResult
    /\ UNCHANGED <<createdFor, lastUse, frame>>

\* finalize(): free every cached view and clear the map.
Finalize ==
    /\ freed' = freed \cup {e.view : e \in views}
    /\ views' = {}
    /\ result' = NoResult
    /\ UNCHANGED <<alive, createdFor, lastUse, frame>>

\* The backend creates a texture; its address may be one used before.
CreateTexture(t) ==
    /\ t \notin alive
    /\ alive' = alive \cup {t}
    /\ result' = NoResult
    /\ UNCHANGED <<views, createdFor, lastUse, freed, frame>>

\* collect_texture_garbage(critical_frame): release the entries last used
\* before critical_frame.  The caller keeps the frames in flight.
CollectGarbage(c) ==
    /\ c + InFlight <= frame + 1
    /\ LET old == {e \in views : e.frame < c}
       IN  /\ views' = views \ old
           /\ freed' = freed \cup {e.view : e \in old}
    /\ result' = NoResult
    /\ UNCHANGED <<alive, createdFor, lastUse, frame>>

\* execute() advances the frame counter once.
AdvanceFrame ==
    /\ frame < MaxFrame
    /\ frame' = frame + 1
    /\ result' = NoResult
    /\ UNCHANGED <<views, alive, createdFor, lastUse, freed>>

Next ==
    \/ \E k \in Keys : Allocate(k)
    \/ \E t \in Textures : Erase(t) \/ CreateTexture(t)
    \/ Finalize
    \/ \E c \in Frames : CollectGarbage(c)
    \/ AdvanceFrame

Spec == Init /\ [][Next]_vars

----------------------------------------------------------------------------
(* Properties                                                              *)

TypeOK ==
    /\ views \subseteq [key : Keys, view : 1..MaxViews, frame : Frames]
    /\ alive \subseteq Textures
    /\ createdFor \in Seq(Keys) /\ Len(createdFor) <= MaxViews
    /\ lastUse \in [ViewIds -> Frames]
    /\ freed \subseteq ViewIds
    /\ frame \in Frames
    /\ result \in {NoResult} \cup [key : Keys, view : ViewIds]

\* allocate() returns a view of exactly the requested key: a request that
\* differs from a cached one in any field (here: texture or sub-range)
\* never gets the cached view.
ViewMatchesKey ==
    result # NoResult => createdFor[result.view] = result.key

\* erase() on texture destruction leaves no cached view of that texture:
\* every cached view was created for a texture that is still alive.
NoDanglingView ==
    \A e \in views : createdFor[e.view].texture \in alive

\* Every backend view allocate() created is either still cached or freed,
\* never both: the map never drops a view without cgpu_free_texture_view.
ViewsAccounted ==
    \A v \in ViewIds : Cached(v) # (v \in freed)

\* A request for a key that has a cached view returns that view rather
\* than creating a second one (key-cache idempotence).
ReuseCachedView ==
    [][\A e \in views :
         (result' # NoResult /\ result'.key = e.key /\ e.key.texture \in alive)
            => result'.view = e.view]_vars

\* Garbage collection never frees a view returned within the frames that
\* may still be in flight; this depends on allocate() refreshing the
\* entry's frame on every hit.
GCSparesInFlight ==
    [][\A c \in Frames :
         CollectGarbage(c) => \A v \in freed' \ freed : lastUse[v] + InFlight <= frame]_vars

----------------------------------------------------------------------------
(* Refinement of the abstract view cache                                   *)

\* The map seen as a function of its keys: with an injective hash no two
\* entries share a key.
KeyMap == [k \in {e.key : e \in views} |->
              LET e == CHOOSE x \in views : x.key = k
              IN  [view |-> e.view, frame |-> e.frame]]

ViewCacheAbs == INSTANCE ViewCache WITH cache <- KeyMap, created <- Len(createdFor)

\* The pool implements the cache of spec.md 4.5: every allocate, erase,
\* finalize and garbage collection of the hash map is a step of the
\* key-indexed cache, so the map drops, keeps and returns exactly the
\* entries the structural key says it should.
ImplementsViewCache == ViewCacheAbs!Spec

=============================================================================
