----------------------------- MODULE ViewCache -----------------------------
(***************************************************************************)
(* What the texture view cache promises (spec.md section 4.5), stated over *)
(* structural keys: a partial function from keys to the cached view and    *)
(* the frame it was last used in.                                          *)
(*                                                                         *)
(*  - allocate(k) returns the view cached for k and stamps it with the     *)
(*    current frame, or creates a fresh view and caches it for k;          *)
(*  - erase(t) drops exactly the keys of texture t;                        *)
(*  - collecting garbage drops exactly the entries last used before the    *)
(*    critical frame; finalize drops everything.                           *)
(*                                                                         *)
(* TextureViewPool implements this specification when its key hash is      *)
(* injective (TextureViewPool!ImplementsViewCache).                        *)
(***************************************************************************)
EXTENDS Naturals

CONSTANTS Textures, Subs, InFlight, MaxFrame, MaxViews, NoResult

VARIABLES
    cache,    \* [key -> [view, frame]] on the keys that have a view
    alive,    \* textures not yet destroyed
    created,  \* views created so far; views are numbered 1..created
    frame,    \* the render graph frame index
    result    \* what the last allocate returned, or NoResult

avars == <<cache, alive, created, frame, result>>

Keys == [texture : Textures, sub : Subs]

\* cache restricted to the keys satisfying P.
Keep(P(_)) == [k \in {x \in DOMAIN cache : P(x)} |-> cache[k]]

Init ==
    /\ cache = [k \in {} |-> 0]
    /\ alive = Textures
    /\ created = 0
    /\ frame = 0
    /\ result = NoResult

Allocate(k) ==
    /\ k.texture \in alive
    /\ IF k \in DOMAIN cache
       THEN /\ cache' = [cache EXCEPT ![k].frame = frame]
            /\ result' = [key |-> k, view |-> cache[k].view]
            /\ UNCHANGED created
       ELSE /\ created < MaxViews
            /\ created' = created + 1
            /\ cache' = [x \in DOMAIN cache \cup {k} |->
                            IF x = k THEN [view |-> created + 1, frame |-> frame]
                                     ELSE cache[x]]
            /\ result' = [key |-> k, view |-> created + 1]
    /\ UNCHANGED <<alive, frame>>

Erase(t) ==
    /\ t \in alive
    /\ cache' = Keep(LAMBDA k : k.texture # t)
    /\ alive' = alive \ {t}
    /\ result' = NoResult
    /\ UNCHANGED <<created, frame>>

Finalize ==
    /\ cache' = [k \in {} |-> 0]
    /\ result' = NoResult
    /\ UNCHANGED <<alive, created, frame>>

CreateTexture(t) ==
    /\ t \notin alive
    /\ alive' = alive \cup {t}
    /\ result' = NoResult
    /\ UNCHANGED <<cache, created, frame>>

CollectGarbage(c) ==
    /\ c + InFlight <= frame + 1
    /\ cache' = Keep(LAMBDA k : cache[k].frame >= c)
    /\ result' = NoResult
    /\ UNCHANGED <<alive, created, frame>>

AdvanceFrame ==
    /\ frame < MaxFrame
    /\ frame' = frame + 1
    /\ result' = NoResult
    /\ UNCHANGED <<cache, alive, created>>

Next ==
    \/ \E k \in Keys : Allocate(k)
    \/ \E t \in Textures : Erase(t) \/ CreateTexture(t)
    \/ Finalize
    \/ \E c \in 0..MaxFrame : CollectGarbage(c)
    \/ AdvanceFrame

Spec == Init /\ [][Next]_avars

=============================================================================
