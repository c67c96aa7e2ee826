------------------------ MODULE MCTextureViewPool ------------------------
(* Model-checking instance of TextureViewPool: two textures, two sub-     *)
(* ranges, and two choices of Key::operator size_t.                       *)
EXTENDS TextureViewPool

CONSTANTS t1, t2, s1, s2

MCTextures == {t1, t2}
MCSubs == {s1, s2}

\* no collision: the hash of a key is the pair of its fields
HashInjective == [k \in Keys |-> <<k.texture, k.sub>>]

\* two sub-ranges of t1 collide (same texture, different mip range)
HashCollideSub ==
    [k \in Keys |-> IF k.texture = t1 THEN <<t1, s1>> ELSE <<k.texture, k.sub>>]

=============================================================================
