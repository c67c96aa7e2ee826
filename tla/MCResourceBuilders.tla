------------------------ MODULE MCResourceBuilders ------------------------
EXTENDS ResourceBuilders, TLC

CONSTANTS b1, t1, p1, p2, rs1, rs2, rt1, rt2, sc1, n1

MCPipelines == {p1, p2}
MCRootSignatures == {rs1, rs2}
MCRootOf == (p1 :> rs1) @@ (p2 :> rs2)

MCPhysBuffers == {b1}
MCPhysTextures == {t1}
MCMemoryUsages == {"gpu_only", "cpu_to_gpu"}
=============================================================================
