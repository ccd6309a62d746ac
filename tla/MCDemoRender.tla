---------------------------- MODULE MCDemoRender ----------------------------
(* A small instance of the demo's WASM module: payloads at both ends of the *)
(* envelope and meshes on both sides of the structural limits.              *)
EXTENDS DemoRender

Wall == [normal |-> <<1, 0, 0>>, vertex |-> <<2, 0, 0>>]
Back == [normal |-> <<-1, 0, 0>>, vertex |-> <<2, 1, 0>>]
Floor == [normal |-> <<0, 0, 1>>, vertex |-> <<0, 0, 0>>]
Slope == [normal |-> <<0, 1, 1>>, vertex |-> <<0, 1, 0>>]
Flat == [normal |-> <<0, 0, 0>>, vertex |-> <<0, 0, 0>>]

SmallMesh == [triangles |-> 8, vertices |-> 300, faces |-> {Wall, Back, Floor, Flat}]
WideMesh == [triangles |-> 12, vertices |-> 511, faces |-> {Wall, Floor, Slope}]
DenseMesh == [triangles |-> 30, vertices |-> 90, faces |-> {Wall, Floor}]
MCMeshes == {SmallMesh, WideMesh, DenseMesh}

MCRooms == {[kind |-> "shoebox", width |-> 0, mesh |-> NoMesh],
            [kind |-> "mesh", width |-> 30, mesh |-> SmallMesh],
            [kind |-> "mesh", width |-> 30, mesh |-> DenseMesh]}

MCTexts == BuiltinMaterials \cup {"west", "curtain", "nowhere", "shoebox", "mesh",
                                 "", "early", "late", "hybrid", "other"}

NoPayload == [f \in {} |-> 0]
Largest == [rays |-> 99999, order |-> 40, duration |-> 999, crossover |-> 999, kind |-> "shoebox"]
Smallest == [rays |-> 1, order |-> 1, duration |-> 1, crossover |-> 1, mode |-> "late"]
Portal == [portal |-> TRUE, rays |-> 99999, order |-> 40, duration |-> 999, receiverWidth |-> 0]
\* Receiver rooms the envelope does not know: thinner than the margin, and beyond 50 m.
Slit == [portal |-> TRUE, receiverWidth |-> 1]
Hall == [portal |-> TRUE, receiverWidth |-> 900]
Unknown == [mode |-> "other", west |-> "nowhere"]
MCPayloads == {NoPayload, Largest, Smallest, Portal, Slit, Hall, Unknown,
               [mode |-> "early", kind |-> "mesh", mesh |-> WideMesh],
               [portal |-> FALSE, west |-> "nowhere", rays |-> 0, mode |-> ""]}
=============================================================================
