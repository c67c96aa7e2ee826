# TLA+ models of the Sakura.Runtime render graph and Vulkan backend

This directory holds TLA+ models of the parts of `src/` that have state
worth model checking. It also holds the TLC configurations that check them.
`PROJECT.json` lists:

- every component and whether it is modelled;
- every run and what it checks;
- the mutants that show each property can fail;
- the source lines each definition translates;
- the findings;
- the hazards of the code.

## The system and how its parts interact

- **Render graph frontend** (`include/render_graph/frontend/render_graph.hpp`,
  `src/gpu/render_graph/graph_builders.cpp`).
  - A frame is built by calling `add_render_pass`, `add_compute_pass`,
    `add_copy_pass`, `add_present_pass`, `create_texture` and `create_buffer`.
  - Each call creates a node with the next ordinal (`passes.size()` or
    `resources.size()`) and inserts it into the dependency graph.
  - Each call then runs the caller's *setup callback* synchronously, with a
    builder.
  - The builder's access methods `link` pass and resource nodes with an edge
    that carries the requested resource state. Its `set_name` registers the
    node in the *blackboard* (name to handle, last writer wins).
  - `compile()` culls the nodes no present pass depends on.
  - `execute()` runs the live passes and increments `frame_index`.
  - The dependency graph, the blackboard, `compile()` and `execute()` are
    declared under `src/` but implemented outside it. They are modelled from
    `spec.md` (sections 4.2–4.4 and 5).
- **Texture view pool** (`include/render_graph/backend/texture_view_pool.hpp`).
  - This is the backend's cache of texture views, keyed by texture and view
    description.
  - The executor calls `allocate` for every texture a pass binds.
  - `erase` is called when a texture is destroyed, `collect_garbage` once per
    frame, and `finalize` at teardown.
- **Resource builders** (`BufferBuilder`, `TextureBuilder` in
  `graph_builders.cpp`).
  - `create_buffer`/`create_texture` construct the node, construct a
    builder over it, and run the setup callback with it.
  - The builder's methods resolve the node's descriptor: capability and
    flag words are OR'd into, the other fields (memory usage, start state,
    device preference, sizes, extent, format) are assigned, and `import`
    copies the physical resource's properties.
- **Vulkan utilities** (`src/gpu/cgpu/vulkan/vulkan_utils.c`).
  - `VkUtil_QueryAllAdapters` runs once per instance. For every physical
    device it fills one calloc'd adapter: format support, layer and
    extension selection, queue families (after resetting the indices to
    -1) and the adapter detail with the host-visible VRAM query.
  - Shader reflection turns a SPIR-V Reflect module into one
    `CGPUShaderReflection` per entry point, with a resource table holding
    every descriptor binding and push-constant block.
    `VkUtil_FreeShaderReflection` releases it.
  - The descriptor pool is shared by every thread that creates descriptor
    sets. Its mutex exists only when `CGPU_THREAD_SAFETY` is defined.

## Modules

| Module | Models | State | Actions |
|---|---|---|---|
| `TextureViewPool` | `TextureViewPool` | `views` (the map's entries as `[key, view, frame]`), `alive` textures, `createdFor`/`lastUse` per backend view, `freed`, `frame`, `result` | `AllocateHit`, `AllocateMiss` (the two branches of `allocate`), `Erase`, `Finalize`; from the spec: `CreateTexture`, `CollectGarbage`, `AdvanceFrame` |
| `RenderGraph` | frontend builders, blackboard, `compile`, `execute` | `passes`, `resources`, `edges` (linked), `declared` (what setup callbacks asked for), `blackboard`, `phase`, `live`, `executed`, `frame_index` | `AddRenderPass`/`AddComputePass`/`AddCopyPass`/`AddPresentPass` (each with its whole setup callback), `CreateTexture`, `CreateBuffer`, `Compile`, `Execute` |
| `ViewCache` | what the view cache promises (spec §4.5), over structural keys | `cache` (key to view and frame), `alive`, `created`, `frame`, `result` | `Allocate`, `Erase`, `Finalize`, `CreateTexture`, `CollectGarbage`, `AdvanceFrame` |
| `ResourceBuilders` | `BufferBuilder`/`TextureBuilder` methods, `create_buffer`/`create_texture` | `last`: one setup callback (a sequence of calls) and the node it resolved, or one population's `set_name` calls and the lookups after them | `CreateBuffer`, `CreateTexture`, `AddRenderPass`, `AddComputePass`, `AddPresentPass`, `SetNames`; one operator per buffer/texture builder method |
| `PassBuilders` | pass builders' descriptor methods; every `set_name`; `get_texture`/`get_buffer` | none (operators on a pass node record and on the blackboard's three tables) | `RenderWrite`, `SetDepthStencil`, `SetPipeline`/`ComputeSetPipeline`, `SetRootSignature`/`ComputeSetRootSignature`, `Swapchain`; the six builders' `*SetName`, `get_texture`, `get_buffer` |
| `VkShaderReflection` | `VkUtil_InitializeShaderReflection`, `VkUtil_FreeShaderReflection` | none (pure operators) | `FillSets`/`FillBindings` (RECURSIVE, the nested loops with `i_res`), `FillPushConstants`, `ResourceCount` (bcount), `VkUtil_FreeShaderReflection` (the pointers freed, in order) |
| `VkAdapterQuery` | selection loops, `VkUtil_SelectQueueIndices`, `VkUtil_QueryHostVisbleVramInfo`, `VkUtil_EnumFormatSupports`, `VkUtil_RecordAdapterDetail`, `VkUtil_QueryAllAdapters`, shader reflection | `last`: one query, its inputs and result | one action per query, over all bounded inputs: `SelectLayersOrExtensions`, `SelectQueues`, `QueryVram`, `ReflectShader` (initialise, then free), `QueryAdapters` |
| `VkDescriptorPool` | `VkUtil_CreateDescriptorPool`, `Consume`/`ReturnDescriptorSets`, `FreeDescriptorPool` | `pool`, mutex `holder`, per-thread `pc`, `want`, `held`, `allocated` | entry, `AcquireMutex`, `AllocateSets`/`FreeSets` (the Vulkan call), `ReleaseMutex` |

### Correspondence notes

- **TextureViewPool: key equality is the hash.**
  - `Key` has neither `operator==` nor a `hash` specialisation. Both go
    through the implicit `operator size_t`, so the map's equality is
    `KeyEq(a,b) == Hash[a] = Hash[b]`.
  - `Hash` is a constant. The main run uses an injective hash. The collision
    run uses a hash that merges two keys of one texture.
  - A key is abstracted to a texture plus one value (`Subs`) that stands for
    all the other fields.
- **RenderGraph: setup callbacks.**
  - A setup callback is a set of at most `MaxCalls` builder calls, with at
    most one `set_name`. Its handles name existing resources of the right
    kind.
  - `CallEdges` gives the edges each call links, which is what the code does.
  - `CallDeclares` is a ghost record, not a translation of code: what the
    caller asked for by the method it called. The buffer `read`/`write`
    overloads link nothing, and `readwrite(TextureUAVHandle)` links only pass
    to texture. Keeping *linked* and *declared* apart lets properties compare
    the two.
  - Descriptor-only calls (formats, extents, load/store actions, pipelines,
    `import`) do not affect the graph and are left out.
- **RenderGraph: compile and execute.**
  - `CullWalk` is a worklist backward walk from the present passes.
  - Culling and execution order are modelled from the specification, so
    no property checks them against a second walk over the same edges;
    the runs check them against what the callbacks *declared*.
  - The spec also lists externally observed resources as roots. The code has
    no such marker, so only present passes are roots.
- **TextureViewPool refines ViewCache.**
  - `KeyMap` maps the pool's entries to a function from key to
    `[view, frame]`. `created` maps to the number of backend views created.
  - `ImplementsViewCache` checks `ViewCache!Spec` as a property of the main
    run: every step of the pool is a step of the abstract cache, or a
    stutter. It holds only with an injective hash; with a colliding one the
    pool's `find` already breaks `ViewMatchesKey`.
- **ResourceBuilders: descriptor words.**
  - A flag word is a set of flag names, and `|=` is `\cup`.
  - A physical resource is a model value whose properties (`BufferProps`,
    `TextureProps`) are fixed.
  - `structured` stands for its three fields, and `extent` for width,
    height and depth. `set_name` is left to `RenderGraph`.
  - A callback runs once per behaviour. The builder is discarded when the
    callback returns, so the run disables deadlock checking.
- **PassBuilders: pass descriptors and the blackboard.**
  - A render pass node is its render-target edges (`TextureRenderEdge`'s
    mrt index and texture), the `load_actions`/`store_actions` arrays over
    `0..CGPU_MAX_MRT_COUNT-1`, the depth/stencil actions, the pipeline and
    the root signature. Linking into the graph is `RenderGraph`'s.
  - A field no method set holds `Unset`: the node's initialiser is not
    under `src/`.
  - `set_pipeline` takes the root signature from `RootOf[pipeline]`
    (`pipeline->root_signature`).
  - The blackboard is three tables from names to node handles; the null
    name is a key of its own (`NullName`), which only the texture and
    buffer builders register. `get_texture`/`get_buffer` return
    `InvalidHandle` (UINT64_MAX) for a name never registered. In the
    harness the i-th `set_name` call belongs to node i.
- **VkShaderReflection: the resource table.**
  - The SPIR-V module is abstracted to its entry count, stage, input count,
    descriptor sets (sequences of descriptor types) and push-constant sizes.
  - Set and binding numbers are enumeration positions.
  - A calloc'd array is a function on `0..n-1`. A write outside it sets
    `oob` instead of being performed.
  - `ExpectedResources` is the reference table, built with `FlattenSeq`.
- **VkAdapterQuery: name selection.**
  - The four selection loops share `SelectNames`. It takes the inner loop
    (`MatchBreak` or `MatchContinue`) as a parameter, exactly as the code
    differs between them.
  - Driver lists have no repeated names. Caller lists may repeat names.
- **VkAdapterQuery: adapter enumeration.**
  - `VkUtil_SelectQueueIndices` takes the adapter's current indices. In
    `VkUtil_QueryAllAdapters` they are the calloc'd zeros
    (`CallocQueueIndices`) after the -1 loop (`ResetQueueIndices`).
  - A physical device is its queue families, device type, reported
    layer/extension list, memory layout and format table.
  - `VkUtil_FormatTranslateToVk` is not under `src/`, so the translation
    is the constant `VkFormatOf`.
  - Vendor strings, alignments and limits are copies and are left out.
- **VkShaderReflection: allocations and frees.**
  - An entry's `vertex_inputs` and `shader_resources` pointers are
    "allocated" or "null", following the conditions of their `cgpu_calloc`.
    A `calloc(0)` that returns non-null is freed like any other pointer.
  - `VkUtil_FreeShaderReflection` is the sequence of pointers freed. It is
    compared with `ReflectionAllocations`.

## Runs

| Run | Expect | What it shows |
|---|---|---|
| `tvp_main` | pass | With a collision-free hash the cache returns the right view, leaks none, leaves none of a destroyed texture, reuses a cached view, and GC never frees a view used in a frame still in flight (which relies on `allocate` refreshing the timestamp on a hit). The pool implements the abstract `ViewCache` |
| `tvp_collide_sub` | violation | Two keys of one texture with colliding hashes: `allocate` returns the other key's view |
| `rg_main` | pass | Every population of up to three passes and two resources builds, compiles and executes with well-typed nodes and edges (`TypeOK`); it fires every action and is the base the three `rg_*` violation runs vary. It does not claim that passes run after their producers: `rg_ordinal_order` shows they may not |
| `rg_buffer_noop` | violation | Buffer `read`/`write` on render/compute passes link nothing: a buffer producer is culled while its consumer runs |
| `rg_readwrite_link` | violation | `readwrite(TextureUAVHandle)` links one way: the earlier writer of the texture is culled |
| `rg_ordinal_order` | violation | Ascending-ordinal execution runs a reader before a later-declared writer; the spec says both |
| `vk_query_main` | pass | Selections fit their calloc'd arrays; the three `break` loops enable exactly requested ∩ offered; queue indices are valid and maximal for the else-if chain; shader reflection writes every binding and push constant inside the table, in enumeration order, and its release frees each allocation exactly once; every adapter `VkUtil_QueryAllAdapters` fills has valid, maximal queue indices |
| `vk_device_ext_dup` | violation | `continue` in `VkUtil_SelectPhysicalDeviceExtensions` enables a twice-requested extension twice |
| `vk_vram_fallback` | violation | The extra `break` in the fallback branch misses host-visible VRAM behind a non-host-visible type |
| `pool_main` | pass | With `CGPU_THREAD_SAFETY`, Vulkan calls on the pool are serialised and the mutex is always released, also after an allocation that failed for lack of capacity |
| `rb_main` | pass | Every callback of up to three builder calls ORs together the capabilities and flags its calls request, a buffer `import` replacing the capabilities requested before it (`DescriptorFlagsMerged`); each written colour slot has an edge at its index and the actions of its last `write`, the depth slot an edge exactly when `set_depth_stencil` was called (`RenderTargetsResolved`); the root signature follows the later of `set_pipeline` and `set_root_signature` (`PipelineLayoutResolved`); lookups return the last builder to take a name, the four pass builders sharing one table (`BlackboardLookupLastRegistered`) |
| `rb_prefer_host` | violation | `prefer_on_host()` sets `prefer_on_device = true`: a buffer can never prefer host memory |

## Bounds

- **TextureViewPool.**
  - Two textures and two sub-values give four keys.
  - `MaxViews = 4` lets every key get a view and lets the hits, overwrites
    and re-creations after an erase happen.
  - `MaxFrame = 3` with `InFlight = 2` is the smallest setting in which GC
    can free something while a frame is still in flight.
- **RenderGraph.**
  - Three passes and two resources are the smallest graph in which a chain
    of producer, consumer and present pass exists next to a pass that is
    culled.
  - `MaxCalls = 2` allows a pass to read one resource and write another.
  - The constraint `ResourcesFirst` creates the resources before the passes,
    with the first one a texture. The resulting graphs are the same up to
    the numbering of the resources.
  - Names are empty in the main run because no property reads the
    blackboard.
- **VkAdapterQuery.**
  - Two names, lists of up to two entries, up to three queue families, and
    two memory types over two heaps.
  - Every input in these sets is checked exhaustively.
  - Enumeration: every list of up to two physical devices. Each has up to
    two queue families of any capabilities, is a discrete GPU or a CPU,
    and uses one memory layout and one driver format table. Three formats
    are used, one with no Vulkan equivalent. There are two caller request
    lists. Two families are enough for the calloc'd 0 to be a wrong answer
    (a role offered only by family 1, or by none).
- **ResourceBuilders.**
  - Every sequence of up to three calls, over one physical buffer, one
    physical texture, one size and two memory usages: 4066 callbacks.
  - Three calls are enough for a capability before and after an import, and
    for two preference calls in either order.
  - Pass callbacks: two colour slots (`MaxMRT = 2`), two render-target
    textures (so one slot can be written with two textures), two load and two store actions, two pipelines with distinct
    root signatures and two root signatures: enough to write a slot twice,
    to write both slots and the depth slot, and to set a signature before
    and after a pipeline.
  - `set_name` populations: every sequence of up to three calls over the
    six builders and one name or the null name, so a name can be taken by
    two builders of one kind or of different kinds.
  - 28817 states in all.
- **VkShaderReflection (in VkAdapterQuery).**
  - Modules of one or two entries, up to two sets of up to two bindings of
    two descriptor types, and up to one push-constant block. This covers
    empty sets, push constants alone, and push constants after two sets.
- **VkDescriptorPool.**
  - Two threads, `maxSets = 3`, and requests of 1 or 2 sets.
  - With these values both threads can hold sets at once and an allocation
    can fail for lack of capacity.

## Fairness

- Only `VkDescriptorPool` checks liveness. It assumes weak fairness for each
  thread's steps inside a call (acquire, Vulkan call, release): a thread
  that has entered a function keeps being scheduled, which the OS
  scheduler provides.
- Entering a call is not fair, because callers may stop calling.
- `FreeDescriptorPool` is not fair either.

## Not modelled

- VMA setup, the pipeline cache, the instance environment and the debug
  callbacks. They are pure I/O to the loader.
- Shader-reflection names, name hashes, vertex formats and texture
  dimensions. The `RTLut` overflow for
  acceleration structures and the dimension bit-test are listed as hazards.
- The build without `CGPU_THREAD_SAFETY`. The model can run it
  (`ThreadSafety = FALSE`), but no run checks it, because the unguarded
  pool is visible in the `#ifdef` itself.
- Which of two conflicting assigned builder fields should win (e.g.
  `as_upload_buffer` then `as_vertex_buffer`). The spec does not say, so
  this is listed as a hazard with no property.
- Platform and tools headers.
- `RenderGraphBuilder`'s setters (`with_device`, `enable_memory_aliasing`,
  `with_gfx_queue`, `backend_api`, `frontend_only`): they store values that
  nothing modelled reads.
- `write()` with an `mrt_index` of `CGPU_MAX_MRT_COUNT` or more: an
  out-of-bounds write with no defined outcome to state.
- Hazards without a property, and why: the `TextureViewPool` race needs
  the executors that call it concurrently, which are not under `src/`; the
  `RTLut` overflow and the dimension bit-test depend on enum values
  defined outside `src/`; for the rest (import dropping earlier
  capabilities, per-entry shader tables, unassigned queue roles, two
  textures in one colour slot, descriptor-pool exhaustion) the model
  reaches the behaviour but neither the specification nor a comment says
  what it should be, so the properties pin the code's behaviour without
  judging it. The GC frame underflow, `FreeDescriptorPool` during a call
  and a second `FreePipelineCache` need callers that are not under `src/`
  and are not listed as hazards of this code.
- Barrier resolution, memory aliasing and graph export from spec §4.3. Their
  code is not under `src/`.
- Concurrency of `TextureViewPool::allocate` is listed as a hazard but not
  yet modelled: the model runs `allocate` atomically.
- `RenderGraph` and `TextureViewPool` are not yet composed.
- The overwrite branch of `TextureViewPool::allocate` (a key colliding with
  another texture's entry, `texture_view_pool.hpp:102`) is modelled but no
  run reaches it: `tvp_main` needs the collision-free hash for the
  refinement, and `tvp_collide_sub` collides keys of one texture only.
