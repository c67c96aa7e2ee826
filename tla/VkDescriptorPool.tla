-------------------------- MODULE VkDescriptorPool --------------------------
(***************************************************************************)
(* The descriptor pool of the Vulkan backend (VkUtil_DescriptorPool in     *)
(* src/gpu/cgpu/vulkan/vulkan_utils.c) shared by the threads that create   *)
(* and destroy descriptor sets.  VkUtil_ConsumeDescriptorSets and          *)
(* VkUtil_ReturnDescriptorSets take the pool's mutex only when the build   *)
(* defines CGPU_THREAD_SAFETY (the constant ThreadSafety).                 *)
(*                                                                         *)
(* Each call is split at the points another thread can interleave:         *)
(* acquiring the mutex, the Vulkan call on the pool, releasing the mutex.  *)
(* The Vulkan pool is abstracted to the number of sets allocated from it,  *)
(* maxSets to MaxSets.                                                     *)
(***************************************************************************)
EXTENDS Naturals

CONSTANTS
    Threads,       \* threads calling into the pool
    ThreadSafety,  \* CGPU_THREAD_SAFETY is defined
    MaxSets,       \* VkDescriptorPoolCreateInfo::maxSets
    SetCounts,     \* numDescriptorSets a caller passes
    NoThread       \* model value: the mutex is free

VARIABLES
    pool,     \* "none", "live", "destroyed"
    holder,   \* the thread holding pPool->pMutex, or NoThread
    pc,       \* pc[t]: where thread t is in a call
    want,     \* want[t]: numDescriptorSets of t's current consume call
    held,     \* held[t]: sets t obtained from the pool and has not returned
    allocated \* sets allocated from the Vulkan pool

vars == <<pool, holder, pc, want, held, allocated>>

PCs == {"idle", "consume_lock", "consume_vk", "consume_unlock",
        "return_lock", "return_vk", "return_unlock"}

\* The states in which a thread is inside a Vulkan call on the pool.
InVkCall == {"consume_vk", "return_vk"}

Init ==
    /\ pool = "none"
    /\ holder = NoThread
    /\ pc = [t \in Threads |-> "idle"]
    /\ want = [t \in Threads |-> 0]
    /\ held = [t \in Threads |-> 0]
    /\ allocated = 0

\* VkUtil_CreateDescriptorPool: calloc, the mutex when thread safe, then
\* vkCreateDescriptorPool with maxSets.
VkUtil_CreateDescriptorPool ==
    /\ pool = "none"
    /\ pool' = "live"
    /\ UNCHANGED <<holder, pc, want, held, allocated>>

\* A thread enters VkUtil_ConsumeDescriptorSets(pool, layouts, sets, n).
ConsumeDescriptorSets(t, n) ==
    /\ pool = "live" /\ pc[t] = "idle" /\ held[t] = 0
    /\ pc' = [pc EXCEPT ![t] = "consume_lock"]
    /\ want' = [want EXCEPT ![t] = n]
    /\ UNCHANGED <<pool, holder, held, allocated>>

\* A thread enters VkUtil_ReturnDescriptorSets with the sets it holds.
ReturnDescriptorSets(t) ==
    /\ pool = "live" /\ pc[t] = "idle" /\ held[t] > 0
    /\ pc' = [pc EXCEPT ![t] = "return_lock"]
    /\ UNCHANGED <<pool, holder, want, held, allocated>>

\* mutant: the mutex taken without waiting for its holder
AcquireMutexNoWait(t) ==
    /\ pc[t] \in {"consume_lock", "return_lock"}
    /\ holder' = IF ThreadSafety THEN t ELSE holder
    /\ pc' = [pc EXCEPT ![t] = IF pc[t] = "consume_lock" THEN "consume_vk" ELSE "return_vk"]
    /\ UNCHANGED <<pool, want, held, allocated>>

\* #ifdef CGPU_THREAD_SAFETY skr_acquire_mutex(pPool->pMutex) #endif
AcquireMutex(t) ==
    /\ pc[t] \in {"consume_lock", "return_lock"}
    /\ IF ThreadSafety THEN holder = NoThread /\ holder' = t ELSE UNCHANGED holder
    /\ pc' = [pc EXCEPT ![t] = IF pc[t] = "consume_lock" THEN "consume_vk" ELSE "return_vk"]
    /\ UNCHANGED <<pool, want, held, allocated>>

\* mutant: leaving the function on failure without releasing the mutex
AllocateSetsEarlyReturn(t) ==
    /\ pc[t] = "consume_vk"
    /\ IF allocated + want[t] <= MaxSets
       THEN /\ allocated' = allocated + want[t]
            /\ held' = [held EXCEPT ![t] = want[t]]
            /\ pc' = [pc EXCEPT ![t] = "consume_unlock"]
       ELSE /\ pc' = [pc EXCEPT ![t] = "idle"]
            /\ UNCHANGED <<allocated, held>>
    /\ UNCHANGED <<pool, holder, want>>

\* mutant: an allocation that does not check the pool's capacity
AllocateSetsUnbounded(t) ==
    /\ pc[t] = "consume_vk"
    /\ allocated' = allocated + want[t]
    /\ held' = [held EXCEPT ![t] = want[t]]
    /\ pc' = [pc EXCEPT ![t] = "consume_unlock"]
    /\ UNCHANGED <<pool, holder, want>>

\* vkAllocateDescriptorSets: fails when the pool cannot hold the sets;
\* the failure only reaches cgpu_assert (no pool expansion), and the call
\* goes on to release the mutex with the caller's sets unwritten.
AllocateSets(t) ==
    /\ pc[t] = "consume_vk"
    /\ IF allocated + want[t] <= MaxSets
       THEN /\ allocated' = allocated + want[t]
            /\ held' = [held EXCEPT ![t] = want[t]]
       ELSE UNCHANGED <<allocated, held>>
    /\ pc' = [pc EXCEPT ![t] = "consume_unlock"]
    /\ UNCHANGED <<pool, holder, want>>

\* vkFreeDescriptorSets (the pool has FREE_DESCRIPTOR_SET_BIT).
FreeSets(t) ==
    /\ pc[t] = "return_vk"
    /\ allocated' = allocated - held[t]
    /\ held' = [held EXCEPT ![t] = 0]
    /\ pc' = [pc EXCEPT ![t] = "return_unlock"]
    /\ UNCHANGED <<pool, holder, want>>

\* #ifdef CGPU_THREAD_SAFETY skr_release_mutex(pPool->pMutex) #endif
ReleaseMutex(t) ==
    /\ pc[t] \in {"consume_unlock", "return_unlock"}
    /\ holder' = IF ThreadSafety THEN NoThread ELSE holder
    /\ pc' = [pc EXCEPT ![t] = "idle"]
    /\ UNCHANGED <<pool, want, held, allocated>>

\* VkUtil_FreeDescriptorPool at device teardown, once no call is running:
\* vkDestroyDescriptorPool frees every set, then the mutex is destroyed.
VkUtil_FreeDescriptorPool ==
    /\ pool = "live"
    /\ \A t \in Threads : pc[t] = "idle"
    /\ pool' = "destroyed"
    /\ held' = [t \in Threads |-> 0]
    /\ allocated' = 0
    /\ UNCHANGED <<holder, pc, want>>

Next ==
    \/ VkUtil_CreateDescriptorPool
    \/ \E t \in Threads :
          \/ \E n \in SetCounts : ConsumeDescriptorSets(t, n)
          \/ ReturnDescriptorSets(t)
          \/ AcquireMutex(t)
          \/ AllocateSets(t)
          \/ FreeSets(t)
          \/ ReleaseMutex(t)
    \/ VkUtil_FreeDescriptorPool

\* Each thread that has entered a call keeps being scheduled.
Fairness == \A t \in Threads :
    WF_vars(AcquireMutex(t) \/ AllocateSets(t) \/ FreeSets(t) \/ ReleaseMutex(t))

Spec == Init /\ [][Next]_vars /\ Fairness

----------------------------------------------------------------------------
(* Properties                                                              *)

TypeOK ==
    /\ pool \in {"none", "live", "destroyed"}
    /\ holder \in Threads \cup {NoThread}
    /\ pc \in [Threads -> PCs]
    /\ want \in [Threads -> {0} \cup SetCounts]
    /\ held \in [Threads -> 0..MaxSets]
    /\ allocated \in 0..MaxSets

\* Vulkan requires host access to a descriptor pool to be externally
\* synchronized: no two threads are ever inside vkAllocateDescriptorSets /
\* vkFreeDescriptorSets on the pool at the same time.
PoolCallsSerialized ==
    \A t1, t2 \in Threads : t1 # t2 /\ pc[t1] \in InVkCall => pc[t2] \notin InVkCall

\* A thread that takes the pool's mutex releases it again: a failed
\* allocation does not leave the pool locked for every other thread.
MutexReleased ==
    \A t \in Threads : (holder = t) ~> (holder # t)

=============================================================================
