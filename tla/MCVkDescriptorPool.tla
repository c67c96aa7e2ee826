------------------------ MODULE MCVkDescriptorPool ------------------------
(* Model-checking instance of VkDescriptorPool: two threads, a pool of    *)
(* three sets, calls for one or two sets, so that a second consumer can   *)
(* find the pool exhausted.                                               *)
EXTENDS VkDescriptorPool

CONSTANTS th1, th2

MCThreads == {th1, th2}

=============================================================================
