--------------------------- MODULE MCPodExecutors ---------------------------
(* Bounds for PodExecutors: two changes that keep the pod's phase, so that  *)
(* one can come before and one after another phase, and two ticks to the    *)
(* hour, so that an event can come after some of it has passed.             *)
EXTENDS PodExecutors

=============================================================================
