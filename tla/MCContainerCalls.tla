-------------------------- MODULE MCContainerCalls --------------------------
(* Instance of ContainerCalls for TLC: the threads are interchangeable.    *)
EXTENDS ContainerCalls, TLC

=============================================================================
