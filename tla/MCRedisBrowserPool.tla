-------------------------- MODULE MCRedisBrowserPool --------------------------
(* Instances of RedisBrowserPool for TLC. *)
EXTENDS RedisBrowserPool
=============================================================================
