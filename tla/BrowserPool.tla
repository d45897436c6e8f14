----------------------------- MODULE BrowserPool -----------------------------
(***************************************************************************)
(* What both pools of backend/browser_pool.py stand on: the Chrome         *)
(* endpoints.  LocalBrowserPool and RedisBrowserPool (whose names begin    *)
(* with Lease where both would have the same) extend it; a deployment runs *)
(* one of the two.                                                         *)
(***************************************************************************)

CONSTANT Endpoints
=============================================================================
