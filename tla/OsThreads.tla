----------------------------- MODULE OsThreads -----------------------------
(***************************************************************************)
(* The OS threads that share one handle of hxrt::thread.                    *)
(***************************************************************************)
CONSTANT Threads
=============================================================================
