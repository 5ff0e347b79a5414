---------------------------- MODULE MCSafeInject ----------------------------
(* Every entry point, environment, subject and shape of reply.               *)
EXTENDS SafeInject
=============================================================================
