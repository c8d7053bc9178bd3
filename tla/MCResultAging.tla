---------------------------- MODULE MCResultAging ----------------------------
(***************************************************************************)
(* Every combination of the directives with bounds around the max_age of   *)
(* the result.                                                             *)
(***************************************************************************)
EXTENDS ResultAging

MCRequests ==
    [ noStore : {FALSE}, noCache : BOOLEAN, minFresh : -1 .. 3, maxAge : -1 .. 5,
      maxStale : -1 .. 3, maxStaleSet : BOOLEAN ]
=============================================================================
