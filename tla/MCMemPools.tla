------------------------------ MODULE MCMemPools ------------------------------
(***************************************************************************)
(* A small pool of its own, for what happens after a crash wherever it is. *)
(***************************************************************************)
EXTENDS MemPools

Spec == Init /\ [][Next]_vars

\* README.md:10 offers the containers to be put into shared memory as they are,
\* and init(check) takes such a block over: alloc would have to hand out free
\* cells only, wherever in alloc, free or clear the last process died.
SurvivesAnyCrash == HandsOutFreeCell
===============================================================================
