----------------------------- MODULE MCContainers -----------------------------
(***************************************************************************)
(* Small instances of Containers.  The payloads are of lengths that leave  *)
(* tails of every size at the end of the byte ring, and some of their      *)
(* bytes look like the header of a padding record.  The sets of keys get   *)
(* one key more than they have cells, and two that share a bucket.         *)
(***************************************************************************)
EXTENDS Containers

MCCells == [ring |-> 3, pool |-> 3, hash |-> 2, lru |-> 3, list |-> 3]
MCKeys == [hash |-> {1, 2, 3}, lru |-> {1, 2, 3, 5}, list |-> {1, 2}]
MCPayloads == {<<>>, <<1>>, <<1, 1>>, <<1, 0, 1, 1, 0>>, <<0, 1, 1, 1, 1, 1, 1, 1>>}
MCValues == {<<1>>, <<2>>}
==============================================================================
