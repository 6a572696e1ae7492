----------------------------- MODULE MCServerLife -----------------------------
(***************************************************************************)
(* Small instances of ServerLife: a poisonous response and a poisonous     *)
(* request; an innocent request whose head is what is left of the second   *)
(* when its last field is missing; one whose head is all zeroes; and two   *)
(* packets that do not decode, of which one is poison.                     *)
(***************************************************************************)
EXTENDS ServerLife

CONSTANTS a, b

MCSystems == {a, b}

Pkg(seq, cmd, decodes, is_rsp, poison) ==
  [gid |-> 1, seq_id |-> seq, cmd_id |-> cmd,
   decodes |-> decodes, is_rsp |-> is_rsp, poison |-> poison]

MCPackets ==
  {Pkg(1, 1, TRUE, TRUE, TRUE), Pkg(2, 2, TRUE, FALSE, TRUE), Pkg(2, 0, TRUE, FALSE, FALSE),
   ZeroHead @@ [decodes |-> TRUE, is_rsp |-> FALSE, poison |-> FALSE],
   Pkg(1, 1, FALSE, FALSE, FALSE), Pkg(1, 1, FALSE, FALSE, TRUE)}
================================================================================
