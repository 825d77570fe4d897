---------------------------- MODULE AtomicRename ----------------------------
(***************************************************************************)
(* What a RENAME / RENAMENX promises its client (spec sections 4.3 and 8), *)
(* with no nodes and no messages: the command is decided in one step.      *)
(* Either the value moves from Src to Dst and the client gets the success  *)
(* reply of the command, or RENAMENX finds the destination taken and       *)
(* answers 0 without a change, or the command fails with an error and      *)
(* nothing changes.  No state in between is ever visible once answered.   *)
(***************************************************************************)
CONSTANTS Vals, None, Src, Dst

Keys == {Src, Dst}
Value == Vals \cup {None}

VARIABLES
    kv,      \* key -> value as the client can observe it
    answer,  \* the reply, None until the command is decided
    op       \* "rename" or "renamenx"

avars == <<kv, answer, op>>

Init ==
    /\ kv \in [Keys -> Value]
    /\ answer = None
    /\ op \in {"rename", "renamenx"}

\* The value moves; RENAMENX only onto a free destination.
Move ==
    /\ answer = None
    /\ kv[Src] # None
    /\ op = "renamenx" => kv[Dst] = None
    /\ kv' = [kv EXCEPT ![Dst] = kv[Src], ![Src] = None]
    /\ answer' = IF op = "rename" THEN "OK" ELSE ":1"
    /\ UNCHANGED op

\* RENAMENX onto an existing destination: "not renamed", no change.
Refuse ==
    /\ answer = None
    /\ op = "renamenx" /\ kv[Src] # None /\ kv[Dst] # None
    /\ answer' = ":0"
    /\ UNCHANGED <<kv, op>>

\* Any failure (missing source, unreachable node): an error, no change.
Fail ==
    /\ answer = None
    /\ answer' = "err"
    /\ UNCHANGED <<kv, op>>

Next == Move \/ Refuse \/ Fail

Spec == Init /\ [][Next]_avars
=============================================================================
