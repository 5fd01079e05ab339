--------------------------- MODULE SnapshotRegister ---------------------------
(***************************************************************************)
(* What a snapshot file promises (Storage::write_atomic, src/storage.rs):  *)
(* it is a register.  A save replaces its content at one instant between   *)
(* its call and its return, or not at all; a save that returned Ok did     *)
(* replace it, and at its return no power loss can take the register back  *)
(* to what it was before.  `history' lists the contents, oldest first, and *)
(* the first `durable' of them are past recall.  Savers that do not sync   *)
(* are promised less: neither the place of their content in `history' nor  *)
(* its data, `weak', need outlast a power loss.                            *)
(***************************************************************************)
EXTENDS Naturals, Sequences

CONSTANTS Saver, Unsynced, Value, NoFile, Partial

VARIABLES
    history,   \* the contents of the register; the last one is current
    durable,   \* a power loss leaves one of durable..Len(history)
    weak,      \* the positions in history whose data a power loss may take
    active,    \* the savers inside a call
    done,      \* done[p]: where in history p's running save stands, or 0
    result     \* result[p]: what p's last save returned, "none" if it did not

vars == <<history, durable, weak, active, done, result>>

Init ==
    /\ history = <<NoFile>> /\ durable = 1 /\ weak = {}
    /\ active = {}
    /\ done = [p \in Saver |-> 0] /\ result = [p \in Saver |-> "none"]

Call(p) ==
    /\ p \notin active
    /\ active' = active \cup {p} /\ result' = [result EXCEPT ![p] = "none"]
    /\ UNCHANGED <<history, durable, weak, done>>

Replace(p, v) ==
    /\ p \in active /\ done[p] = 0
    /\ history' = Append(history, v)
    /\ done' = [done EXCEPT ![p] = Len(history')]
    /\ weak' = (IF p \in Unsynced THEN weak \cup {Len(history')} ELSE weak)
    /\ UNCHANGED <<durable, active, result>>

ReturnOk(p) ==
    /\ p \in active /\ done[p] # 0
    /\ durable' \in durable..Len(history)
    /\ p \notin Unsynced => durable' >= done[p]
    /\ active' = active \ {p} /\ done' = [done EXCEPT ![p] = 0]
    /\ result' = [result EXCEPT ![p] = "ok"]
    /\ UNCHANGED <<history, weak>>

\* An error, or the end of the process: the register may have been replaced.
GiveUp(p) ==
    /\ p \in active
    /\ active' = active \ {p} /\ done' = [done EXCEPT ![p] = 0]
    /\ \E r \in {"error", "none"} : result' = [result EXCEPT ![p] = r]
    /\ UNCHANGED <<history, durable, weak>>

PowerLoss ==
    /\ \E k \in durable..Len(history) :
          \/ history' = SubSeq(history, 1, k)
          \/ k \in weak /\ history' = Append(SubSeq(history, 1, k - 1), Partial)
    /\ durable' = Len(history') /\ weak' = {}
    /\ active' = {} /\ done' = [p \in Saver |-> 0]
    /\ result' = [p \in Saver |-> IF p \in active THEN "none" ELSE result[p]]

Next ==
    \/ \E p \in Saver : Call(p) \/ ReturnOk(p) \/ GiveUp(p)
    \/ \E p \in Saver, v \in Value : Replace(p, v)
    \/ PowerLoss

Spec == Init /\ [][Next]_vars
=============================================================================
