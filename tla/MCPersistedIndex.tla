-------------------------- MODULE MCPersistedIndex --------------------------
(***************************************************************************)
(* A small wrapped index for PersistedIndex: it counts, up to Cap, how     *)
(* often each id is in it.  It rejects an insert beyond Cap (with Cap = 1, *)
(* of a duplicate id) and a delete of an absent id; with Cap > 1 it shows  *)
(* a mutation that is applied twice, like the index of tests/wal.rs.  It   *)
(* takes vectors of any dimension and size, as that of                     *)
(* examples/wal_recovery.rs does.                                          *)
(***************************************************************************)
EXTENDS PersistedIndex

CONSTANTS
    Ids, Cap,
    Odd         \* which inserts load cannot bring back callers make:
                \* "dimension", of another dimension, and "long", too long

AnId == CHOOSE i \in Ids : TRUE
MCMutation ==
    [op : {"insert", "delete"}, id : Ids]
      \cup {[op |-> "insert", id |-> AnId, odd |-> o] : o \in Odd}
Oddity(m) == IF "odd" \in DOMAIN m THEN m.odd ELSE "none"
MCFitsDim(m) == Oddity(m) # "dimension"
MCTooLong == {m \in MCMutation : Oddity(m) = "long"}

MCIndex == {s : s \in [Ids -> 0..Cap]}
Empty == [i \in Ids |-> 0]
MCBases == {Empty}

MCAccepts(s, m) == IF m.op = "insert" THEN s[m.id] < Cap ELSE s[m.id] > 0

MCApply(s, m) == [s EXCEPT ![m.id] = IF m.op = "insert" THEN @ + 1 ELSE 0]
=============================================================================
