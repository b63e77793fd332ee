--------------------------- MODULE SnapshotStore ---------------------------
(***************************************************************************)
(* What a persistent store promises: the module that owns it takes whole   *)
(* snapshots of its records, what is stored is always one complete         *)
(* snapshot, it only moves to a later one, and a restart starts from what  *)
(* is stored.  Only a store that holds nothing, or cannot be reached, lets *)
(* a restart fall back to the file that came before the database.          *)
(***************************************************************************)
EXTENDS Integers

VARIABLES
    up,       \* the program is running
    records,  \* the records it holds that must outlive it
    newest,   \* the last snapshot it took: [ver, recs]
    stored,   \* the snapshot that is stored: [ver, recs]
    fallback, \* the records of the older file
    void,     \* records that ran out
    reachable \* the store can be read

Init == ~up /\ stored.ver = 0 /\ newest.ver = 0

\* The owner changes its records and may take a snapshot of them.
Change == /\ up /\ up'
          /\ \/ newest' = newest
             \/ newest' = [ver |-> newest.ver + 1, recs |-> records']
          /\ stored' = stored

\* Another complete snapshot is stored, never an earlier one.
Store == /\ stored'.ver > stored.ver
         /\ stored'.ver <= newest.ver
         /\ stored'.ver = newest.ver => stored'.recs = newest.recs
         /\ UNCHANGED <<up, records, newest>>

Crash == up /\ ~up' /\ UNCHANGED <<newest, stored>>

Restart == /\ ~up /\ up' /\ stored' = stored
           /\ \/ records' = stored.recs \ void
              \/ /\ stored.recs = {} \/ ~reachable
                 /\ records' = fallback \ void
           /\ newest' = [ver |-> newest.ver + 1, recs |-> records']

Next == fallback' = fallback /\ (Change \/ Store \/ Crash \/ Restart)

Spec == Init /\ [][Next]_<<up, records, newest, stored, fallback>>
=============================================================================
