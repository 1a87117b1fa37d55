--------------------------- MODULE AdvisoryLocks ---------------------------
(***************************************************************************)
(* PostgreSQL session-level advisory locks as the application takes them.  *)
(*                                                                         *)
(* pg_try_advisory_lock and pg_advisory_unlock are sent as two independent *)
(* queries through Prisma's connection pool, so each of them may run on    *)
(* any connection of the process.  A lock belongs to the connection        *)
(* (session) that took it: the same connection may take it again, only     *)
(* that connection can release it, and closing the connection releases it. *)
(***************************************************************************)
EXTENDS Naturals

CONSTANTS Keys,     \* the lock keys
          Conns,    \* the pooled connections
          NoConn    \* the holder of a free lock, not a connection

Free == [conn |-> NoConn, depth |-> 0]

LockTables == [Keys -> [conn : Conns \cup {NoConn}, depth : Nat]]

\* pg_try_advisory_lock on connection c answers true.
Granted(locks, k, c) == locks[k].conn \in {NoConn, c}

\* The table after a granted pg_try_advisory_lock: a session's lock nests.
Locked(locks, k, c) ==
    [locks EXCEPT ![k] = [conn |-> c, depth |-> locks[k].depth + 1]]

\* The table after pg_advisory_unlock on connection c: a session that does
\* not hold the lock gets a warning and changes nothing.
Unlocked(locks, k, c) ==
    IF locks[k].conn # c THEN locks
    ELSE IF locks[k].depth > 1
         THEN [locks EXCEPT ![k] = [conn |-> c, depth |-> locks[k].depth - 1]]
         ELSE [locks EXCEPT ![k] = Free]

\* The table after the connections in C are closed.
Closed(locks, C) ==
    [k \in Keys |-> IF locks[k].conn \in C THEN Free ELSE locks[k]]

=============================================================================
