--------------------------- MODULE MCTransactions ---------------------------
(***************************************************************************)
(* Model-checking instances of Transactions: the command sets clients may  *)
(* send and the symmetry of the model values.                              *)
(***************************************************************************)
EXTENDS Transactions, TLC

\* A data command as the dispatcher sees it: name, key argument, other
\* argument (value, destination key or database, pair of databases).
Cmd(op, k, a) == [op |-> op, key |-> k, arg |-> a]

\* Commands that write through setKey, dbDelete or emptyDb and signal.
SignallingCmds ==
       {Cmd(op, k, v) : op \in {"SET", "SETNX"}, k \in Keys, v \in Vals}
  \cup {Cmd(op, k, NIL) : op \in {"GET", "DEL"}, k \in Keys}
  \cup {Cmd(op, NIL, NIL) : op \in {"FLUSHDB", "FLUSHALL"}}
  \cup {Cmd("SELECT", NIL, d) : d \in DBs}
  \cup {Cmd(op, k, k2) : op \in {"RENAME", "RENAMENX"}, k \in Keys, k2 \in Keys}

\* The signalling commands with distinct keys where a command takes two:
\* the writes that must mark watchers, without the read-only ones.
WatchCmds ==
       {Cmd("SET", k, v) : k \in Keys, v \in Vals}
  \cup {Cmd("DEL", k, NIL) : k \in Keys}
  \cup {Cmd(op, NIL, NIL) : op \in {"FLUSHDB", "FLUSHALL"}}
  \cup {Cmd("SELECT", NIL, d) : d \in DBs}
  \cup {Cmd("RENAME", p[1], p[2]) : p \in {p \in Keys \X Keys : p[1] # p[2]}}

\* SETEX gives keys a deadline; lazy expiration then deletes them.
VolatileCmds == {Cmd("SETEX", k, v) : k \in Keys, v \in Vals}

MoveCmds == {Cmd("MOVE", k, d) : k \in Keys, d \in DBs}

SwapCmds == {Cmd("SWAPDB", NIL, <<d1, d2>>) : d1 \in DBs, d2 \in DBs}

AllCmds == SignallingCmds \cup VolatileCmds \cup MoveCmds \cup SwapCmds

\* Queued inside MULTI, two at a time: a SETEX, a read or a RENAME of a key
\* may meet a deadline that passes between two commands of one EXEC.
ExecExpiryCmds == VolatileCmds \cup {Cmd("GET", k, NIL) : k \in Keys}
                  \cup {Cmd("RENAME", p[1], p[2]) : p \in {p \in Keys \X Keys : p[1] # p[2]}}

\* WATCH against lazy expiration, MOVE and SWAPDB, each beside a plain SET.
ExpiryWatchCmds == {Cmd("SET", k, v) : k \in Keys, v \in Vals} \cup VolatileCmds
            \cup {Cmd("GET", k, NIL) : k \in Keys}
MoveWatchCmds == {Cmd("SET", k, v) : k \in Keys, v \in Vals} \cup MoveCmds
SwapWatchCmds == {Cmd("SET", k, v) : k \in Keys, v \in Vals} \cup SwapCmds

\* Bound on the keys one client watches at a time (the states explored
\* are cut where a client would watch more).
MaxWatch == 1
WatchBound == \A c \in Clients : Cardinality(watched_keys[c]) <= MaxWatch

Symmetry == Permutations(Clients) \cup Permutations(Keys) \cup Permutations(DBs)
=============================================================================
