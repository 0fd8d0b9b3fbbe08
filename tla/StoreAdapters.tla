--------------------------- MODULE StoreAdapters ---------------------------
(***************************************************************************)
(* The stores behind the cache: integrations/aerospike, redis and valkey,  *)
(* and the file store of cmd/benchmark, with the record they keep for one  *)
(* key.  A remote operation is one step, since the server executes it at   *)
(* once; an operation on files is a step per system call, and the process  *)
(* may crash between any two.  What the servers and client libraries do    *)
(* with an expiration is external.  The machine does not crash: the file   *)
(* store syncs nothing.                                                    *)
(***************************************************************************)
EXTENDS S2SClient

CONSTANTS
  ExpirationLimit,  \* 2^32: Aerospike's expiration is below it
  Clock,            \* of each adapter, the times at which the clock is looked at
  MaxTime           \* a bound of them

\* Beside zero and the two largest expirations, which mean something else, there
\* is one that is a number of seconds.
ASSUME StoreAssumption == ExpirationLimit \in Nat /\ ExpirationLimit >= 4 /\ MaxTime \in Nat

Adapters == {"aerospike", "redis", "valkey", "file"}

VARIABLES
  now,       \* the clock, in nanoseconds
  adapter,
  record,    \* what the store keeps under the key
  staged,    \* the staging files, as far as they are written
  op         \* the store operation of each goroutine

storeVars == <<now, adapter, record, staged, op>>

\* An entry of the cache has its ExpiresAt in milliseconds and, as history, the
\* TTL it was put with and the time until which it may be served.
NoEntry == [exp |-> 0, ttl |-> 0, due |-> 0]

\* What is kept: an entry and the time it is kept until, which in a file is the
\* prefix.  As history, the time that the Put of this entry meant.  Nobody tells
\* an empty file from none: Get finds nothing in either.
NoRecord == [entry |-> NoEntry, until |-> 0, meant |-> 0]
Forever == MaxTime + 1
NoOp == [at |-> "idle", entry |-> NoEntry, until |-> 0]

OpGoes(g, from, to) == op[g].at = from /\ op' = [op EXCEPT ![g].at = to]
OpReturns(g) == op' = [op EXCEPT ![g] = NoOp]

-----------------------------------------------------------------------------
\* Mutant: the seconds are rounded down.
MutExpirationSeconds(ttl) ==
  LET seconds == Quotient(ttl, Second)
  IN  (IF seconds < 1 THEN 1 ELSE seconds) % ExpirationLimit

\* expirationSeconds of the Aerospike store.
ExpirationSeconds(ttl) ==
  LET seconds == Quotient(ttl, Second) + (IF ttl % Second # 0 THEN 1 ELSE 0)
  IN  (IF seconds < 1 THEN 1 ELSE seconds) % ExpirationLimit

\* The server's reading of it: the largest is never, the next one leaves the
\* expiration as it is, and 0 is what the namespace says.
AerospikeUntil(ttl) ==
  LET seconds == ExpirationSeconds(ttl)
  IN  IF seconds = ExpirationLimit - 1 THEN {Forever}
      ELSE IF seconds = ExpirationLimit - 2
      THEN {IF record = NoRecord THEN Forever ELSE record.until}
      ELSE IF seconds = 0 THEN {now, Forever}
      ELSE {now + seconds * Second}

\* go-redis expires a TTL below a millisecond after one, and does not expire
\* one that is not positive.
RedisUntil(ttl) ==
  IF ttl <= 0 THEN {Forever}
  ELSE {now + Millisecond * (IF Milliseconds(ttl) = 0 THEN 1 ELSE Milliseconds(ttl))}

\* Store.Put of the Valkey store; the server refuses an expiry of zero.
ValkeyUntil(ttl) ==
  IF ttl <= 0 THEN {Forever}
  ELSE IF Milliseconds(ttl) = 0 THEN {}
  ELSE {now + Millisecond * Milliseconds(ttl)}

UntilOf(ttl) ==
  IF adapter = "aerospike" THEN AerospikeUntil(ttl)
  ELSE IF adapter = "redis" THEN RedisUntil(ttl) ELSE ValkeyUntil(ttl)

-----------------------------------------------------------------------------
\* Put and Get of a remote store.

\* The write is executed; the call may still return an error.
RemotePut(g) == \E until \in UntilOf(op[g].entry.ttl) :
  /\ adapter # "file" /\ op[g].at = "put"
  /\ record' = [entry |-> op[g].entry, until |-> until, meant |-> until]
  /\ OpReturns(g) /\ UNCHANGED <<now, adapter, staged>>

RemoteGet(g) ==
  /\ adapter # "file" /\ record # NoRecord /\ now < record.until
  /\ op[g].at = "get"
  /\ op' = [op EXCEPT ![g] = [@ EXCEPT !.at = "decode", !.entry = record.entry]]
  /\ UNCHANGED <<now, adapter, record, staged>>

\* No record, an expired one, or an error: nothing is found.
GetMisses(g) ==
  /\ op[g].at = "get"
  /\ OpReturns(g) /\ UNCHANGED <<now, adapter, record, staged>>

-----------------------------------------------------------------------------
\* Mutant: one staging file for the key.
MutStagingFile(g) == CHOOSE h \in Goroutines : TRUE

\* os.CreateTemp gives every Put a staging file of its own.  That it draws the
\* name of an earlier one again, which a crash or a rename may have left, is
\* not modelled.
StagingFile(g) == g

\* fileStore.Put: a TTL that is not positive is no write at all; the expiry is
\* fixed before the staging file is made.
FilePut(g) ==
  /\ adapter = "file" /\ op[g].at = "put"
  /\ IF op[g].entry.ttl <= 0 THEN OpReturns(g) /\ UNCHANGED staged
     ELSE /\ op' = [op EXCEPT ![g] =
               [@ EXCEPT !.at = "write", !.until = Wrap(now + op[g].entry.ttl)]]
          /\ staged' = [staged EXCEPT ![StagingFile(g)] = NoRecord]
  /\ UNCHANGED <<now, adapter, record>>

\* The buffer is written in parts: an error or a crash may leave the file with
\* the prefix alone.
WritePrefix(g) ==
  /\ OpGoes(g, "write", "value")
  /\ staged' = [staged EXCEPT ![StagingFile(g)].until = op[g].until]
  /\ UNCHANGED <<now, adapter, record>>

WriteValue(g) ==
  /\ OpGoes(g, "value", "rename")
  /\ staged' = [staged EXCEPT ![StagingFile(g)] =
       [@ EXCEPT !.entry = op[g].entry, !.meant = op[g].until]]
  /\ UNCHANGED <<now, adapter, record>>

FileRename(g) ==
  /\ op[g].at = "rename"
  /\ record' = staged[StagingFile(g)]
  /\ staged' = [staged EXCEPT ![StagingFile(g)] = NoRecord]
  /\ OpReturns(g) /\ UNCHANGED <<now, adapter>>

\* A write that failed or was refused, and a file that could not be made, written
\* or renamed; what there is of it is removed.
PutFails(g) ==
  /\ op[g].at \in {"put", "write", "value", "rename"}
  /\ staged' = [staged EXCEPT ![StagingFile(g)] = NoRecord]
  /\ OpReturns(g) /\ UNCHANGED <<now, adapter, record>>

\* fileStore.Get reads whatever is there.  An expired file is removed, by a second
\* system call.
FileRead(g) ==
  /\ adapter = "file" /\ op[g].at = "get" /\ record # NoRecord
  /\ op' = [op EXCEPT ![g] = IF now > record.until THEN [@ EXCEPT !.at = "remove"]
                             ELSE [@ EXCEPT !.at = "decode", !.entry = record.entry]]
  /\ UNCHANGED <<now, adapter, record, staged>>

FileRemove(g) ==
  /\ op[g].at = "remove"
  /\ record' = NoRecord
  /\ OpReturns(g) /\ UNCHANGED <<now, adapter, staged>>

StoreStep(g) ==
  \/ RemotePut(g) \/ PutFails(g) \/ RemoteGet(g) \/ GetMisses(g)
  \/ FilePut(g) \/ WritePrefix(g) \/ WriteValue(g) \/ FileRename(g)
  \/ FileRead(g) \/ FileRemove(g)
=============================================================================
