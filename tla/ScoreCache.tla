----------------------------- MODULE ScoreCache -----------------------------
(***************************************************************************)
(* The bounded FIFO cache of scoring results, src/scorer/cache.go, as pure *)
(* operators on its two fields: items maps a command to its result and     *)
(* order lists the commands, oldest insertion first.  The command stands   *)
(* for its argvKey: the sha256 of the NUL-terminated executable and        *)
(* arguments, which tells every two commands apart.                        *)
(***************************************************************************)
EXTENDS Naturals, Sequences

EmptyCache == [items |-> <<>>, order |-> <<>>]

Cached(cache, cmd) == cmd \in DOMAIN cache.items

\* Get, when Cached(cache, cmd).
Get(cache, cmd) == cache.items[cmd]

EvictOrderOnly(cache) == [cache EXCEPT !.order = Tail(@)]

\* The oldest entry gives way (cache.go 58-62).
EvictOldest(cache) ==
  [items |-> [k \in DOMAIN cache.items \ {Head(cache.order)} |-> cache.items[k]],
   order |-> Tail(cache.order)]

Insert(cache, cmd, result) ==
  [items |-> [k \in DOMAIN cache.items \cup {cmd} |->
                IF k = cmd THEN result ELSE cache.items[k]],
   order |-> Append(cache.order, cmd)]

Overwrite(cache, cmd, result) ==
  [cache EXCEPT !.items = [@ EXCEPT ![cmd] = result]]

\* Put overwrites in place, without renewing the entry's age; a new command
\* evicts the oldest one when the cache is at capacity.
Put(cache, capacity, cmd, result) ==
  IF Cached(cache, cmd)
  THEN Overwrite(cache, cmd, result)
  ELSE IF Len(cache.order) >= capacity
       THEN Insert(EvictOldest(cache), cmd, result)
       ELSE Insert(cache, cmd, result)

\* The commands Put(cache, capacity, cmd, _) removes.
Evicted(cache, capacity, cmd) ==
  IF Cached(cache, cmd) \/ Len(cache.order) < capacity THEN {} ELSE {Head(cache.order)}

\* The two fields agree: the same commands, each once, at most capacity.
CacheSound(cache, capacity) ==
  /\ DOMAIN cache.items = {cache.order[i] : i \in 1 .. Len(cache.order)}
  /\ \A i, j \in 1 .. Len(cache.order) : i # j => cache.order[i] # cache.order[j]
  /\ Len(cache.order) <= capacity
=============================================================================
