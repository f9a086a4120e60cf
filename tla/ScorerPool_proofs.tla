------------------------- MODULE ScorerPool_proofs -------------------------
(* Proofs about ScorerPool, for every set of workers and of commands, every *)
(* cache size, floor table and bound.                                       *)
EXTENDS ScorerPool, SequenceTheorems, FiniteSetTheorems, TLAPS

-----------------------------------------------------------------------------
(* The cache: Put of a command that is not there.                          *)

\* A new command appended to an order that lists the others.
LEMMA AppendSound ==
  ASSUME NEW order \in Seq(Commands), NEW c \in Commands,
         \A i, j \in 1 .. Len(order) : i # j => order[i] # order[j],
         \A i \in 1 .. Len(order) : order[i] # c
  PROVE  LET longer == Append(order, c) IN
         /\ longer \in Seq(Commands)
         /\ Len(longer) = Len(order) + 1
         /\ {longer[i] : i \in 1 .. Len(longer)} = {order[i] : i \in 1 .. Len(order)} \cup {c}
         /\ \A i, j \in 1 .. Len(longer) : i # j => longer[i] # longer[j]
<1> DEFINE longer == Append(order, c)
<1>1. /\ longer \in Seq(Commands)
      /\ Len(longer) = Len(order) + 1
      /\ \A i \in 1 .. Len(order) : longer[i] = order[i]
      /\ longer[Len(order) + 1] = c
      /\ Len(order) \in Nat
  BY AppendProperties, LenProperties
<1> HIDE DEF longer
<1>2. {longer[i] : i \in 1 .. Len(longer)} = {order[i] : i \in 1 .. Len(order)} \cup {c}
  <2>1. \A i \in 1 .. Len(longer) : i = Len(order) + 1 \/ i \in 1 .. Len(order)
    BY <1>1
  <2>2. Len(order) + 1 \in 1 .. Len(longer) /\ 1 .. Len(order) \subseteq 1 .. Len(longer)
    BY <1>1
  <2> QED
    BY <1>1, <2>1, <2>2
<1>3. \A i, j \in 1 .. Len(longer) : i # j => longer[i] # longer[j]
  BY <1>1
<1> QED
  BY <1>1, <1>2, <1>3 DEF longer

\* What is left of an order when its oldest command gives way.
LEMMA TailSound ==
  ASSUME NEW order \in Seq(Commands), order # <<>>,
         \A i, j \in 1 .. Len(order) : i # j => order[i] # order[j]
  PROVE  /\ Tail(order) \in Seq(Commands)
         /\ Len(Tail(order)) = Len(order) - 1
         /\ {Tail(order)[i] : i \in 1 .. Len(Tail(order))}
              = {order[i] : i \in 1 .. Len(order)} \ {Head(order)}
         /\ \A i, j \in 1 .. Len(Tail(order)) : i # j => Tail(order)[i] # Tail(order)[j]
<1> DEFINE shorter == Tail(order)
<1>1. /\ shorter \in Seq(Commands)
      /\ Len(shorter) = Len(order) - 1
      /\ \A i \in 1 .. Len(shorter) : shorter[i] = order[i + 1]
      /\ Head(order) = order[1]
      /\ Len(order) \in Nat \ {0}
  BY HeadTailProperties, LenProperties, EmptySeq
<1> HIDE DEF shorter
<1>2. {shorter[i] : i \in 1 .. Len(shorter)} = {order[i] : i \in 1 .. Len(order)} \ {Head(order)}
  <2>1. \A i \in 1 .. Len(shorter) : i + 1 \in 1 .. Len(order) /\ i + 1 # 1
    BY <1>1
  <2>2. {shorter[i] : i \in 1 .. Len(shorter)} \subseteq {order[i] : i \in 1 .. Len(order)} \ {Head(order)}
    BY <1>1, <2>1
  <2>3. ASSUME NEW k \in 1 .. Len(order), order[k] # Head(order)
        PROVE  order[k] \in {shorter[i] : i \in 1 .. Len(shorter)}
    <3>1. k - 1 \in 1 .. Len(shorter) /\ (k - 1) + 1 = k
      BY <1>1, <2>3
    <3>2. order[k] = shorter[k - 1]
      BY <1>1, <3>1
    <3> QED
      BY <3>1, <3>2
  <2> QED
    BY <2>2, <2>3
<1>3. \A i, j \in 1 .. Len(shorter) : i # j => shorter[i] # shorter[j]
  BY <1>1
<1> QED
  BY <1>1, <1>2, <1>3 DEF shorter

\* The items and the order of a cache the pool may hold.
CacheOK(kept) ==
  /\ kept = [items |-> kept.items, order |-> kept.order]
  /\ kept.order \in Seq(Commands)
  /\ CacheSound(kept, CacheSize)

LEMMA InsertSound ==
  ASSUME NEW kept, CacheOK(kept), NEW c \in Commands, NEW r,
         ~Cached(kept, c), Len(kept.order) < CacheSize
  PROVE  CacheOK(Insert(kept, c, r))
<1> DEFINE new == Insert(kept, c, r)
<1>1. /\ new = [items |-> new.items, order |-> new.order]
      /\ new.items = [k \in DOMAIN kept.items \cup {c} |-> IF k = c THEN r ELSE kept.items[k]]
      /\ new.order = Append(kept.order, c)
  BY DEF Insert
<1>2. DOMAIN new.items = DOMAIN kept.items \cup {c}
  BY <1>1
<1>3. /\ kept.order \in Seq(Commands)
      /\ DOMAIN kept.items = {kept.order[i] : i \in 1 .. Len(kept.order)}
      /\ \A i, j \in 1 .. Len(kept.order) : i # j => kept.order[i] # kept.order[j]
  BY DEF CacheOK, CacheSound
<1>4. \A i \in 1 .. Len(kept.order) : kept.order[i] # c
  BY <1>3 DEF Cached
<1>5. Len(kept.order) + 1 <= CacheSize
  BY <1>3, LenProperties, PoolAssumption
<1> QED
  BY <1>1, <1>2, <1>3, <1>4, <1>5, AppendSound DEF CacheOK, CacheSound

LEMMA EvictSound ==
  ASSUME NEW kept, CacheOK(kept), Len(kept.order) >= CacheSize
  PROVE  LET rest == EvictOldest(kept) IN
         /\ CacheOK(rest)
         /\ Len(rest.order) < CacheSize
         /\ Head(kept.order) \in DOMAIN kept.items
         /\ rest.items = [k \in DOMAIN kept.items \ {Head(kept.order)} |-> kept.items[k]]
<1> DEFINE rest == EvictOldest(kept)
<1>1. /\ rest = [items |-> rest.items, order |-> rest.order]
      /\ rest.items = [k \in DOMAIN kept.items \ {Head(kept.order)} |-> kept.items[k]]
      /\ rest.order = Tail(kept.order)
  BY DEF EvictOldest
<1>2. DOMAIN rest.items = DOMAIN kept.items \ {Head(kept.order)}
  BY <1>1
<1>3. /\ kept.order \in Seq(Commands)
      /\ DOMAIN kept.items = {kept.order[i] : i \in 1 .. Len(kept.order)}
      /\ \A i, j \in 1 .. Len(kept.order) : i # j => kept.order[i] # kept.order[j]
      /\ Len(kept.order) <= CacheSize
  BY DEF CacheOK, CacheSound
<1>4. Len(kept.order) \in Nat /\ CacheSize \in Nat \ {0} /\ kept.order # <<>>
  BY <1>3, LenProperties, EmptySeq, PoolAssumption
<1>5. Len(Tail(kept.order)) < CacheSize
  BY <1>3, <1>4, TailSound
<1>6. CacheOK(rest)
  <2>1. /\ Tail(kept.order) \in Seq(Commands)
        /\ {Tail(kept.order)[i] : i \in 1 .. Len(Tail(kept.order))} = DOMAIN rest.items
        /\ \A i, j \in 1 .. Len(Tail(kept.order)) :
             i # j => Tail(kept.order)[i] # Tail(kept.order)[j]
    BY <1>2, <1>3, <1>4, TailSound
  <2>2. Len(Tail(kept.order)) <= CacheSize
    BY <1>4, <1>5, <2>1, LenProperties
  <2>3. CacheSound(rest, CacheSize)
    <3>1. rest.order = Tail(kept.order)
      BY <1>1
    <3> HIDE DEF rest
    <3>2. DOMAIN rest.items = {rest.order[i] : i \in 1 .. Len(rest.order)}
      BY <2>1, <3>1, Zenon
    <3>3. \A i, j \in 1 .. Len(rest.order) : i # j => rest.order[i] # rest.order[j]
      BY <2>1, <3>1, Zenon
    <3>4. Len(rest.order) <= CacheSize
      BY <2>2, <3>1
    <3> QED
      BY <3>2, <3>3, <3>4 DEF CacheSound
  <2> HIDE DEF rest
  <2> QED
    BY <1>1, <2>1, <2>3 DEF CacheOK
<1>7. Head(kept.order) \in DOMAIN kept.items
  BY <1>3, <1>4, HeadTailProperties
<1> QED
  BY <1>1, <1>5, <1>6, <1>7

\* Put of a command the cache does not hold keeps the map and the order in
\* agreement, and loses exactly the commands Evicted names.
LEMMA PutSound ==
  ASSUME NEW kept, CacheOK(kept), NEW c \in Commands, NEW r, ~Cached(kept, c)
  PROVE  LET new == Put(kept, CacheSize, c, r)
             left == DOMAIN kept.items \ Evicted(kept, CacheSize, c) IN
         /\ CacheOK(new)
         /\ Evicted(kept, CacheSize, c) \subseteq DOMAIN kept.items
         /\ new.items = [k \in left \cup {c} |-> IF k = c THEN r ELSE kept.items[k]]
<1>1. CASE Len(kept.order) >= CacheSize
  <2> DEFINE rest == EvictOldest(kept)
  <2>1. /\ CacheOK(rest)
        /\ Len(rest.order) < CacheSize
        /\ Head(kept.order) \in DOMAIN kept.items
        /\ rest.items = [k \in DOMAIN kept.items \ {Head(kept.order)} |-> kept.items[k]]
    BY <1>1, EvictSound
  <2> HIDE DEF rest
  <2>2. ~Cached(rest, c)
    BY <2>1 DEF Cached
  <2>3. Evicted(kept, CacheSize, c) = {Head(kept.order)}
    <3>1. ~(Len(kept.order) < CacheSize)
      BY <1>1, LenProperties, PoolAssumption DEF CacheOK
    <3> QED
      BY <3>1 DEF Evicted
  <2>4. Put(kept, CacheSize, c, r) = Insert(rest, c, r)
    BY <1>1 DEF Put, rest
  <2>5. CacheOK(Insert(rest, c, r))
    BY <2>1, <2>2, InsertSound
  <2>6. Insert(rest, c, r).items =
          [k \in (DOMAIN kept.items \ {Head(kept.order)}) \cup {c} |->
             IF k = c THEN r ELSE kept.items[k]]
    BY <2>1 DEF Insert
  <2> QED
    BY <2>1, <2>3, <2>4, <2>5, <2>6
<1>2. CASE ~(Len(kept.order) >= CacheSize)
  <2>1. Len(kept.order) < CacheSize
    BY <1>2, LenProperties, PoolAssumption DEF CacheOK
  <2>2. Evicted(kept, CacheSize, c) = {}
    BY <2>1 DEF Evicted
  <2>3. Put(kept, CacheSize, c, r) = Insert(kept, c, r)
    BY <1>2 DEF Put
  <2>4. CacheOK(Insert(kept, c, r))
    BY <2>1, InsertSound
  <2>5. Insert(kept, c, r).items =
          [k \in DOMAIN kept.items \cup {c} |-> IF k = c THEN r ELSE kept.items[k]]
    BY DEF Insert
  <2>6. DOMAIN kept.items \ {} = DOMAIN kept.items
    OBVIOUS
  <2> QED
    BY <2>2, <2>3, <2>4, <2>5, <2>6
<1> QED
  BY <1>1, <1>2

-----------------------------------------------------------------------------
(* Types, single flight and the cache, one invariant: each needs the others. *)

\* The types of all the variables but the cache and the history.
WorkerTypes ==
  /\ inflight \in [Commands -> Workers \cup {Nobody}]
  /\ stage \in [Workers -> Stages]
  /\ cmd \in [Workers -> Commands]
  /\ leader \in [Workers -> Workers \cup {Nobody}]
  /\ result \in [Workers -> Results]
  /\ prefiltered \in Nat /\ hits \in Nat /\ scored \in Nat /\ calls \in Nat

HistoryTypes ==
  /\ produced \subseteq Commands \X Risks
  /\ successes \in [Commands -> Nat]
  /\ evictions \in [Commands -> Nat]

CacheTypes ==
  /\ CacheOK(cache)
  /\ \A c \in DOMAIN cache.items : cache.items[c] \in Risks

\* A result about to be published is a risk score.
PoolInv ==
  /\ WorkerTypes
  /\ CacheTypes
  /\ \A w \in Workers : Scoring(w) /\ stage[w] = "publish" => result[w].risk \in Risks
  /\ SingleFlight
  /\ NeverScoredWhileCached
  /\ ParkedHasLeader

LEMMA FloorIsRisk ==
  ASSUME NEW c \in Commands, NEW risk \in Risks
  PROVE  ApplyFloor(c, risk) \in Risks
  BY PoolAssumption DEF ApplyFloor, Risks

LEMMA PoolInitTypes == PoolInit => WorkerTypes /\ HistoryTypes /\ CacheTypes
<1> SUFFICES ASSUME PoolInit PROVE WorkerTypes /\ HistoryTypes /\ CacheTypes
    OBVIOUS
<1>1. WorkerTypes
  BY PoolAssumption DEF PoolInit, WorkerTypes, Stages, Results
<1>2. HistoryTypes
  BY DEF PoolInit, HistoryTypes
<1>3. /\ cache = [items |-> cache.items, order |-> cache.order]
      /\ cache.items = <<>> /\ cache.order = <<>>
  BY DEF PoolInit, EmptyCache
<1>4. CacheTypes
  <2>1. DOMAIN cache.items = {} /\ Len(cache.order) = 0 /\ cache.order \in Seq(Commands)
    BY <1>3, EmptySeq
  <2>2. CacheSound(cache, CacheSize)
    BY <2>1, PoolAssumption DEF CacheSound
  <2> QED
    BY <1>3, <2>1, <2>2 DEF CacheTypes, CacheOK
<1> QED
  BY <1>1, <1>2, <1>4

LEMMA PoolInitInv == PoolInit => PoolInv
<1> SUFFICES ASSUME PoolInit PROVE PoolInv
    OBVIOUS
<1>1. \A w \in Workers : stage[w] = "idle"
  BY DEF PoolInit
<1>2. SingleFlight
  BY <1>1, PoolAssumption DEF PoolInit, SingleFlight, Scoring
<1> QED
  BY <1>1, <1>2, PoolInitTypes DEF PoolInv, NeverScoredWhileCached, ParkedHasLeader, Scoring

LEMMA NextWorkerTypes == WorkerTypes /\ CacheTypes /\ [PoolNext]_poolVars => WorkerTypes'
<1> SUFFICES ASSUME WorkerTypes, CacheTypes, [PoolNext]_poolVars PROVE WorkerTypes'
    OBVIOUS
<1> USE DEF WorkerTypes, Goto, Yield, counters, history
<1>1. ASSUME NEW w \in Workers, NEW c \in Commands, Prefilter(w, c) PROVE WorkerTypes'
  <2>1. [risk |-> 0, source |-> "prefilter"] \in Results
    BY PoolAssumption DEF Results, Risks, Sources
  <2> QED
    BY <1>1, <2>1 DEF Prefilter, Stages
<1>2. ASSUME NEW w \in Workers, NEW c \in Commands, Enter(w, c) PROVE WorkerTypes'
  BY <1>2 DEF Enter, Stages
<1>3. ASSUME NEW w \in Workers, Leave(w) PROVE WorkerTypes'
  BY <1>3 DEF Leave, Stages, Results
<1>4. ASSUME NEW w \in Workers, Hit(w) PROVE WorkerTypes'
  <2>1. [risk |-> Get(cache, cmd[w]), source |-> "cache"] \in Results
    BY <1>4 DEF Hit, CacheTypes, Cached, Get, Results, Sources
  <2> QED
    BY <1>4, <2>1 DEF Hit, Stages
<1>5. ASSUME NEW w \in Workers, Park(w) PROVE WorkerTypes'
  BY <1>5 DEF Park, Stages
<1>6. ASSUME NEW w \in Workers, Claim(w) PROVE WorkerTypes'
  BY <1>6 DEF Claim, Stages
<1>7. ASSUME NEW w \in Workers, NEW risk \in Risks, ScoreOK(w, risk) PROVE WorkerTypes'
  <2>1. [risk |-> ApplyFloor(cmd[w], risk), source |-> "llm"] \in Results
    BY FloorIsRisk DEF Results, Sources
  <2> QED
    BY <1>7, <2>1 DEF ScoreOK, Stages
<1>8. ASSUME NEW w \in Workers, ScoreError(w) PROVE WorkerTypes'
  <2>1. [risk |-> ErrorRisk, source |-> "error"] \in Results
    BY PoolAssumption DEF Results, Sources
  <2> QED
    BY <1>8, <2>1 DEF ScoreError, Stages
<1>9. ASSUME NEW w \in Workers, Publish(w) PROVE WorkerTypes'
  BY <1>9 DEF Publish, Stages
<1>10. ASSUME NEW w \in Workers, Wake(w) PROVE WorkerTypes'
  BY <1>10 DEF Wake, Woken, Stages
<1>11. CASE UNCHANGED poolVars
  BY <1>11 DEF poolVars
<1> QED
  BY <1>1, <1>2, <1>3, <1>4, <1>5, <1>6, <1>7, <1>8, <1>9, <1>10, <1>11
     DEF PoolNext, Call, Resolve, Score

\* Who scores what: the claim, and the wait for it.
Flight == SingleFlight /\ ParkedHasLeader

LEMMA NextFlight == WorkerTypes /\ Flight /\ [PoolNext]_poolVars => Flight'
<1> SUFFICES ASSUME WorkerTypes, Flight, [PoolNext]_poolVars PROVE Flight'
    OBVIOUS
<1> USE PoolAssumption
        DEF WorkerTypes, Flight, SingleFlight, ParkedHasLeader, Scoring, Goto, counters, history
<1>1. ASSUME NEW w \in Workers, NEW c \in Commands, Prefilter(w, c) PROVE Flight'
  BY <1>1 DEF Prefilter
<1>2. ASSUME NEW w \in Workers, NEW c \in Commands, Enter(w, c) PROVE Flight'
  BY <1>2 DEF Enter
<1>3. ASSUME NEW w \in Workers, Leave(w) PROVE Flight'
  BY <1>3 DEF Leave
<1>4. ASSUME NEW w \in Workers, Hit(w) PROVE Flight'
  BY <1>4 DEF Hit
<1>5. ASSUME NEW w \in Workers, Park(w) PROVE Flight'
  BY <1>5 DEF Park
<1>6. ASSUME NEW w \in Workers, Claim(w) PROVE Flight'
  BY <1>6 DEF Claim
<1>7. ASSUME NEW w \in Workers, NEW risk \in Risks, ScoreOK(w, risk) PROVE Flight'
  BY <1>7 DEF ScoreOK
<1>8. ASSUME NEW w \in Workers, ScoreError(w) PROVE Flight'
  BY <1>8 DEF ScoreError
<1>9. ASSUME NEW w \in Workers, Publish(w) PROVE Flight'
  BY <1>9 DEF Publish
<1>10. ASSUME NEW w \in Workers, Wake(w) PROVE Flight'
  BY <1>10 DEF Wake, Woken
<1>11. CASE UNCHANGED poolVars
  BY <1>11 DEF poolVars
<1> QED
  BY <1>1, <1>2, <1>3, <1>4, <1>5, <1>6, <1>7, <1>8, <1>9, <1>10, <1>11
     DEF PoolNext, Call, Resolve, Score

\* What Publish of a score does to the cache.
LEMMA PublishStores ==
  ASSUME PoolInv, NEW w \in Workers, Publish(w), result[w].source = "llm"
  PROVE  LET gone == Evicted(cache, CacheSize, cmd[w])
             left == DOMAIN cache.items \ gone IN
         /\ cmd[w] \in Commands /\ ~Cached(cache, cmd[w]) /\ result[w].risk \in Risks
         /\ gone \subseteq DOMAIN cache.items
         /\ CacheOK(cache')
         /\ cache'.items = [k \in left \cup {cmd[w]} |->
                              IF k = cmd[w] THEN result[w].risk ELSE cache.items[k]]
         /\ DOMAIN cache'.items = left \cup {cmd[w]}
         /\ cache'.items[cmd[w]] = result[w].risk
         /\ \A k \in left : k # cmd[w] => cache'.items[k] = cache.items[k]
         /\ evictions' = [c \in Commands |-> IF c \in gone THEN evictions[c] + 1 ELSE evictions[c]]
<1>1. cmd[w] \in Commands /\ ~Cached(cache, cmd[w]) /\ result[w].risk \in Risks
  BY DEF PoolInv, WorkerTypes, NeverScoredWhileCached, Scoring, Publish
<1>2. /\ cache' = Put(cache, CacheSize, cmd[w], result[w].risk)
      /\ evictions' = [c \in Commands |-> IF c \in Evicted(cache, CacheSize, cmd[w])
                                          THEN evictions[c] + 1 ELSE evictions[c]]
  BY DEF Publish
<1>3. CacheOK(cache)
  BY DEF PoolInv, CacheTypes
<1> QED
  BY <1>1, <1>2, <1>3, PutSound

\* Publish adds the worker's command to the cache, if it adds anything, and
\* no other worker is scoring that command.
LEMMA PublishPuts ==
  ASSUME PoolInv, NEW w \in Workers, Publish(w)
  PROVE  /\ CacheTypes'
         /\ DOMAIN cache'.items \subseteq DOMAIN cache.items \cup {cmd[w]}
<1>1. CASE result[w].source = "llm"
  <2> DEFINE left == DOMAIN cache.items \ Evicted(cache, CacheSize, cmd[w])
  <2>1. /\ result[w].risk \in Risks
        /\ CacheOK(cache')
        /\ DOMAIN cache'.items = left \cup {cmd[w]}
        /\ cache'.items[cmd[w]] = result[w].risk
        /\ \A k \in left : k # cmd[w] => cache'.items[k] = cache.items[k]
    BY <1>1, PublishStores
  <2>2. CacheOK(cache)' /\ \A k \in DOMAIN cache'.items : cache'.items[k] \in Risks
    BY <2>1 DEF PoolInv, CacheTypes, CacheOK
  <2> QED
    BY <2>1, <2>2 DEF CacheTypes
<1>2. CASE cache' = cache
  BY <1>2 DEF PoolInv, CacheTypes, CacheOK
<1> QED
  BY <1>1, <1>2 DEF Publish

LEMMA NextPoolInv == PoolInv /\ [PoolNext]_poolVars => PoolInv'
<1> SUFFICES ASSUME PoolInv, [PoolNext]_poolVars PROVE PoolInv'
    OBVIOUS
<1>1. WorkerTypes' /\ SingleFlight' /\ ParkedHasLeader'
  BY NextWorkerTypes, NextFlight DEF PoolInv, Flight
<1> DEFINE Rest == /\ CacheTypes
                   /\ \A v \in Workers : stage[v] = "publish" => result[v].risk \in Risks
                   /\ NeverScoredWhileCached
<1>2. Rest /\ WorkerTypes /\ SingleFlight
  BY DEF PoolInv, Scoring
<1>3. CacheTypes' \/ ~(cache' = cache)
  BY <1>2 DEF CacheTypes, CacheOK
<1> USE DEF WorkerTypes, NeverScoredWhileCached, Scoring, Goto, Yield, counters, history
<1>4. ASSUME NEW w \in Workers, NEW c \in Commands, Prefilter(w, c) PROVE Rest'
  BY <1>2, <1>3, <1>4 DEF Prefilter
<1>5. ASSUME NEW w \in Workers, NEW c \in Commands, Enter(w, c) PROVE Rest'
  BY <1>2, <1>3, <1>5 DEF Enter
<1>6. ASSUME NEW w \in Workers, Leave(w) PROVE Rest'
  BY <1>2, <1>3, <1>6 DEF Leave
<1>7. ASSUME NEW w \in Workers, Hit(w) PROVE Rest'
  BY <1>2, <1>3, <1>7 DEF Hit
<1>8. ASSUME NEW w \in Workers, Park(w) PROVE Rest'
  BY <1>2, <1>3, <1>8 DEF Park
<1>9. ASSUME NEW w \in Workers, Claim(w) PROVE Rest'
  BY <1>2, <1>3, <1>9 DEF Claim
<1>10. ASSUME NEW w \in Workers, NEW risk \in Risks, ScoreOK(w, risk) PROVE Rest'
  BY <1>2, <1>3, <1>10, FloorIsRisk DEF ScoreOK
<1>11. ASSUME NEW w \in Workers, ScoreError(w) PROVE Rest'
  BY <1>2, <1>3, <1>11, PoolAssumption DEF ScoreError
<1>12. ASSUME NEW w \in Workers, Publish(w) PROVE Rest'
  <2>1. /\ CacheTypes'
        /\ DOMAIN cache'.items \subseteq DOMAIN cache.items \cup {cmd[w]}
    BY <1>12, PublishPuts
  <2>2. \A v \in Workers \ {w} : Scoring(v) => cmd[v] # cmd[w]
    BY <1>2, <1>12 DEF SingleFlight, Publish
  <2>3. \A v \in Workers : /\ stage'[v] = (IF v = w THEN "wake" ELSE stage[v])
                           /\ cmd'[v] = cmd[v] /\ result'[v] = result[v]
    BY <1>2, <1>12 DEF Publish
  <2>4. NeverScoredWhileCached'
    BY <1>2, <2>1, <2>2, <2>3 DEF Cached
  <2> QED
    BY <1>2, <2>1, <2>3, <2>4
<1>13. ASSUME NEW w \in Workers, Wake(w) PROVE Rest'
  BY <1>2, <1>3, <1>13 DEF Wake, Woken
<1>14. ASSUME UNCHANGED poolVars PROVE Rest'
  BY <1>2, <1>3, <1>14 DEF poolVars
<1> HIDE DEF Rest
<1>15. Rest'
  BY <1>4, <1>5, <1>6, <1>7, <1>8, <1>9, <1>10, <1>11, <1>12, <1>13, <1>14
     DEF PoolNext, Call, Resolve, Score
<1> QED
  BY <1>1, <1>15 DEF PoolInv, Rest

LEMMA PoolInvHolds == PoolSafetySpec => []PoolInv
  BY PoolInitInv, NextPoolInv, PTL DEF PoolSafetySpec

\* No worker ever scores a command another one is scoring, or one the cache
\* holds, and a worker that waits has somebody to wait for (main.go 48-84).
THEOREM ScoredAlone ==
  PoolSafetySpec => [](SingleFlight /\ NeverScoredWhileCached /\ ParkedHasLeader)
<1>1. PoolInv => SingleFlight /\ NeverScoredWhileCached /\ ParkedHasLeader
  BY DEF PoolInv
<1> QED
  BY <1>1, PoolInvHolds, PTL

\* The cache's map and its eviction order never drift apart, and the cache
\* never outgrows its capacity (cache.go 51-65).
THEOREM CacheInStep == PoolSafetySpec => []CacheAgrees
<1>1. PoolInv => CacheAgrees
  BY DEF PoolInv, CacheTypes, CacheOK, CacheAgrees
<1> QED
  BY <1>1, PoolInvHolds, PTL

LEMMA NextHistoryTypes ==
  WorkerTypes /\ HistoryTypes /\ [PoolNext]_poolVars => HistoryTypes'
<1> SUFFICES ASSUME WorkerTypes, HistoryTypes, [PoolNext]_poolVars PROVE HistoryTypes'
    OBVIOUS
<1> USE DEF HistoryTypes, WorkerTypes, history
<1>1. ASSUME NEW w \in Workers, NEW risk \in Risks, ScoreOK(w, risk) PROVE HistoryTypes'
  BY <1>1 DEF ScoreOK
<1>2. ASSUME NEW w \in Workers, Publish(w) PROVE HistoryTypes'
  BY <1>2 DEF Publish
<1>3. ASSUME UNCHANGED <<produced, successes, evictions>> PROVE HistoryTypes'
  BY <1>3
<1> QED
  BY <1>1, <1>2, <1>3
     DEF PoolNext, Call, Resolve, Score, Prefilter, Enter, Leave, Hit, Park, Claim,
         ScoreError, Wake, poolVars

\* Every variable of the pool keeps its type.
THEOREM PoolTypeCorrect == PoolSafetySpec => []PoolTypeOK
<1>1. PoolInit => HistoryTypes
  BY PoolInitTypes
<1>2. PoolInv /\ HistoryTypes /\ [PoolNext]_poolVars => HistoryTypes'
  BY NextHistoryTypes DEF PoolInv
<1>3. PoolInv /\ HistoryTypes => PoolTypeOK
  <2> SUFFICES ASSUME PoolInv, HistoryTypes PROVE PoolTypeOK
      OBVIOUS
  <2>1. DOMAIN cache.items \subseteq Commands
    BY ElementOfSeq DEF PoolInv, CacheTypes, CacheOK, CacheSound
  <2> QED
    BY <2>1 DEF PoolInv, WorkerTypes, HistoryTypes, CacheTypes, CacheOK, PoolTypeOK
<1> QED
  BY <1>1, <1>2, <1>3, PoolInvHolds, PTL DEF PoolSafetySpec

-----------------------------------------------------------------------------
(* The results: where they come from, and how often they are asked for.    *)

\* The model gave this score for c, up to its floor.
Given(c, risk) == \E p \in produced : p[1] = c /\ risk = ApplyFloor(c, p[2])

\* What resolve has in hand, from the answer to the return, is genuine.
Genuine ==
  /\ \A c \in DOMAIN cache.items : Given(c, cache.items[c])
  /\ \A w \in Workers :
       /\ stage[w] \in {"publish", "wake", "resolved"}
       /\ result[w].source \in {"llm", "cache"}
       => Given(cmd[w], result[w].risk)

\* A score once given stays given.
LEMMA GivenGrows ==
  ASSUME produced \subseteq produced', NEW c, NEW risk, Given(c, risk)
  PROVE  Given(c, risk)'
  BY DEF Given, ApplyFloor

LEMMA NextGenuine == PoolInv /\ Genuine /\ [PoolNext]_poolVars => Genuine'
<1> SUFFICES ASSUME PoolInv, Genuine, [PoolNext]_poolVars PROVE Genuine'
    OBVIOUS
<1>1. WorkerTypes
  BY DEF PoolInv
<1> USE <1>1 DEF WorkerTypes, Goto, Yield, counters, history
<1>2. ASSUME UNCHANGED produced PROVE \A c, risk : Given(c, risk) => Given(c, risk)'
  BY <1>2 DEF Given, ApplyFloor
<1>3. ASSUME NEW w \in Workers, NEW c \in Commands, Prefilter(w, c) PROVE Genuine'
  BY <1>2, <1>3 DEF Genuine, Prefilter
<1>4. ASSUME NEW w \in Workers, NEW c \in Commands, Enter(w, c) PROVE Genuine'
  BY <1>2, <1>4 DEF Genuine, Enter
<1>5. ASSUME NEW w \in Workers, Leave(w) PROVE Genuine'
  BY <1>2, <1>5 DEF Genuine, Leave
<1>6. ASSUME NEW w \in Workers, Hit(w) PROVE Genuine'
  BY <1>2, <1>6 DEF Genuine, Hit, Cached, Get
<1>7. ASSUME NEW w \in Workers, Park(w) PROVE Genuine'
  BY <1>2, <1>7 DEF Genuine, Park
<1>8. ASSUME NEW w \in Workers, Claim(w) PROVE Genuine'
  BY <1>2, <1>8 DEF Genuine, Claim
<1>9. ASSUME NEW w \in Workers, NEW risk \in Risks, ScoreOK(w, risk) PROVE Genuine'
  <2>1. produced \subseteq produced' /\ <<cmd[w], risk>> \in produced'
    BY <1>9 DEF ScoreOK
  <2>2. \A c, r : Given(c, r) => Given(c, r)'
    BY <2>1, GivenGrows
  <2>3. /\ cache' = cache /\ cmd' = cmd
        /\ \A v \in Workers \ {w} : stage'[v] = stage[v] /\ result'[v] = result[v]
        /\ result'[w].risk = ApplyFloor(cmd[w], risk)
    BY <1>9 DEF ScoreOK
  <2>4. \E p \in produced' : p[1] = cmd[w] /\ result'[w].risk = ApplyFloor(cmd[w], p[2])
    BY <2>1, <2>3
  <2>5. Given(cmd[w], result[w].risk)'
    BY <2>3, <2>4 DEF Given, ApplyFloor
  <2> QED
    BY <2>2, <2>3, <2>5 DEF Genuine
<1>10. ASSUME NEW w \in Workers, ScoreError(w) PROVE Genuine'
  BY <1>2, <1>10 DEF Genuine, ScoreError
<1>11. ASSUME NEW w \in Workers, Publish(w) PROVE Genuine'
  <2>1. /\ cmd' = cmd /\ result' = result /\ produced' = produced
        /\ \A v \in Workers \ {w} : stage'[v] = stage[v]
        /\ stage[w] = "publish"
    BY <1>11 DEF Publish
  <2>2. \A c \in DOMAIN cache'.items : Given(c, cache'.items[c])
    <3>1. CASE /\ result[w].source = "llm"
               /\ cache' = Put(cache, CacheSize, cmd[w], result[w].risk)
      <4>1. Given(cmd[w], result[w].risk)
        BY <2>1, <3>1 DEF Genuine
      <4> DEFINE left == DOMAIN cache.items \ Evicted(cache, CacheSize, cmd[w])
      <4>2. /\ DOMAIN cache'.items = left \cup {cmd[w]}
            /\ cache'.items[cmd[w]] = result[w].risk
            /\ \A k \in left : k # cmd[w] => cache'.items[k] = cache.items[k]
        BY <1>11, <3>1, PublishStores
      <4> QED
        BY <4>1, <4>2 DEF Genuine
    <3>2. CASE cache' = cache
      BY <3>2 DEF Genuine
    <3> QED
      BY <1>11, <3>1, <3>2 DEF Publish
  <2> QED
    BY <1>2, <2>1, <2>2 DEF Genuine
<1>12. ASSUME NEW w \in Workers, Wake(w) PROVE Genuine'
  BY <1>2, <1>12 DEF Genuine, Wake, Woken
<1>13. CASE UNCHANGED poolVars
  BY <1>2, <1>13 DEF Genuine, poolVars
<1> QED
  BY <1>3, <1>4, <1>5, <1>6, <1>7, <1>8, <1>9, <1>10, <1>11, <1>12, <1>13
     DEF PoolNext, Call, Resolve, Score

\* A result the pool returns or remembers is one the model gave for this very
\* command, raised to the floor of its rules; a failure is never remembered
\* (main.go 51-83).
THEOREM ResultsFromModel == PoolSafetySpec => []ResultsGenuine
<1>1. PoolInit => Genuine
  BY DEF PoolInit, Genuine, EmptyCache
<1>2. Genuine => ResultsGenuine
  BY DEF Genuine, ResultsGenuine, Given
<1> QED
  BY <1>1, <1>2, NextGenuine, PoolInvHolds, PTL DEF PoolSafetySpec

\* Worker w is about to publish a score for c.
Publishing(w, c) == stage[w] = "publish" /\ cmd[w] = c /\ result[w].source = "llm"

\* ScoredOncePerResidency, counted without cardinalities: by SingleFlight at
\* most one worker is about to publish a score for c.
ScoredOnce ==
  \A c \in Commands :
    successes[c] =
      evictions[c] + (IF Cached(cache, c) THEN 1 ELSE 0)
      + (IF \E w \in Workers : Publishing(w, c) THEN 1 ELSE 0)

LEMMA OnePublisher ==
  ASSUME PoolInv, NEW c \in Commands
  PROVE  Cardinality({w \in Workers : stage[w] = "publish" /\ cmd[w] = c /\ result[w].source = "llm"})
           = IF \E w \in Workers : Publishing(w, c) THEN 1 ELSE 0
<1> DEFINE publishers == {w \in Workers : stage[w] = "publish" /\ cmd[w] = c /\ result[w].source = "llm"}
<1>1. CASE \E w \in Workers : Publishing(w, c)
  <2>1. PICK w \in Workers : Publishing(w, c)
    BY <1>1
  <2>2. \A v \in Workers : Publishing(v, c) => v = w
    BY <2>1 DEF PoolInv, SingleFlight, Scoring, Publishing
  <2>3. publishers = {w}
    BY <2>1, <2>2 DEF Publishing
  <2> QED
    BY <1>1, <2>3, FS_Singleton
<1>2. CASE ~\E w \in Workers : Publishing(w, c)
  <2>1. publishers = {}
    BY <1>2 DEF Publishing
  <2> QED
    BY <1>2, <2>1, FS_EmptySet
<1> QED
  BY <1>1, <1>2

LEMMA NextScoredOnce ==
  PoolInv /\ HistoryTypes /\ ScoredOnce /\ [PoolNext]_poolVars => ScoredOnce'
<1> SUFFICES ASSUME PoolInv, HistoryTypes, ScoredOnce, [PoolNext]_poolVars PROVE ScoredOnce'
    OBVIOUS
<1>1. WorkerTypes
  BY DEF PoolInv
<1> USE <1>1 DEF WorkerTypes, Goto, Yield, counters, history
\* A step that leaves the cache, the counts and every publisher alone.
<1>2. ASSUME UNCHANGED <<cache, successes, evictions>>,
             NEW w \in Workers, stage[w] # "publish", stage'[w] # "publish",
             \A v \in Workers \ {w} :
               /\ (stage'[v] = "publish" <=> stage[v] = "publish")
               /\ cmd'[v] = cmd[v] /\ result'[v] = result[v]
      PROVE  ScoredOnce'
  <2>1. \A c \in Commands, v \in Workers : Publishing(v, c)' <=> Publishing(v, c)
    BY <1>2 DEF Publishing
  <2>2. \A c \in Commands : Cached(cache, c)' <=> Cached(cache, c)
    BY <1>2 DEF Cached
  <2> QED
    BY <1>2, <2>1, <2>2 DEF ScoredOnce
<1>3. ASSUME NEW w \in Workers, NEW c \in Commands, Prefilter(w, c) \/ Enter(w, c) PROVE ScoredOnce'
  BY <1>2, <1>3 DEF Prefilter, Enter
<1>4. ASSUME NEW w \in Workers, Leave(w) PROVE ScoredOnce'
  BY <1>2, <1>4 DEF Leave
<1>5. ASSUME NEW w \in Workers, Hit(w) \/ Park(w) \/ Claim(w) PROVE ScoredOnce'
  BY <1>2, <1>5 DEF Hit, Park, Claim
<1>6. ASSUME NEW w \in Workers, NEW risk \in Risks, ScoreOK(w, risk) PROVE ScoredOnce'
  <2>1. /\ cache' = cache /\ evictions' = evictions
        /\ successes' = [successes EXCEPT ![cmd[w]] = @ + 1]
        /\ stage[w] = "scoring"
        /\ \A c \in Commands : c = cmd[w] => Publishing(w, c)'
    BY <1>6 DEF ScoreOK, Publishing
  <2>2. ~\E v \in Workers : Publishing(v, cmd[w])
    BY <2>1 DEF PoolInv, SingleFlight, Scoring, Publishing
  <2>3. \A c \in Commands \ {cmd[w]}, v \in Workers : Publishing(v, c)' <=> Publishing(v, c)
    BY <1>6 DEF ScoreOK, Publishing
  <2>4. \A c \in Commands : Cached(cache, c)' <=> Cached(cache, c)
    BY <2>1 DEF Cached
  <2>5. ~Cached(cache, cmd[w])
    BY <2>1 DEF PoolInv, NeverScoredWhileCached, Scoring
  <2>6. ASSUME NEW c \in Commands
        PROVE  successes'[c] = evictions'[c] + (IF Cached(cache, c)' THEN 1 ELSE 0)
                 + (IF (\E v \in Workers : Publishing(v, c))' THEN 1 ELSE 0)
    <3>1. CASE c = cmd[w]
      <4>1. (\E v \in Workers : Publishing(v, c))'
        BY <2>1, <3>1
      <4> QED
        BY <2>1, <2>2, <2>4, <2>5, <3>1, <4>1 DEF ScoredOnce, HistoryTypes
    <3>2. CASE c # cmd[w]
      <4>1. (\E v \in Workers : Publishing(v, c))' <=> \E v \in Workers : Publishing(v, c)
        BY <2>3, <3>2
      <4> QED
        BY <2>1, <2>4, <3>2, <4>1 DEF ScoredOnce, HistoryTypes
    <3> QED
      BY <3>1, <3>2
  <2> QED
    BY <2>6 DEF ScoredOnce
<1>7. ASSUME NEW w \in Workers, ScoreError(w) PROVE ScoredOnce'
  <2>1. \A c \in Commands, v \in Workers : Publishing(v, c)' <=> Publishing(v, c)
    BY <1>7 DEF ScoreError, Publishing
  <2>2. \A c \in Commands : Cached(cache, c)' <=> Cached(cache, c)
    BY <1>7 DEF ScoreError, Cached
  <2> QED
    BY <1>7, <2>1, <2>2 DEF ScoreError, ScoredOnce
<1>8. ASSUME NEW w \in Workers, Publish(w) PROVE ScoredOnce'
  <2>1. /\ stage[w] = "publish"
        /\ successes' = successes
        /\ \A c \in Commands, v \in Workers : v # w => (Publishing(v, c)' <=> Publishing(v, c))
        /\ \A c \in Commands : ~Publishing(w, c)'
    BY <1>8 DEF Publish, Publishing
  <2>2. \A v \in Workers : v # w => ~Publishing(v, cmd[w])
    BY <2>1 DEF PoolInv, SingleFlight, Scoring, Publishing
  <2>3. CASE result[w].source = "llm"
    <3> DEFINE gone == Evicted(cache, CacheSize, cmd[w])
    <3>1. /\ ~Cached(cache, cmd[w])
          /\ evictions' = [c \in Commands |-> IF c \in gone THEN evictions[c] + 1 ELSE evictions[c]]
      BY <1>8, <2>3, PublishStores
    <3>2. /\ gone \subseteq DOMAIN cache.items
          /\ DOMAIN cache'.items = (DOMAIN cache.items \ gone) \cup {cmd[w]}
      BY <1>8, <2>3, PublishStores
    <3> HIDE DEF gone
    <3>3. ASSUME NEW c \in Commands
          PROVE  successes'[c] = evictions'[c] + (IF Cached(cache, c)' THEN 1 ELSE 0)
                   + (IF (\E v \in Workers : Publishing(v, c))' THEN 1 ELSE 0)
      <4>1. CASE c = cmd[w]
        <5>1. (\E v \in Workers : Publishing(v, c)) /\ ~(\E v \in Workers : Publishing(v, c))'
          BY <2>1, <2>2, <2>3, <4>1 DEF Publishing
        <5>2. ~Cached(cache, c) /\ Cached(cache, c)' /\ c \notin gone
          BY <3>1, <3>2, <4>1 DEF Cached
        <5> QED
          BY <2>1, <3>1, <5>1, <5>2 DEF ScoredOnce, HistoryTypes
      <4>2. CASE c # cmd[w]
        <5>1. (\E v \in Workers : Publishing(v, c))' <=> \E v \in Workers : Publishing(v, c)
          BY <2>1, <4>2 DEF Publishing
        <5>2. /\ Cached(cache, c)' <=> Cached(cache, c) /\ c \notin gone
              /\ c \in gone => Cached(cache, c)
          BY <3>2, <4>2 DEF Cached
        <5> QED
          BY <2>1, <3>1, <5>1, <5>2 DEF ScoredOnce, HistoryTypes
      <4> QED
        BY <4>1, <4>2
    <3> QED
      BY <3>3 DEF ScoredOnce
  <2>4. CASE result[w].source # "llm"
    <3>1. \A c \in Commands : ~Publishing(w, c)
      BY <2>4 DEF Publishing
    <3>2. \A c \in Commands, v \in Workers : Publishing(v, c)' <=> Publishing(v, c)
      BY <2>1, <3>1
    <3>3. cache' = cache /\ evictions' = evictions
      BY <1>8, <2>4 DEF Publish
    <3>4. \A c \in Commands : Cached(cache, c)' <=> Cached(cache, c)
      BY <3>3 DEF Cached
    <3> QED
      BY <2>1, <3>2, <3>3, <3>4 DEF ScoredOnce
  <2> QED
    BY <2>3, <2>4
<1>9. ASSUME NEW w \in Workers, Wake(w) PROVE ScoredOnce'
  BY <1>2, <1>9 DEF Wake, Woken
<1>10. CASE UNCHANGED poolVars
  BY <1>10 DEF poolVars, ScoredOnce, Cached, Publishing
<1> QED
  BY <1>3, <1>4, <1>5, <1>6, <1>7, <1>8, <1>9, <1>10 DEF PoolNext, Call, Resolve, Score

\* The model is asked again about a command it already scored only after the
\* cache lost the result: each success is about to be published, is in the
\* cache, or was evicted (main.go 25-27).
THEOREM ScoredPerResidency == PoolSafetySpec => []ScoredOncePerResidency
<1>1. PoolInit => HistoryTypes /\ ScoredOnce
  <2> SUFFICES ASSUME PoolInit PROVE ScoredOnce
      BY PoolInitTypes
  <2> QED
    BY DEF PoolInit, ScoredOnce, Publishing, Cached, EmptyCache
<1>2. PoolInv /\ HistoryTypes /\ [PoolNext]_poolVars => HistoryTypes'
  BY NextHistoryTypes DEF PoolInv
<1>3. PoolInv /\ ScoredOnce => ScoredOncePerResidency
  BY OnePublisher DEF ScoredOnce, ScoredOncePerResidency
<1> QED
  BY <1>1, <1>2, <1>3, NextScoredOnce, PoolInvHolds, PTL DEF PoolSafetySpec

-----------------------------------------------------------------------------
(* The pool implements ScoreOnce.                                          *)

\* The order lists each remembered command once.
LEMMA KnownCount ==
  ASSUME NEW kept, CacheOK(kept)
  PROVE  Cardinality(DOMAIN kept.items) = Len(kept.order)
<1> DEFINE n == Len(kept.order)
<1>1. /\ kept.order \in [1 .. n -> Commands] /\ n \in Nat
      /\ DOMAIN kept.items = {kept.order[i] : i \in 1 .. n}
      /\ \A i, j \in 1 .. n : i # j => kept.order[i] # kept.order[j]
  BY LenProperties DEF CacheOK, CacheSound
<1> HIDE DEF n
<1>2. kept.order \in [1 .. n -> DOMAIN kept.items]
  BY <1>1
<1>3. \A e \in DOMAIN kept.items : \E i \in 1 .. n : kept.order[i] = e
  BY <1>1
<1>4. kept.order \in Bijection(1 .. n, DOMAIN kept.items)
  BY <1>1, <1>2, <1>3 DEF Bijection, Injection, Surjection, IsInjective
<1>5. ExistsBijection(1 .. n, DOMAIN kept.items)
  BY <1>4 DEF ExistsBijection
<1>6. IsFiniteSet(1 .. n) /\ Cardinality(1 .. n) = n
  BY <1>1, FS_Interval
<1> QED
  BY <1>5, <1>6, FS_Bijection DEF n

\* Put gives up no entry while there is room, and one when there is none.
LEMMA GivenUp ==
  ASSUME NEW kept, CacheOK(kept), NEW c \in Commands, ~Cached(kept, c)
  PROVE  Cardinality(Evicted(kept, CacheSize, c))
           = IF Cardinality(DOMAIN kept.items) < CacheSize THEN 0 ELSE 1
<1>1. Cardinality(DOMAIN kept.items) = Len(kept.order)
  BY KnownCount
<1>2. Evicted(kept, CacheSize, c) = IF Len(kept.order) < CacheSize THEN {} ELSE {Head(kept.order)}
  BY DEF Evicted
<1> QED
  BY <1>1, <1>2, FS_EmptySet, FS_Singleton

LEMMA SameCardinality == \A S : Model!Cardinality(S) = Cardinality(S)
  BY DEF Cardinality, Model!Cardinality

\* The commands the model is being asked about.
Asking == {c \in Commands : inflight[c] # Nobody}

LEMMA ClaimAsks ==
  ASSUME PoolInv, NEW w \in Workers, Claim(w)
  PROVE  Model!Ask(cmd[w])
<1>1. cmd[w] \notin DOMAIN cache.items /\ cmd[w] \notin Asking
  BY DEF Claim, Cached, Asking
<1>2. cache'.items = cache.items
  BY DEF Claim
<1>3. Asking' = Asking \cup {cmd[w]}
  BY PoolAssumption DEF PoolInv, WorkerTypes, Claim, Asking
<1> QED
  BY <1>1, <1>2, <1>3 DEF Asking, Model!Ask, Model!Known

\* The claim ends with the publication.
LEMMA PublishAnswers ==
  ASSUME PoolInv, NEW w \in Workers, Publish(w)
  PROVE  cmd[w] \in Asking /\ Asking' = Asking \ {cmd[w]}
<1>1. inflight[cmd[w]] = w /\ cmd[w] \in Commands
  BY DEF PoolInv, WorkerTypes, SingleFlight, Scoring, Publish
<1>2. inflight' = [inflight EXCEPT ![cmd[w]] = Nobody]
  BY DEF Publish
<1> QED
  BY <1>1, <1>2, PoolAssumption DEF PoolInv, WorkerTypes, Asking

LEMMA PublishLearns ==
  ASSUME PoolInv, NEW w \in Workers, Publish(w), result[w].source = "llm"
  PROVE  Model!Learn(cmd[w])
<1> DEFINE gone == Evicted(cache, CacheSize, cmd[w])
<1>1. /\ cmd[w] \in Commands /\ ~Cached(cache, cmd[w]) /\ result[w].risk \in Risks
      /\ gone \subseteq DOMAIN cache.items
  BY PublishStores
<1>2. Cardinality(gone) = IF Cardinality(DOMAIN cache.items) < CacheSize THEN 0 ELSE 1
  BY <1>1, GivenUp DEF PoolInv, CacheTypes
<1>3. cache'.items = [k \in (DOMAIN cache.items \ gone) \cup {cmd[w]} |->
                        IF k = cmd[w] THEN result[w].risk ELSE cache.items[k]]
  BY PublishStores
<1> HIDE DEF gone
<1> DEFINE risk == result[w].risk
<1>4. \E r \in 0 .. MaxRisk, given_up \in SUBSET DOMAIN cache.items :
        /\ Cardinality(given_up) = (IF Cardinality(DOMAIN cache.items) < CacheSize THEN 0 ELSE 1)
        /\ cache'.items = [k \in (DOMAIN cache.items \ given_up) \cup {cmd[w]} |->
                             IF k = cmd[w] THEN r ELSE cache.items[k]]
  <2>1. result[w].risk \in 0 .. MaxRisk /\ gone \in SUBSET DOMAIN cache.items
    BY <1>1 DEF Risks
  <2> QED
    BY <1>2, <1>3, <2>1, Zenon
<1>5. cmd[w] \in Asking /\ Asking' = Asking \ {cmd[w]}
  BY PublishAnswers
<1> QED
  BY <1>4, <1>5, SameCardinality, Zenon DEF Asking, Model!Learn, Model!Known

LEMMA PublishFails ==
  ASSUME PoolInv, NEW w \in Workers, Publish(w), result[w].source # "llm"
  PROVE  Model!Fail(cmd[w])
<1>1. cache'.items = cache.items
  BY DEF Publish
<1> QED
  BY <1>1, PublishAnswers DEF Asking, Model!Fail

LEMMA NextRefinesOnce == PoolInv /\ [PoolNext]_poolVars => [Model!Next]_(Model!vars)
<1> SUFFICES ASSUME PoolInv, [PoolNext]_poolVars PROVE [Model!Next]_(Model!vars)
    OBVIOUS
<1>1. WorkerTypes
  BY DEF PoolInv
<1>2. ASSUME NEW w \in Workers, Claim(w) PROVE Model!Next
  <2>1. cmd[w] \in Commands /\ Model!Ask(cmd[w])
    BY <1>1, <1>2, ClaimAsks DEF WorkerTypes
  <2> QED
    BY <2>1 DEF Model!Next, Model!Ask, Model!Learn, Model!Fail
<1>3. ASSUME NEW w \in Workers, Publish(w) PROVE Model!Next
  <2>1. cmd[w] \in Commands /\ (Model!Learn(cmd[w]) \/ Model!Fail(cmd[w]))
    BY <1>1, <1>3, PublishLearns, PublishFails DEF WorkerTypes
  <2> QED
    BY <2>1 DEF Model!Next, Model!Ask, Model!Learn, Model!Fail
<1>4. ASSUME UNCHANGED <<cache, inflight>> PROVE UNCHANGED Model!vars
  BY <1>4 DEF Model!vars
<1> QED
  BY <1>2, <1>3, <1>4
     DEF PoolNext, Call, Resolve, Score, Prefilter, Enter, Leave, Hit, Park,
         ScoreOK, ScoreError, Wake, poolVars, history

\* The pool keeps the promise of ScoreOnce, the safety half of
\* ImplementsScoreOnce: a command is asked about once at a time and never while
\* its result is remembered, and nothing is forgotten before room is needed.
THEOREM RefinesScoreOnce == PoolSafetySpec => Model!SafetySpec
<1>1. PoolInit => Model!Init
  <2> SUFFICES ASSUME PoolInit PROVE Model!Init
      OBVIOUS
  <2>1. cache.items = <<>> /\ {c \in Commands : inflight[c] # Nobody} = {}
    BY DEF PoolInit, EmptyCache
  <2> QED
    BY <2>1 DEF Model!Init
<1> QED
  BY <1>1, NextRefinesOnce, PoolInvHolds, PTL DEF PoolSafetySpec, Model!SafetySpec
=============================================================================
