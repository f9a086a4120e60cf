----------------------------- MODULE ScorerPool -----------------------------
(***************************************************************************)
(* pool.resolve of src/scorer/main.go (40-91): what a worker goroutine     *)
(* does with one event.  A cheap prefilter; then, under the pool's mutex,  *)
(* the result cache, the single-flight table of commands being scored, and *)
(* the claim of a command nobody is scoring; the model call outside the    *)
(* mutex; and the publication of its result.                               *)
(*                                                                         *)
(* One action is one critical section, or one step between two of them.    *)
(* The atomic increments of the counters go with the step they follow:     *)
(* main reads them only after every worker has returned.  A risk score is  *)
(* a number of 0 .. MaxRisk; a command stands for its key.                 *)
(*                                                                         *)
(* Definitions that no action uses (RaiseByFloor, ClaimBusy, ...) are      *)
(* mutants of the definition that follows them.                            *)
(***************************************************************************)
EXTENDS ScoreCache, FiniteSets

CONSTANTS Workers,
          Commands,      \* the distinct commands
          Benign,        \* those the prefilter decides
          Floor,         \* Floor[c]: highest rule floor that matches c, 0 if none
          FloorOn,       \* the -floor flag
          MaxRisk,       \* bound: the highest risk score
          ErrorRisk,     \* the score of errorResult
          CacheSize,     \* the -cache-size flag, at least 1
          MaxCalls       \* bound: how many events are resolved

Risks == 0 .. MaxRisk

\* The inflight table holds no entry for a command: nobody claimed it.
Nobody == "nobody"

ASSUME PoolAssumption ==
  /\ Commands # {}
  /\ Nobody \notin Workers
  /\ Benign \subseteq Commands
  /\ Floor \in [Commands -> Risks]
  /\ FloorOn \in BOOLEAN
  /\ MaxRisk \in Nat
  /\ ErrorRisk \in Risks
  /\ CacheSize \in Nat \ {0}
  /\ MaxCalls \in Nat

VARIABLES cache,         \* p.cache
          inflight,      \* inflight[c]: the worker that claimed c, or nobody
          stage,         \* stage[w]: where worker w stands in resolve
          cmd,           \* cmd[w]: the command it is resolving
          leader,        \* leader[w]: whose channel it waits on
          result,        \* result[w]: the score and source it will return
          prefiltered, hits, scored,   \* the pool's counters
          calls,         \* history: calls of resolve
          produced,      \* history: the <<command, score>> the model returned
          successes,     \* history: successes[c]: successful model calls for c
          evictions      \* history: evictions[c]: times c was evicted

counters == <<prefiltered, hits, scored>>
history == <<calls, produced, successes, evictions>>
poolVars == <<cache, inflight, stage, cmd, leader, result, counters, history>>

\* lookup: about to take p.mu; parked: waiting for a leader's channel to close;
\* scoring: in Score; publish: about to take p.mu with a result; wake: about to
\* close the channel; resolved: resolve returned
Stages == {"idle", "lookup", "parked", "scoring", "publish", "wake", "resolved"}
Sources == {"prefilter", "cache", "llm", "error"}
NoResult == [risk |-> 0, source |-> "none"]
Results == [risk : Risks, source : Sources] \cup {NoResult}

RaiseByFloor(c, risk) == IF FloorOn THEN risk + Floor[c] ELSE risk

\* applyFloor raises a score to the floor of the command, never lowers it.
ApplyFloor(c, risk) == IF FloorOn /\ Floor[c] > risk THEN Floor[c] ELSE risk

-----------------------------------------------------------------------------
PoolInit ==
  /\ cache = EmptyCache
  /\ inflight = [c \in Commands |-> Nobody]
  /\ stage = [w \in Workers |-> "idle"]
  /\ cmd = [w \in Workers |-> CHOOSE c \in Commands : TRUE]
  /\ leader = [w \in Workers |-> Nobody]
  /\ result = [w \in Workers |-> NoResult]
  /\ prefiltered = 0 /\ hits = 0 /\ scored = 0
  /\ calls = 0
  /\ produced = {}
  /\ successes = [c \in Commands |-> 0]
  /\ evictions = [c \in Commands |-> 0]

Goto(w, s) == stage' = [stage EXCEPT ![w] = s]
Yield(w, risk, source) ==
  result' = [result EXCEPT ![w] = [risk |-> risk, source |-> source]]

\* The prefilter decides a benign command; nothing is cached.
Prefilter(w, c) ==
  /\ stage[w] = "idle" /\ calls < MaxCalls /\ c \in Benign
  /\ Goto(w, "resolved")
  /\ Yield(w, 0, "prefilter")
  /\ cmd' = [cmd EXCEPT ![w] = c]
  /\ prefiltered' = prefiltered + 1
  /\ calls' = calls + 1
  /\ UNCHANGED <<cache, inflight, leader, hits, scored, produced, successes, evictions>>

\* Any other command falls through to the cache.
Enter(w, c) ==
  /\ stage[w] = "idle" /\ calls < MaxCalls /\ c \in Commands \ Benign
  /\ Goto(w, "lookup")
  /\ cmd' = [cmd EXCEPT ![w] = c]
  /\ calls' = calls + 1
  /\ UNCHANGED <<cache, inflight, leader, result, counters, produced, successes, evictions>>

Hit(w) ==
  /\ stage[w] = "lookup"
  /\ Cached(cache, cmd[w])
  /\ Goto(w, "resolved")
  /\ Yield(w, Get(cache, cmd[w]), "cache")
  /\ hits' = hits + 1
  /\ UNCHANGED <<cache, inflight, cmd, leader, prefiltered, scored, history>>

\* Another worker is scoring this command: wait for its channel to close.
Park(w) ==
  /\ stage[w] = "lookup"
  /\ ~Cached(cache, cmd[w])
  /\ inflight[cmd[w]] # Nobody
  /\ Goto(w, "parked")
  /\ leader' = [leader EXCEPT ![w] = inflight[cmd[w]]]
  /\ UNCHANGED <<cache, inflight, cmd, result, counters, history>>

ClaimBusy(w) ==
  /\ stage[w] = "lookup"
  /\ ~Cached(cache, cmd[w])
  /\ Goto(w, "scoring")
  /\ inflight' = [inflight EXCEPT ![cmd[w]] = w]
  /\ UNCHANGED <<cache, cmd, leader, result, counters, history>>

\* Nobody is scoring the command: claim it.
Claim(w) ==
  /\ stage[w] = "lookup"
  /\ ~Cached(cache, cmd[w])
  /\ inflight[cmd[w]] = Nobody
  /\ Goto(w, "scoring")
  /\ inflight' = [inflight EXCEPT ![cmd[w]] = w]
  /\ UNCHANGED <<cache, cmd, leader, result, counters, history>>

ScoreOKReleases(w, risk) ==
  /\ stage[w] = "scoring"
  /\ Goto(w, "publish")
  /\ Yield(w, ApplyFloor(cmd[w], risk), "llm")
  /\ inflight' = [inflight EXCEPT ![cmd[w]] = Nobody]
  /\ produced' = produced \cup {<<cmd[w], risk>>}
  /\ successes' = [successes EXCEPT ![cmd[w]] = @ + 1]
  /\ UNCHANGED <<cache, cmd, leader, counters, calls, evictions>>

\* Score returned: any score the model gives, raised to the rule floor.
ScoreOK(w, risk) ==
  /\ stage[w] = "scoring"
  /\ Goto(w, "publish")
  /\ Yield(w, ApplyFloor(cmd[w], risk), "llm")
  /\ produced' = produced \cup {<<cmd[w], risk>>}
  /\ successes' = [successes EXCEPT ![cmd[w]] = @ + 1]
  /\ UNCHANGED <<cache, inflight, cmd, leader, counters, calls, evictions>>

ScoreErrorReturns(w) ==
  /\ stage[w] = "scoring"
  /\ Goto(w, "resolved")
  /\ Yield(w, ErrorRisk, "error")
  /\ UNCHANGED <<cache, inflight, cmd, leader, counters, history>>

\* Score failed: the model is down or timed out, its answer does not parse, or
\* the context is cancelled.  The error result gets no floor.
ScoreError(w) ==
  /\ stage[w] = "scoring"
  /\ Goto(w, "publish")
  /\ Yield(w, ErrorRisk, "error")
  /\ UNCHANGED <<cache, inflight, cmd, leader, counters, history>>

PublishErrors(w) ==
  /\ stage[w] = "publish"
  /\ Goto(w, "wake")
  /\ inflight' = [inflight EXCEPT ![cmd[w]] = Nobody]
  /\ cache' = Put(cache, CacheSize, cmd[w], result[w].risk)
  /\ evictions' = [c \in Commands |->
       IF c \in Evicted(cache, CacheSize, cmd[w]) THEN evictions[c] + 1 ELSE evictions[c]]
  /\ UNCHANGED <<cmd, leader, result, counters, calls, produced, successes>>

\* The second critical section: only a success is cached, the claim always ends.
Publish(w) ==
  /\ stage[w] = "publish"
  /\ Goto(w, "wake")
  /\ inflight' = [inflight EXCEPT ![cmd[w]] = Nobody]
  /\ \/ /\ result[w].source = "llm"
        /\ cache' = Put(cache, CacheSize, cmd[w], result[w].risk)
        /\ evictions' = [c \in Commands |->
             IF c \in Evicted(cache, CacheSize, cmd[w]) THEN evictions[c] + 1 ELSE evictions[c]]
     \/ /\ result[w].source # "llm"
        /\ UNCHANGED <<cache, evictions>>
  /\ UNCHANGED <<cmd, leader, result, counters, calls, produced, successes>>

Woken(w) ==
  [v \in Workers |->
     IF v = w THEN "resolved"
     ELSE IF stage[v] = "parked" /\ leader[v] = w THEN "lookup" ELSE stage[v]]

\* close(ch), outside the mutex: the workers parked on it look up again.  A
\* failed call counts as scored, too.
Wake(w) ==
  /\ stage[w] = "wake"
  /\ stage' = Woken(w)
  /\ scored' = scored + 1
  /\ UNCHANGED <<cache, inflight, cmd, leader, result, prefiltered, hits, history>>

\* The worker passes its verdict on and is free for another event; what
\* resolve kept in local variables is gone.
Leave(w) ==
  /\ stage[w] = "resolved"
  /\ Goto(w, "idle")
  /\ leader' = [leader EXCEPT ![w] = Nobody]
  /\ result' = [result EXCEPT ![w] = NoResult]
  /\ UNCHANGED <<cache, inflight, cmd, counters, history>>

Call(w) == \E c \in Commands : Prefilter(w, c) \/ Enter(w, c)

Score(w) == ScoreError(w) \/ \E risk \in Risks : ScoreOK(w, risk)

Resolve(w) == Hit(w) \/ Park(w) \/ Claim(w) \/ Score(w) \/ Publish(w) \/ Wake(w)

AllIdle == calls = MaxCalls /\ \A w \in Workers : stage[w] = "idle"

PoolNext == \/ \E w \in Workers : Call(w) \/ Resolve(w) \/ Leave(w)
            \/ AllIdle /\ UNCHANGED poolVars

\* Goroutines are scheduled, and Score returns: the HTTP client gives up after
\* 60 s (llm.go 112).  Nothing obliges an event to come.
PoolFairness == \A w \in Workers : WF_poolVars(Resolve(w) \/ Leave(w))

PoolSafetySpec == PoolInit /\ [][PoolNext]_poolVars
PoolSpec == PoolSafetySpec /\ PoolFairness

-----------------------------------------------------------------------------
Scoring(w) == stage[w] \in {"scoring", "publish"}

\* Every variable holds a value of its type.
PoolTypeOK ==
  /\ cache = [items |-> cache.items, order |-> cache.order]
  /\ cache.order \in Seq(Commands)
  /\ DOMAIN cache.items \subseteq Commands
  /\ \A c \in DOMAIN cache.items : cache.items[c] \in Risks
  /\ inflight \in [Commands -> Workers \cup {Nobody}]
  /\ stage \in [Workers -> Stages]
  /\ cmd \in [Workers -> Commands]
  /\ leader \in [Workers -> Workers \cup {Nobody}]
  /\ result \in [Workers -> Results]
  /\ prefiltered \in Nat /\ hits \in Nat /\ scored \in Nat /\ calls \in Nat
  /\ produced \subseteq Commands \X Risks
  /\ successes \in [Commands -> Nat]
  /\ evictions \in [Commands -> Nat]

\* Single flight: at most one worker is scoring a command, and the inflight
\* table names exactly the commands being scored (main.go 55-64, 80-81).
SingleFlight ==
  \A c \in Commands : \A w \in Workers :
    inflight[c] = w <=> (Scoring(w) /\ cmd[w] = c)

\* The cache's map and its eviction order agree at every step, within bounds.
CacheAgrees == CacheSound(cache, CacheSize)

\* A command being scored is not in the cache: the claim of a missing key and
\* the publication of its result are atomic against every other worker's, so
\* Put's overwrite branch (cache.go 54-57) is never needed.
NeverScoredWhileCached == \A w \in Workers : Scoring(w) => ~Cached(cache, cmd[w])

\* A parked worker waits for the channel of a worker that is still to close it
\* and that was scoring the same command: no goroutine waits for ever.
ParkedHasLeader ==
  \A w \in Workers : stage[w] = "parked" =>
    /\ leader[w] \in Workers
    /\ stage[leader[w]] \in {"scoring", "publish", "wake"}
    /\ cmd[leader[w]] = cmd[w]

\* A result, fresh or cached, is one the model gave for this very command,
\* raised to its floor; failures and prefilter results never enter the cache.
ResultsGenuine ==
  LET Given(c) == {ApplyFloor(c, p[2]) : p \in {q \in produced : q[1] = c}} IN
  /\ \A c \in DOMAIN cache.items : cache.items[c] \in Given(c)
  /\ \A w \in Workers :
       stage[w] = "resolved" /\ result[w].source \in {"llm", "cache"}
         => result[w].risk \in Given(cmd[w])

\* A command is scored again only after the cache lost it: each success is
\* about to be published, is in the cache, or was evicted.
ScoredOncePerResidency ==
  \A c \in Commands :
    successes[c] =
      evictions[c] + (IF Cached(cache, c) THEN 1 ELSE 0)
      + Cardinality({w \in Workers :
           stage[w] = "publish" /\ cmd[w] = c /\ result[w].source = "llm"})

\* Every call of resolve returns, whoever fails or is evicted in between.
EveryCallReturns ==
  \A w \in Workers : stage[w] = "lookup" ~> stage[w] = "resolved"

-----------------------------------------------------------------------------
\* The pool, seen from the model it calls.
Model == INSTANCE ScoreOnce WITH
  memo   <- cache.items,
  asking <- {c \in Commands : inflight[c] # Nobody}

\* The pool implements the once-at-a-time, not-while-remembered promise.
ImplementsScoreOnce == Model!Spec
=============================================================================
