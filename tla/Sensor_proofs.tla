--------------------------- MODULE Sensor_proofs ---------------------------
(***************************************************************************)
(* Theorems about Sensor, for every number of CPUs, execs and arguments    *)
(* and every capacity of the ring: no line shows a byte of another exec,   *)
(* and the sensor's steps are ExecStream's.                                *)
(*                                                                         *)
(* The invariant says who owns what: each CPU past Reserve has one record  *)
(* of the ring, not submitted, and no two records are of one exec; hence   *)
(* what a CPU writes goes into its own record only, and a record that is   *)
(* submitted is complete up to its count.                                  *)
(***************************************************************************)
EXTENDS Sensor, SequenceTheorems, TLAPS

Strings == {Empty} \cup (Nat \X Nat)

Records == [exec : Nat, filename : Strings, argc : 0 .. MaxArgs, tty : Strings,
            argv : [1 .. MaxArgs -> Strings], committed : BOOLEAN]

\* What was copied into a record is of its own exec. A name of a terminal was
\* copied only if the exec has one.
HeaderOwn(r) == /\ r.filename \in UserString(r.exec, 0)
                /\ r.tty # Empty => r.exec \notin Ttyless
ArgsOwn(r) == \A i \in 1 .. MaxArgs : i <= r.argc => r.argv[i] \in UserString(r.exec, i)

TypeInv ==
  /\ started \in Nat
  /\ running \in [Cpus -> Nat]
  /\ filled \subseteq Cpus
  /\ ring \in Seq(Records)
  /\ raw \in Records

\* No two records are of one exec, nor do two CPUs build one.
Unique ==
  /\ \A i \in 1 .. Len(ring) : ring[i].exec <= started
  /\ \A i, j \in 1 .. Len(ring) : ring[i].exec = ring[j].exec => i = j
  /\ \A c \in Cpus : running[c] <= started
  /\ \A c, d \in Cpus : running[c] = running[d] /\ running[c] # 0 => c = d

\* A CPU past Reserve finds its record in the ring, where nobody else takes it.
Owned ==
  /\ \A c \in Cpus : running[c] # 0 =>
       \E i \in 1 .. Len(ring) : ring[i].exec = running[c] /\ ~ring[i].committed
  /\ \A c \in filled : running[c] # 0

Contents ==
  /\ \A i \in 1 .. Len(ring) : ArgsOwn(ring[i])
  /\ \A i \in 1 .. Len(ring) : ring[i].committed => HeaderOwn(ring[i])
  /\ \A c \in filled : \A i \in 1 .. Len(ring) : ring[i].exec = running[c] => HeaderOwn(ring[i])
  /\ loop = "handling" => HeaderOwn(raw) /\ ArgsOwn(raw)

SensorInv == TypeInv /\ Unique /\ Owned /\ Contents

-----------------------------------------------------------------------------
(* Facts about the operators.                                              *)

LEMMA UserStringType ==
  ASSUME NEW e \in Nat, NEW k \in Nat PROVE UserString(e, k) \subseteq Strings
  BY DEF UserString, Strings, Empty

LEMMA CoreReadType ==
  ASSUME NEW e \in Nat, NEW links PROVE CoreReadInto(links, TtyName(e)) \in Strings
  BY SensorAssumption DEF CoreReadInto, TtyName, Strings, Empty

LEMMA RecordFresh ==
  ASSUME NEW e \in Nat
  PROVE  /\ Record(e) \in Records /\ ArgsOwn(Record(e))
         /\ Record(e).exec = e /\ ~Record(e).committed
  <1>1. Stale \in Strings
    BY DEF Stale, Strings
  <1>2. Record(e) \in Records
    BY <1>1, SensorAssumption DEF Record, Records
  <1>3. ArgsOwn(Record(e))
    BY SensorAssumption DEF Record, ArgsOwn
  <1> QED BY <1>2, <1>3 DEF Record

\* A CPU past Reserve has exactly one record.
LEMMA MineIs ==
  ASSUME SensorInv, NEW c \in Cpus, running[c] # 0
  PROVE  /\ Mine(c) \in 1 .. Len(ring)
         /\ ring[Mine(c)].exec = running[c]
         /\ ~ring[Mine(c)].committed
         /\ \A i \in 1 .. Len(ring) : ring[i].exec = running[c] => i = Mine(c)
  <1>1. PICK i \in 1 .. Len(ring) : ring[i].exec = running[c] /\ ~ring[i].committed
    BY DEF SensorInv, Owned
  <1>2. DOMAIN ring = 1 .. Len(ring)
    BY DEF SensorInv, TypeInv
  <1>3. Mine(c) \in 1 .. Len(ring) /\ ring[Mine(c)].exec = running[c]
    BY <1>1, <1>2 DEF Mine
  <1>4. \A j \in 1 .. Len(ring) : ring[j].exec = running[c] => j = i
    BY <1>1 DEF SensorInv, Unique
  <1> QED BY <1>1, <1>3, <1>4

-----------------------------------------------------------------------------
(* The steps.                                                              *)

LEMMA InitHolds == Init => SensorInv
  <1> SUFFICES ASSUME Init PROVE SensorInv
    OBVIOUS
  <1>1. TypeInv
    BY RecordFresh DEF Init, TypeInv
  <1> QED BY <1>1 DEF Init, SensorInv, Unique, Owned, Contents

LEMMA ReserveKeeps ==
  ASSUME SensorInv, NEW c \in Cpus, Reserve(c) PROVE SensorInv'
  <1> DEFINE e == started + 1
  <1>0. TypeInv /\ Unique /\ Owned /\ Contents
    BY DEF SensorInv
  <1>1. e \in Nat /\ e # 0 /\ ring \in Seq(Records)
    BY <1>0 DEF TypeInv
  <1>2. /\ Record(e) \in Records /\ ArgsOwn(Record(e))
        /\ Record(e).exec = e /\ ~Record(e).committed
    BY <1>1, RecordFresh
  <1> HIDE DEF e
  <1>3. /\ running[c] = 0 /\ started' = e /\ running' = [running EXCEPT ![c] = e]
        /\ ring' = Append(ring, Record(e))
        /\ filled' = filled /\ loop' = loop /\ raw' = raw
    BY DEF Reserve, userVars, e
  <1>4. /\ ring' \in Seq(Records) /\ Len(ring') = Len(ring) + 1
        /\ \A i \in 1 .. Len(ring) : ring'[i] = ring[i]
        /\ ring'[Len(ring) + 1] = Record(e)
    BY <1>1, <1>2, <1>3, AppendProperties
  <1>5. e = started + 1
    BY DEF e
  <1>6. Len(ring) \in Nat
    BY <1>1
  <1>7. running \in [Cpus -> Nat] /\ running' \in [Cpus -> Nat]
    BY <1>0, <1>1, <1>3 DEF TypeInv
  <1>8. TypeInv'
    BY <1>0, <1>1, <1>3, <1>4, <1>7 DEF TypeInv
  <1>9. \A i \in 1 .. Len(ring) : ring[i].exec \in Nat
    <2>1. \A i \in 1 .. Len(ring) : ring[i] \in Records
      BY <1>1
    <2> QED BY <2>1 DEF Records
  <1>10. Unique'
    <2>1. \A i \in 1 .. Len(ring) : ring'[i].exec <= started /\ ring'[i].exec \in Nat
      BY <1>0, <1>4, <1>9 DEF Unique
    <2>2. ring'[Len(ring) + 1].exec = e
      BY <1>2, <1>4
    <2>3. \A i \in 1 .. Len(ring') : ring'[i].exec <= started'
      BY <2>1, <2>2, <1>0, <1>3, <1>4, <1>5, <1>6 DEF TypeInv
    <2>4. \A i, j \in 1 .. Len(ring') : ring'[i].exec = ring'[j].exec => i = j
      <3> SUFFICES ASSUME NEW i \in 1 .. Len(ring'), NEW j \in 1 .. Len(ring'),
                          ring'[i].exec = ring'[j].exec
                   PROVE  i = j
        OBVIOUS
      <3>1. started \in Nat
        BY <1>0 DEF TypeInv
      <3>2. CASE i \in 1 .. Len(ring) /\ j \in 1 .. Len(ring)
        BY <3>2, <1>0, <1>4 DEF Unique
      <3>3. CASE i \in 1 .. Len(ring) /\ j = Len(ring) + 1
        BY <3>1, <3>3, <2>1, <2>2, <1>5
      <3>4. CASE i = Len(ring) + 1 /\ j \in 1 .. Len(ring)
        BY <3>1, <3>4, <2>1, <2>2, <1>5
      <3>5. CASE i = Len(ring) + 1 /\ j = Len(ring) + 1
        BY <3>5
      <3> QED BY <3>2, <3>3, <3>4, <3>5, <1>4, <1>6
    <2>5. \A d \in Cpus : running'[d] <= started'
      BY <1>0, <1>3, <1>5, <1>7 DEF Unique, TypeInv
    <2>6. \A d, f \in Cpus : running'[d] = running'[f] /\ running'[d] # 0 => d = f
      BY <1>0, <1>3, <1>5, <1>7 DEF Unique, TypeInv
    <2> QED BY <2>3, <2>4, <2>5, <2>6 DEF Unique
  <1>11. Owned'
    <2>1. \A d \in Cpus : running'[d] # 0 =>
            \E i \in 1 .. Len(ring') : ring'[i].exec = running'[d] /\ ~ring'[i].committed
      <3> SUFFICES ASSUME NEW d \in Cpus, running'[d] # 0
                   PROVE  \E i \in 1 .. Len(ring') : ring'[i].exec = running'[d] /\ ~ring'[i].committed
        OBVIOUS
      <3>1. CASE d = c
        BY <3>1, <1>2, <1>3, <1>4, <1>6, <1>7
      <3>2. CASE d # c
        <4>1. running'[d] = running[d]
          BY <3>2, <1>3, <1>7
        <4>2. PICK i \in 1 .. Len(ring) : ring[i].exec = running[d] /\ ~ring[i].committed
          BY <4>1, <1>0 DEF Owned
        <4> QED BY <4>1, <4>2, <1>4, <1>6
      <3> QED BY <3>1, <3>2
    <2>2. \A d \in filled' : running'[d] # 0
      BY <1>0, <1>1, <1>3, <1>7 DEF Owned, TypeInv
    <2> QED BY <2>1, <2>2 DEF Owned
  <1>12. Contents'
    <2>1. \A i \in 1 .. Len(ring') : ArgsOwn(ring'[i])
      BY <1>0, <1>2, <1>4, <1>6 DEF Contents
    <2>2. \A i \in 1 .. Len(ring') : ring'[i].committed => HeaderOwn(ring'[i])
      BY <1>0, <1>2, <1>4, <1>6 DEF Contents
    <2>3. \A d \in filled' : \A i \in 1 .. Len(ring') :
            ring'[i].exec = running'[d] => HeaderOwn(ring'[i])
      <3> SUFFICES ASSUME NEW d \in filled, NEW i \in 1 .. Len(ring'),
                          ring'[i].exec = running'[d]
                   PROVE  HeaderOwn(ring'[i])
        BY <1>3
      <3>1. d \in Cpus /\ running[d] # 0 /\ running[d] <= started
        BY <1>0 DEF Owned, TypeInv, Unique
      <3>2. d # c /\ running'[d] = running[d]
        BY <3>1, <1>3, <1>7
      <3>3. i # Len(ring) + 1
        BY <3>1, <3>2, <1>0, <1>2, <1>4, <1>5, <1>7 DEF TypeInv
      <3>4. i \in 1 .. Len(ring)
        BY <3>3, <1>4, <1>6
      <3> QED BY <3>2, <3>4, <1>0, <1>4 DEF Contents
    <2> QED BY <2>1, <2>2, <2>3, <1>0, <1>3 DEF Contents
  <1> QED BY <1>8, <1>10, <1>11, <1>12 DEF SensorInv

\* A write of the header or of an argument, into the CPU's own record.
LEMMA WriteKeeps ==
  ASSUME SensorInv, NEW c \in Cpus, running[c] # 0,
         NEW x \in Records, x.exec = running[c], ~x.committed, ArgsOwn(x), HeaderOwn(x),
         ring' = [ring EXCEPT ![Mine(c)] = x],
         filled' = filled \cup {c},
         UNCHANGED <<started, running, loop, raw>>
  PROVE  SensorInv'
  <1> DEFINE m == Mine(c)
  <1>0. TypeInv /\ Unique /\ Owned /\ Contents
    BY DEF SensorInv
  <1>1. /\ m \in 1 .. Len(ring) /\ ring[m].exec = running[c]
        /\ \A i \in 1 .. Len(ring) : ring[i].exec = running[c] => i = m
    BY MineIs
  <1>2. ring \in Seq(Records)
    BY <1>0 DEF TypeInv
  <1>3. ring' = [ring EXCEPT ![m] = x]
    OBVIOUS
  <1> HIDE DEF m
  <1>4. /\ ring' \in Seq(Records) /\ Len(ring') = Len(ring)
        /\ \A i \in 1 .. Len(ring) : ring'[i] = IF i = m THEN x ELSE ring[i]
    <2> DEFINE t == [ring EXCEPT ![m] = x]
    <2>1. /\ t \in Seq(Records) /\ Len(t) = Len(ring)
          /\ \A i \in 1 .. Len(ring) : t[i] = IF i = m THEN x ELSE ring[i]
      BY <1>1, <1>2, ExceptSeq
    <2>2. ring' = t
      BY <1>3
    <2> HIDE DEF t
    <2> QED BY <2>1, <2>2
  <1>5. \A i \in 1 .. Len(ring) : ring'[i].exec = ring[i].exec
    BY <1>1, <1>4
  <1>6. TypeInv'
    BY <1>0, <1>4 DEF TypeInv
  <1>7. Unique'
    BY <1>0, <1>4, <1>5 DEF Unique
  <1>8. Owned'
    <2>1. \A d \in Cpus : running[d] # 0 =>
            \E i \in 1 .. Len(ring) : ring'[i].exec = running[d] /\ ~ring'[i].committed
      <3> SUFFICES ASSUME NEW d \in Cpus, running[d] # 0
                   PROVE  \E i \in 1 .. Len(ring) : ring'[i].exec = running[d] /\ ~ring'[i].committed
        OBVIOUS
      <3>1. PICK i \in 1 .. Len(ring) : ring[i].exec = running[d] /\ ~ring[i].committed
        BY <1>0 DEF Owned
      <3> QED BY <3>1, <1>4, <1>5
    <2> QED BY <2>1, <1>0, <1>4 DEF Owned
  <1>9. Contents'
    <2>1. \A i \in 1 .. Len(ring) : ArgsOwn(ring'[i])
      BY <1>0, <1>4 DEF Contents
    <2>2. \A i \in 1 .. Len(ring) : ring'[i].committed => HeaderOwn(ring'[i])
      BY <1>0, <1>4 DEF Contents
    <2>3. \A d \in filled' : \A i \in 1 .. Len(ring) : ring'[i].exec = running[d] => HeaderOwn(ring'[i])
      <3> SUFFICES ASSUME NEW d \in filled', NEW i \in 1 .. Len(ring), ring'[i].exec = running[d]
                   PROVE  HeaderOwn(ring'[i])
        OBVIOUS
      <3>1. CASE i = m
        BY <3>1, <1>4
      <3>2. CASE i # m
        <4>1. ring'[i] = ring[i] /\ d # c
          BY <3>2, <1>1, <1>4
        <4> QED BY <4>1, <1>0 DEF Contents
      <3> QED BY <3>1, <3>2
    <2> QED BY <2>1, <2>2, <2>3, <1>0, <1>4 DEF Contents
  <1> QED BY <1>6, <1>7, <1>8, <1>9 DEF SensorInv

LEMMA ReadHeaderKeeps ==
  ASSUME SensorInv, NEW c \in Cpus, ReadHeader(c) PROVE SensorInv'
  <1> DEFINE m == Mine(c)
  <1>0. running[c] # 0 /\ ring \in Seq(Records) /\ running[c] \in Nat
    BY DEF ReadHeader, SensorInv, TypeInv
  <1>1. /\ m \in 1 .. Len(ring) /\ ring[m].exec = running[c] /\ ~ring[m].committed
    BY <1>0, MineIs
  <1> HIDE DEF m
  <1>2. PICK name \in UserString(running[c], 0), links \in TtyLinks(running[c]) :
          ring' = [ring EXCEPT ![m].filename = name,
                               ![m].tty = CoreReadInto(links, TtyName(running[c]))]
    BY DEF ReadHeader, m
  <1> DEFINE tty == CoreReadInto(links, TtyName(running[c]))
             x == [ring[m] EXCEPT !.filename = name, !.tty = tty]
  <1>3. name \in Strings /\ tty \in Strings
    BY <1>0, UserStringType, CoreReadType
  <1>4. ring' = [ring EXCEPT ![m].filename = name, ![m].tty = tty]
    BY <1>2
  <1> HIDE DEF tty
  <1>5. ring[m] \in Records
    BY <1>0, <1>1
  <1>6. x \in Records /\ x.exec = running[c] /\ ~x.committed /\ x.filename = name /\ x.tty = tty
        /\ x.argc = ring[m].argc /\ x.argv = ring[m].argv
    BY <1>1, <1>3, <1>5 DEF Records
  <1>7. ring' = [ring EXCEPT ![m] = x]
    BY <1>0, <1>1, <1>4, <1>5 DEF Records
  <1> HIDE DEF x
  <1>8. HeaderOwn(x)
    <2>1. tty # Empty => running[c] \notin Ttyless
      BY DEF tty, CoreReadInto, TtyLinks
    <2> QED BY <2>1, <1>6 DEF HeaderOwn
  <1>9. ArgsOwn(x)
    <2>1. ArgsOwn(ring[m])
      BY <1>1 DEF SensorInv, Contents
    <2> QED BY <2>1, <1>1, <1>6 DEF ArgsOwn
  <1>10. filled' = filled \cup {c} /\ UNCHANGED <<started, running, loop, raw>>
    BY DEF ReadHeader, userVars
  <1>11. ring' = [ring EXCEPT ![Mine(c)] = x]
    BY <1>7 DEF m
  <1> QED BY <1>0, <1>6, <1>8, <1>9, <1>10, <1>11, WriteKeeps

LEMMA ReadArgKeeps ==
  ASSUME SensorInv, NEW c \in Cpus, ReadArg(c) PROVE SensorInv'
  <1> DEFINE m == Mine(c)
             i == ring[m].argc + 1
  <1>0. /\ c \in filled /\ running[c] # 0
        /\ ring \in Seq(Records) /\ running[c] \in Nat
    BY DEF ReadArg, SensorInv, TypeInv, Owned
  <1>1. /\ m \in 1 .. Len(ring) /\ ring[m].exec = running[c] /\ ~ring[m].committed
    BY <1>0, MineIs
  <1>2. ring[m] \in Records
    BY <1>0, <1>1
  <1>3. /\ ring[m].argc < MaxArgs
        /\ \E arg \in UserString(running[c], i) :
             ring' = [ring EXCEPT ![m].argv[i] = arg, ![m].argc = i]
    BY DEF ReadArg
  <1>4. PICK arg \in UserString(running[c], i) :
          ring' = [ring EXCEPT ![m].argv[i] = arg, ![m].argc = i]
    BY <1>3
  <1>4a. ring[m].argc \in Nat /\ MaxArgs \in Nat
    BY <1>2, SensorAssumption DEF Records
  <1>5. i = ring[m].argc + 1 /\ i \in 1 .. MaxArgs
    BY <1>3, <1>4a
  <1> HIDE DEF m, i
  <1> DEFINE args == [ring[m].argv EXCEPT ![i] = arg]
             x == [ring[m] EXCEPT !.argv = args, !.argc = i]
  <1>6. arg \in Strings
    BY <1>0, <1>5, UserStringType
  <1>7. args \in [1 .. MaxArgs -> Strings] /\ args[i] = arg
        /\ \A k \in 1 .. MaxArgs : k # i => args[k] = ring[m].argv[k]
    BY <1>2, <1>5, <1>6 DEF Records
  <1>8. ring' = [ring EXCEPT ![m] = x]
    BY <1>0, <1>1, <1>2, <1>4 DEF Records
  <1> HIDE DEF args
  <1>8a. i \in 0 .. MaxArgs /\ args \in [1 .. MaxArgs -> Strings]
    BY <1>4a, <1>5, <1>7
  <1>8b. x \in Records
    BY <1>2, <1>8a DEF Records
  <1>9. x \in Records /\ x.exec = running[c] /\ ~x.committed /\ x.argc = i
        /\ x.argv = args /\ x.filename = ring[m].filename /\ x.tty = ring[m].tty
    BY <1>1, <1>2, <1>8b DEF Records
  <1> HIDE DEF x
  <1>10. HeaderOwn(x)
    BY <1>0, <1>1, <1>9 DEF SensorInv, Contents, HeaderOwn
  <1>11. ArgsOwn(x)
    <2>1. ArgsOwn(ring[m])
      BY <1>1 DEF SensorInv, Contents
    <2> SUFFICES ASSUME NEW k \in 1 .. MaxArgs, k <= i
                 PROVE  args[k] \in UserString(running[c], k)
      BY <1>9 DEF ArgsOwn
    <2>2. CASE k = i
      BY <2>2, <1>7
    <2>3. CASE k # i
      BY <2>1, <2>3, <1>1, <1>4a, <1>5, <1>7 DEF ArgsOwn
    <2> QED BY <2>2, <2>3
  <1>12. filled' = filled \cup {c} /\ UNCHANGED <<started, running, loop, raw>>
    BY <1>0 DEF ReadArg, userVars
  <1>13. ring' = [ring EXCEPT ![Mine(c)] = x]
    BY <1>8 DEF m
  <1> QED BY <1>0, <1>9, <1>10, <1>11, <1>12, <1>13, WriteKeeps

LEMMA SubmitKeeps ==
  ASSUME SensorInv, NEW c \in Cpus, Submit(c) PROVE SensorInv'
  <1> DEFINE m == Mine(c)
             x == [ring[m] EXCEPT !.committed = TRUE]
  <1>0. TypeInv /\ Unique /\ Owned /\ Contents
    BY DEF SensorInv
  <1>1. c \in filled /\ running[c] # 0 /\ ring \in Seq(Records)
    BY <1>0 DEF Submit, TypeInv, Owned
  <1>2. /\ m \in 1 .. Len(ring) /\ ring[m].exec = running[c]
        /\ \A i \in 1 .. Len(ring) : ring[i].exec = running[c] => i = m
    BY <1>1, MineIs
  <1>3. ring' = [ring EXCEPT ![m].committed = TRUE]
    BY DEF Submit
  <1> HIDE DEF m
  <1>4. ring[m] \in Records
    BY <1>1, <1>2
  <1>5. /\ x \in Records /\ x.exec = ring[m].exec /\ x.argc = ring[m].argc
        /\ x.argv = ring[m].argv /\ x.filename = ring[m].filename /\ x.tty = ring[m].tty
    BY <1>4 DEF Records
  <1>6. ring' = [ring EXCEPT ![m] = x]
    BY <1>1, <1>2, <1>3, <1>4 DEF Records
  <1> HIDE DEF x
  <1>7. /\ ring' \in Seq(Records) /\ Len(ring') = Len(ring)
        /\ \A i \in 1 .. Len(ring) : ring'[i] = IF i = m THEN x ELSE ring[i]
    <2> DEFINE t == [ring EXCEPT ![m] = x]
    <2>1. /\ t \in Seq(Records) /\ Len(t) = Len(ring)
          /\ \A i \in 1 .. Len(ring) : t[i] = IF i = m THEN x ELSE ring[i]
      BY <1>1, <1>2, <1>5, ExceptSeq
    <2>2. ring' = t
      BY <1>6
    <2> HIDE DEF t
    <2> QED BY <2>1, <2>2
  <1>8. \A i \in 1 .. Len(ring) : ring'[i].exec = ring[i].exec
    BY <1>5, <1>7
  <1>9. /\ running' = [running EXCEPT ![c] = 0] /\ filled' = filled \ {c}
        /\ UNCHANGED <<started, loop, raw>>
    BY DEF Submit, userVars
  <1>10. running \in [Cpus -> Nat] /\ running' \in [Cpus -> Nat]
    BY <1>0, <1>9 DEF TypeInv
  <1>11. \A d \in Cpus : running'[d] # 0 => d # c /\ running'[d] = running[d]
    BY <1>9, <1>10
  <1>12. TypeInv'
    BY <1>0, <1>7, <1>9, <1>10 DEF TypeInv
  <1>13. Unique'
    <2>1. \A d \in Cpus : running'[d] <= started
      BY <1>0, <1>9, <1>10 DEF Unique, TypeInv
    <2> QED BY <2>1, <1>0, <1>7, <1>8, <1>9, <1>11 DEF Unique
  <1>14. Owned'
    <2>1. ASSUME NEW d \in Cpus, running'[d] # 0
          PROVE  \E i \in 1 .. Len(ring) : ring'[i].exec = running'[d] /\ ~ring'[i].committed
      <3>1. d # c /\ running'[d] = running[d]
        BY <2>1, <1>11
      <3>2. PICK i \in 1 .. Len(ring) : ring[i].exec = running[d] /\ ~ring[i].committed
        BY <2>1, <3>1, <1>0 DEF Owned
      <3>3. i # m
        BY <2>1, <3>1, <3>2, <1>0, <1>2 DEF Unique
      <3> QED BY <3>1, <3>2, <3>3, <1>7
    <2>2. \A d \in filled' : running'[d] # 0
      BY <1>0, <1>9, <1>10 DEF Owned, TypeInv
    <2> QED BY <2>1, <2>2, <1>7 DEF Owned
  <1>15. Contents'
    <2>1. HeaderOwn(x)
      BY <1>0, <1>1, <1>2, <1>5 DEF Contents, HeaderOwn
    <2>2. ArgsOwn(x)
      BY <1>0, <1>2, <1>5 DEF Contents, ArgsOwn
    <2>3. \A i \in 1 .. Len(ring) : ArgsOwn(ring'[i])
      BY <2>2, <1>0, <1>7 DEF Contents
    <2>4. \A i \in 1 .. Len(ring) : ring'[i].committed => HeaderOwn(ring'[i])
      BY <2>1, <1>0, <1>7 DEF Contents
    <2>5. ASSUME NEW d \in filled', NEW i \in 1 .. Len(ring), ring'[i].exec = running'[d]
          PROVE  HeaderOwn(ring'[i])
      <3>1. d \in filled /\ running'[d] = running[d]
        BY <2>5, <1>9, <1>10
      <3>2. CASE i = m
        BY <3>2, <2>1, <1>7
      <3>3. CASE i # m
        BY <3>1, <3>3, <2>5, <1>0, <1>7 DEF Contents
      <3> QED BY <3>2, <3>3
    <2> QED BY <2>3, <2>4, <2>5, <1>0, <1>7, <1>9 DEF Contents
  <1> QED BY <1>12, <1>13, <1>14, <1>15 DEF SensorInv

\* The reader takes the oldest record only when it is submitted: no CPU builds it.
LEMMA ReadRecordKeeps ==
  ASSUME SensorInv, ReadRecord PROVE SensorInv'
  <1>0. TypeInv /\ Unique /\ Owned /\ Contents
    BY DEF SensorInv
  <1>1. ring \in Seq(Records) /\ ring # <<>> /\ Head(ring).committed
    BY <1>0 DEF ReadRecord, TypeInv
  <1>2. /\ raw' = Head(ring) /\ ring' = Tail(ring)
        /\ UNCHANGED <<started, running, filled>>
    BY DEF ReadRecord
  <1>3. /\ Len(ring) \in Nat /\ Len(ring) > 0 /\ Head(ring) = ring[1]
        /\ ring' \in Seq(Records) /\ Len(ring') = Len(ring) - 1
        /\ \A i \in 1 .. Len(ring') : ring'[i] = ring[i + 1]
    BY <1>1, <1>2, HeadTailProperties
  <1>4. 1 \in 1 .. Len(ring) /\ \A i \in 1 .. Len(ring') : i + 1 \in 1 .. Len(ring)
    BY <1>3
  <1>5. TypeInv'
    BY <1>0, <1>1, <1>2, <1>3, <1>4 DEF TypeInv
  <1>6. Unique'
    BY <1>0, <1>2, <1>3, <1>4 DEF Unique
  <1>7. Owned'
    <2>1. ASSUME NEW d \in Cpus, running[d] # 0
          PROVE  \E i \in 1 .. Len(ring') : ring'[i].exec = running[d] /\ ~ring'[i].committed
      <3>1. PICK i \in 1 .. Len(ring) : ring[i].exec = running[d] /\ ~ring[i].committed
        BY <2>1, <1>0 DEF Owned
      <3>2. i # 1
        BY <3>1, <1>1, <1>3
      <3>3. i - 1 \in 1 .. Len(ring') /\ ring'[i - 1] = ring[i]
        BY <3>2, <1>3
      <3> QED BY <3>1, <3>3
    <2> QED BY <2>1, <1>0, <1>2 DEF Owned
  <1>8. Contents'
    <2>1. HeaderOwn(raw') /\ ArgsOwn(raw')
      BY <1>0, <1>1, <1>2, <1>3, <1>4 DEF Contents
    <2> QED BY <2>1, <1>0, <1>2, <1>3, <1>4 DEF Contents
  <1> QED BY <1>5, <1>6, <1>7, <1>8 DEF SensorInv

\* The steps that neither write a record nor read one.
LEMMA OtherKeeps ==
  ASSUME SensorInv, UNCHANGED <<running, filled, ring>>,
         started' \in Nat, started <= started', raw' \in Records,
         loop' = "handling" => loop = "handling" /\ raw' = raw
  PROVE  SensorInv'
  <1>0. TypeInv /\ Unique /\ Owned /\ Contents
    BY DEF SensorInv
  <1>1. TypeInv'
    BY <1>0 DEF TypeInv
  <1>2. Unique'
    <2>1. \A i \in 1 .. Len(ring) : ring[i] \in Records
      BY <1>0 DEF TypeInv
    <2>2. \A i \in 1 .. Len(ring) : ring[i].exec \in Nat
      BY <2>1 DEF Records
    <2>3. \A i \in 1 .. Len(ring) : ring[i].exec <= started'
      BY <2>2, <1>0 DEF Unique, TypeInv
    <2>4. \A c \in Cpus : running[c] <= started'
      BY <1>0 DEF Unique, TypeInv
    <2> QED BY <2>3, <2>4, <1>0 DEF Unique
  <1>3. Owned' /\ Contents'
    BY <1>0 DEF Owned, Contents
  <1> QED BY <1>1, <1>2, <1>3 DEF SensorInv

LEMMA NextKeeps == SensorInv /\ [Next]_vars => SensorInv'
  <1> SUFFICES ASSUME SensorInv, [Next]_vars PROVE SensorInv'
    OBVIOUS
  <1>0. started \in Nat /\ raw \in Records /\ Record(0) \in Records
    BY RecordFresh DEF SensorInv, TypeInv
  <1>1. ASSUME NEW c \in Cpus, Reserve(c) PROVE SensorInv'
    BY <1>1, ReserveKeeps
  <1>2. ASSUME NEW c \in Cpus, ReserveFails(c) PROVE SensorInv'
    BY <1>2, <1>0, OtherKeeps DEF ReserveFails, userVars
  <1>3. ASSUME NEW c \in Cpus, BpfStep(c) PROVE SensorInv'
    BY <1>3, ReadHeaderKeeps, ReadArgKeeps, SubmitKeeps DEF BpfStep
  <1>4. CASE ReadRecord
    BY <1>4, ReadRecordKeeps
  <1>5. CASE OpenReader
    BY <1>5, <1>0, OtherKeeps DEF OpenReader, kernelVars
  <1>6. CASE Handle
    BY <1>6, <1>0, OtherKeeps DEF Handle, kernelVars
  <1>7. CASE ReadClosed
    BY <1>7, <1>0, OtherKeeps DEF ReadClosed, kernelVars
  <1>8. CASE Return
    BY <1>8, <1>0, OtherKeeps DEF Return
  <1>9. CASE Signal
    BY <1>9, <1>0, OtherKeeps DEF Signal, kernelVars
  <1>10. CASE CloseReader
    BY <1>10, <1>0, OtherKeeps DEF CloseReader, kernelVars
  <1>11. CASE UNCHANGED vars
    BY <1>11, <1>0, OtherKeeps DEF vars, kernelVars, userVars
  <1> QED
    BY <1>1, <1>2, <1>3, <1>4, <1>5, <1>6, <1>7, <1>8, <1>9, <1>10, <1>11 DEF Next, LoopStep

-----------------------------------------------------------------------------
LEMMA LineOwn ==
  ASSUME NEW r \in Records, HeaderOwn(r), ArgsOwn(r)
  PROVE  LET line == DecodeEvent(r) IN
         /\ line.executable \in UserString(line.exec, 0)
         /\ \A i \in DOMAIN line.argv :
              line.argv[i] \in UserString(line.exec, i) \cup (IF i = 1 THEN {<<line.exec, 0>>} ELSE {})
         /\ line.argv # <<>> /\ line.executable # Empty => line.argv[1] # Empty
  <1> DEFINE argv == SubSeq(r.argv, 1, r.argc)
             shown == IF argv # <<>> /\ argv[1] = Empty /\ r.filename # Empty
                      THEN [argv EXCEPT ![1] = r.filename] ELSE argv
  <1>1. MaxArgs \in Nat /\ r.argv \in [1 .. MaxArgs -> Strings] /\ r.argc \in 0 .. MaxArgs
    BY SensorAssumption DEF Records
  <1>2. /\ 1 \in Int /\ r.argc \in Int /\ r.argc - 1 + 1 = r.argc
        /\ \A i \in 1 .. r.argc : r.argv[i] \in Strings
    BY <1>1
  <1>3. /\ argv \in Seq(Strings) /\ Len(argv) = r.argc
        /\ \A i \in 1 .. r.argc : argv[i] = r.argv[i]
    <2>1. /\ argv \in Seq(Strings)
          /\ Len(argv) = IF 1 <= r.argc THEN r.argc - 1 + 1 ELSE 0
          /\ \A i \in 1 .. r.argc - 1 + 1 : argv[i] = r.argv[1 + i - 1]
      BY <1>2, SubSeqProperties
    <2> QED BY <2>1, <1>1
  <1>4. \A i \in 1 .. r.argc : argv[i] \in UserString(r.exec, i)
    BY <1>1, <1>3 DEF ArgsOwn
  <1>5. r.filename # Empty => r.filename = <<r.exec, 0>>
    BY DEF HeaderOwn, UserString
  <1>6. DOMAIN argv = 1 .. r.argc /\ DOMAIN shown = 1 .. r.argc
    BY <1>3
  <1> HIDE DEF argv
  <1>7. \A i \in 1 .. r.argc :
          shown[i] \in UserString(r.exec, i) \cup (IF i = 1 THEN {<<r.exec, 0>>} ELSE {})
    BY <1>4, <1>5, <1>6
  <1>8. /\ DecodeEvent(r).exec = r.exec /\ DecodeEvent(r).executable = r.filename
        /\ DecodeEvent(r).argv = shown
    BY DEF DecodeEvent, argv
  \* argv[0] is missing only together with the path.
  <1>9. shown # <<>> /\ r.filename # Empty => shown[1] # Empty
    <2>1. CASE argv = <<>> \/ r.filename = Empty
      BY <2>1
    <2>2. CASE argv # <<>> /\ r.filename # Empty
      <3>1. 1 \in DOMAIN argv
        BY <2>2, <1>1, <1>3, <1>6
      <3> QED BY <2>2, <3>1
    <2> QED BY <2>1, <2>2
  <1> HIDE DEF shown
  <1> QED BY <1>6, <1>7, <1>8, <1>9 DEF HeaderOwn

THEOREM SensorInvariant == Spec => []SensorInv
  <1>1. Init => SensorInv
    BY InitHolds
  <1>2. SensorInv /\ [Next]_vars => SensorInv'
    BY NextKeeps
  <1> QED BY <1>1, <1>2, PTL DEF Spec

\* However many CPUs build records at once, whatever memory holds from before
\* and whichever reads fail, a line is of one exec (execguard.bpf.c 31-57).
THEOREM LinesOwnData == Spec => []OwnDataOnly
  <1>1. SensorInv => OwnDataOnly
    BY LineOwn DEF SensorInv, TypeInv, Contents, OwnDataOnly
  <1> QED BY <1>1, SensorInvariant, PTL

-----------------------------------------------------------------------------
(* The refinement of ExecStream.                                           *)

Execs(r) == [i \in DOMAIN r |-> r[i].exec]

LEMMA ExecsType ==
  ASSUME NEW r \in Seq(Records)
  PROVE  /\ Execs(r) \in Seq(Nat) /\ Len(Execs(r)) = Len(r)
         /\ \A i \in 1 .. Len(r) : Execs(r)[i] = r[i].exec
  <1>1. DOMAIN r = 1 .. Len(r) /\ Len(r) \in Nat
    OBVIOUS
  <1>2. \A i \in 1 .. Len(r) : r[i] \in Records
    OBVIOUS
  <1>3. \A i \in 1 .. Len(r) : r[i].exec \in Nat
    BY <1>2 DEF Records
  <1> QED BY <1>1, <1>3 DEF Execs

LEMMA ExecsAppend ==
  ASSUME NEW r \in Seq(Records), NEW x \in Records
  PROVE  Execs(Append(r, x)) = Append(Execs(r), x.exec)
  <1> DEFINE s == Append(r, x)
             t == Append(Execs(r), x.exec)
  <1>1. /\ Execs(r) \in Seq(Nat) /\ Len(Execs(r)) = Len(r) /\ Len(r) \in Nat
        /\ \A i \in 1 .. Len(r) : Execs(r)[i] = r[i].exec
    BY ExecsType
  <1>2. x.exec \in Nat
    BY DEF Records
  <1>3. /\ s \in Seq(Records) /\ Len(s) = Len(r) + 1
        /\ \A i \in 1 .. Len(r) : s[i] = r[i]
        /\ s[Len(r) + 1] = x
    BY AppendProperties
  <1>4. /\ t \in Seq(Nat) /\ Len(t) = Len(r) + 1
        /\ \A i \in 1 .. Len(r) : t[i] = r[i].exec
        /\ t[Len(r) + 1] = x.exec
    BY <1>1, <1>2, AppendProperties
  <1> HIDE DEF s, t
  <1>5. /\ Execs(s) \in Seq(Nat) /\ Len(Execs(s)) = Len(s)
        /\ \A i \in 1 .. Len(s) : Execs(s)[i] = s[i].exec
    BY <1>3, ExecsType
  <1>6. \A i \in 1 .. Len(Execs(s)) : Execs(s)[i] = t[i]
    <2> SUFFICES ASSUME NEW i \in 1 .. Len(r) + 1 PROVE Execs(s)[i] = t[i]
      BY <1>3, <1>5
    <2>1. CASE i = Len(r) + 1
      BY <2>1, <1>1, <1>3, <1>4, <1>5
    <2>2. CASE i \in 1 .. Len(r)
      BY <2>2, <1>1, <1>3, <1>4, <1>5
    <2> QED BY <2>1, <2>2, <1>1
  <1>7. Execs(s) = t
    BY <1>3, <1>4, <1>5, <1>6, SeqEqual
  <1> QED BY <1>7 DEF s, t

LEMMA ExecsHeadTail ==
  ASSUME NEW r \in Seq(Records), r # <<>>
  PROVE  <<Head(r).exec>> \o Execs(Tail(r)) = Execs(r)
  <1> DEFINE h == <<Head(r).exec>>
             t == Execs(Tail(r))
             s == h \o t
  <1>1. /\ Len(r) \in Nat /\ Len(r) > 0 /\ Head(r) = r[1] /\ Head(r) \in Records
        /\ Tail(r) \in Seq(Records) /\ Len(Tail(r)) = Len(r) - 1
        /\ \A i \in 1 .. Len(Tail(r)) : Tail(r)[i] = r[i + 1]
    BY HeadTailProperties
  <1>2. h \in Seq(Nat) /\ Len(h) = 1 /\ h[1] = r[1].exec
    BY <1>1 DEF Records
  <1>3. /\ t \in Seq(Nat) /\ Len(t) = Len(r) - 1
        /\ \A i \in 1 .. Len(r) - 1 : t[i] = r[i + 1].exec
    <2>1. /\ t \in Seq(Nat) /\ Len(t) = Len(Tail(r))
          /\ \A i \in 1 .. Len(Tail(r)) : t[i] = Tail(r)[i].exec
      BY <1>1, ExecsType
    <2> HIDE DEF t
    <2> QED BY <1>1, <2>1
  <1>4. /\ Execs(r) \in Seq(Nat) /\ Len(Execs(r)) = Len(r)
        /\ \A i \in 1 .. Len(r) : Execs(r)[i] = r[i].exec
    BY ExecsType
  <1> HIDE DEF h, t
  <1>5. /\ s \in Seq(Nat) /\ Len(s) = Len(h) + Len(t)
        /\ \A i \in 1 .. Len(h) + Len(t) : s[i] = IF i <= Len(h) THEN h[i] ELSE t[i - Len(h)]
    BY <1>2, <1>3, ConcatProperties
  <1> HIDE DEF s
  <1>6. Len(s) = Len(r)
    BY <1>1, <1>2, <1>3, <1>5
  <1>7. \A i \in 1 .. Len(s) : s[i] = Execs(r)[i]
    <2> SUFFICES ASSUME NEW i \in 1 .. Len(r) PROVE s[i] = Execs(r)[i]
      BY <1>6
    <2>1. CASE i = 1
      BY <2>1, <1>1, <1>2, <1>3, <1>4, <1>5
    <2>2. CASE i # 1
      <3>1. i - 1 \in 1 .. Len(r) - 1 /\ ~(i <= 1)
        BY <2>2, <1>1
      <3>2. s[i] = t[i - 1]
        BY <3>1, <1>2, <1>5, <1>6
      <3>3. t[i - 1] = r[(i - 1) + 1].exec
        BY <3>1, <1>3
      <3>4. (i - 1) + 1 = i
        BY <1>1
      <3> QED BY <3>2, <3>3, <3>4, <1>4
    <2> QED BY <2>1, <2>2
  <1>8. s = Execs(r)
    BY <1>4, <1>5, <1>6, <1>7, SeqEqual
  <1> QED BY <1>8 DEF s, h, t

LEMMA PendingIs ==
  Pending = IF loop = "handling" THEN <<raw.exec>> \o Execs(ring) ELSE Execs(ring)
  BY DEF Pending, Execs

\* Each record of the ring is of a pending exec: a full ring means Capacity of
\* them, or one more in main's hands.
LEMMA PendingCoversRing ==
  ASSUME ring \in Seq(Records), raw \in Records
  PROVE  Len(Pending) >= Len(ring)
  <1> DEFINE h == <<raw.exec>>
             w == Execs(ring)
  <1>1. w \in Seq(Nat) /\ Len(w) = Len(ring) /\ Len(ring) \in Nat
    BY ExecsType
  <1>2. h \in Seq(Nat) /\ Len(h) = 1
    BY DEF Records
  <1>3. Pending = IF loop = "handling" THEN h \o w ELSE w
    BY PendingIs
  <1> HIDE DEF h, w
  <1>4. Len(h \o w) = Len(h) + Len(w)
    BY <1>1, <1>2, ConcatProperties
  <1> QED BY <1>1, <1>2, <1>3, <1>4

\* While the program can be attached, main has not returned.
Detached == loop = "returned" => ~attached

LEMMA InitStream == Init => Stream!Init /\ Detached
  <1> SUFFICES ASSUME Init PROVE Stream!Init /\ Detached
    OBVIOUS
  <1>1. Execs(ring) = <<>>
    BY DEF Init, Execs
  <1>2. Pending = <<>>
    BY <1>1, PendingIs DEF Init
  <1> QED BY <1>2 DEF Init, Stream!Init, Detached

LEMMA DetachedKept == Detached /\ [Next]_vars => Detached'
  <1> SUFFICES ASSUME Detached, [Next]_vars PROVE Detached'
    OBVIOUS
  <1>1. ASSUME NEW c \in Cpus, Reserve(c) \/ ReserveFails(c) \/ BpfStep(c) PROVE Detached'
    BY <1>1 DEF Detached, Reserve, ReserveFails, BpfStep, ReadHeader, ReadArg, Submit, userVars
  <1>2. CASE LoopStep
    BY <1>2 DEF Detached, LoopStep, OpenReader, ReadRecord, Handle, ReadClosed, Return, kernelVars
  <1>3. CASE Signal \/ CloseReader \/ UNCHANGED vars
    BY <1>3 DEF Detached, Signal, CloseReader, vars, kernelVars, userVars
  <1> QED BY <1>1, <1>2, <1>3 DEF Next

LEMMA ReserveRefines ==
  ASSUME SensorInv, Detached, NEW c \in Cpus, Reserve(c) \/ ReserveFails(c)
  PROVE  Stream!Accept \/ Stream!Lose
  <1>0. /\ ring \in Seq(Records) /\ started \in Nat /\ raw \in Records
        /\ loop # "returned" /\ started < MaxExecs /\ started' = started + 1
        /\ loop' = loop /\ raw' = raw /\ ttyOnly' = ttyOnly /\ lines' = lines
    BY DEF SensorInv, TypeInv, Detached, Reserve, ReserveFails, userVars
  <1>1. \/ Pending' = Pending /\ Len(Pending) >= Capacity
        \/ Pending' = Append(Pending, started + 1)
    <2>1. CASE ReserveFails(c)
      <3>1. Pending' = Pending /\ Len(ring) = Capacity
        BY <2>1, <1>0 DEF Pending, ReserveFails
      <3>2. Len(Pending) >= Len(ring)
        BY <1>0, PendingCoversRing
      <3> QED BY <3>1, <3>2
    <2>2. CASE Reserve(c)
      <3> DEFINE e == started + 1
      <3>1. e \in Nat /\ ring' = Append(ring, Record(e))
        BY <2>2, <1>0 DEF Reserve
      <3> HIDE DEF e
      <3>2. Record(e) \in Records /\ Record(e).exec = e
        BY <3>1, RecordFresh
      <3>3. Execs(ring') = Append(Execs(ring), e)
        BY <1>0, <3>1, <3>2, ExecsAppend
      <3>4. Execs(ring) \in Seq(Nat)
        BY <1>0, ExecsType
      <3>5. Pending' = IF loop = "handling" THEN <<raw.exec>> \o Execs(ring') ELSE Execs(ring')
        BY <1>0 DEF Pending, Execs
      <3>6. raw.exec \in Nat
        BY <1>0 DEF Records
      <3>7. <<raw.exec>> \o Append(Execs(ring), e) = Append(<<raw.exec>> \o Execs(ring), e)
        <4> DEFINE h == <<raw.exec>>
                   x == Execs(ring)
        <4>1. h \in Seq(Nat) /\ x \in Seq(Nat) /\ <<e>> \in Seq(Nat)
          BY <3>1, <3>4, <3>6
        <4> HIDE DEF h, x
        <4>2. h \o x \in Seq(Nat)
          BY <4>1, ConcatProperties
        <4>3. Append(x, e) = x \o <<e>> /\ Append(h \o x, e) = (h \o x) \o <<e>>
          BY <3>1, <4>1, <4>2, AppendIsConcat
        <4>4. (h \o x) \o <<e>> = h \o (x \o <<e>>)
          BY <4>1, ConcatAssociative
        <4>5. h \o Append(x, e) = Append(h \o x, e)
          BY <4>3, <4>4
        <4> QED BY <4>5 DEF h, x
      <3>8. Pending' = Append(Pending, e)
        BY <3>3, <3>5, <3>7, PendingIs
      <3> QED BY <3>8 DEF e
    <2> QED BY <2>1, <2>2
  <1> QED BY <1>0, <1>1 DEF Stream!Exec, Stream!Accept, Stream!Lose

LEMMA BpfRefines ==
  ASSUME SensorInv, NEW c \in Cpus, BpfStep(c) PROVE UNCHANGED Stream!vars
  <1>1. /\ running[c] # 0 /\ ring \in Seq(Records)
        /\ UNCHANGED <<ttyOnly, started, loop, raw, lines>>
    BY DEF SensorInv, TypeInv, Owned, BpfStep, ReadHeader, ReadArg, Submit, userVars
  <1>2. Mine(c) \in 1 .. Len(ring)
    BY <1>1, MineIs
  <1>3. DOMAIN ring = 1 .. Len(ring) /\ ring[Mine(c)] \in Records
    BY <1>1, <1>2
  <1>4. DOMAIN ring' = DOMAIN ring /\ \A i \in DOMAIN ring : ring'[i].exec = ring[i].exec
    <2>1. CASE ReadHeader(c)
      BY <2>1, <1>2, <1>3 DEF ReadHeader, Records
    <2>2. CASE ReadArg(c)
      BY <2>2, <1>2, <1>3 DEF ReadArg, Records
    <2>3. CASE Submit(c)
      BY <2>3, <1>2, <1>3 DEF Submit, Records
    <2> QED BY <2>1, <2>2, <2>3 DEF BpfStep
  <1>5. Execs(ring') = Execs(ring)
    BY <1>4 DEF Execs
  <1>6. Pending' = IF loop' = "handling" THEN <<raw'.exec>> \o Execs(ring') ELSE Execs(ring')
    BY DEF Pending, Execs
  <1>7. Pending' = Pending
    BY <1>1, <1>5, <1>6, PendingIs
  <1> QED BY <1>1, <1>7 DEF Stream!vars

LEMMA ReadRefines == ASSUME SensorInv, ReadRecord PROVE UNCHANGED Stream!vars
  <1>1. /\ ring \in Seq(Records) /\ ring # <<>> /\ loop = "reading" /\ loop' = "handling"
        /\ raw' = Head(ring) /\ ring' = Tail(ring)
        /\ UNCHANGED <<ttyOnly, started, lines>>
    BY DEF SensorInv, TypeInv, ReadRecord
  <1>2. Pending' = <<Head(ring).exec>> \o Execs(Tail(ring))
    BY <1>1 DEF Pending, Execs
  <1>3. Pending' = Pending
    BY <1>1, <1>2, ExecsHeadTail, PendingIs
  <1> QED BY <1>1, <1>3 DEF Stream!vars

\* Filters look at the header, which is the exec's own.
LEMMA HandleRefines == ASSUME SensorInv, Handle PROVE Stream!Handle
  <1>1. /\ ring \in Seq(Records) /\ raw \in Records /\ HeaderOwn(raw)
        /\ loop = "handling" /\ loop' = "reading" /\ ring' = ring
        /\ ttyOnly' = ttyOnly /\ started' = started
    BY DEF SensorInv, TypeInv, Contents, Handle, kernelVars
  <1> DEFINE w == Execs(ring)
             e == raw.exec
  <1>2. w \in Seq(Nat) /\ e \in Nat
    BY <1>1, ExecsType DEF Records
  <1>3. Pending = <<e>> \o w /\ Pending' = w
    BY <1>1, PendingIs DEF Pending, Execs
  <1>4. /\ DecodeEvent(raw).exec = e /\ DecodeEvent(raw).executable = raw.filename
    BY DEF DecodeEvent
  <1> HIDE DEF w, e
  <1>5. Pending # <<>> /\ Head(Pending) = e /\ Tail(Pending) = w
    <2> DEFINE h == <<e>>
               p == h \o w
    <2>1. h \in Seq(Nat) /\ Len(h) = 1 /\ h[1] = e
      BY <1>2
    <2> HIDE DEF h
    <2>2. /\ p \in Seq(Nat) /\ Len(p) = 1 + Len(w) /\ Len(w) \in Nat
          /\ \A i \in 1 .. 1 + Len(w) : p[i] = IF i <= 1 THEN h[i] ELSE w[i - 1]
      <3>1. /\ p \in Seq(Nat) /\ Len(p) = Len(h) + Len(w)
            /\ \A i \in 1 .. Len(h) + Len(w) : p[i] = IF i <= Len(h) THEN h[i] ELSE w[i - Len(h)]
        BY <1>2, <2>1, ConcatProperties
      <3>2. Len(w) \in Nat
        BY <1>2
      <3> HIDE DEF p
      <3> QED BY <2>1, <3>1, <3>2
    <2>3. Pending = p
      BY <1>3 DEF h
    <2> HIDE DEF p
    <2>4. p # <<>> /\ Head(p) = e
      BY <2>1, <2>2
    <2>5. /\ Tail(p) \in Seq(Nat) /\ Len(Tail(p)) = Len(w)
          /\ \A i \in 1 .. Len(w) : Tail(p)[i] = p[i + 1]
      BY <2>2, <2>4, HeadTailProperties
    <2>6. \A i \in 1 .. Len(w) : Tail(p)[i] = w[i]
      <3> SUFFICES ASSUME NEW i \in 1 .. Len(w) PROVE Tail(p)[i] = w[i]
        OBVIOUS
      <3>1. i + 1 \in 1 .. 1 + Len(w) /\ ~(i + 1 <= 1) /\ (i + 1) - 1 = i
        BY <2>2
      <3> QED BY <3>1, <2>2, <2>5
    <2>7. Tail(p) = w
      BY <1>2, <2>5, <2>6, SeqEqual
    <2> QED BY <2>3, <2>4, <2>7
  <1> DEFINE out == IsExcluded(raw.filename) \/ (ttyOnly /\ raw.tty = Empty)
  <1>6. lines' = IF out THEN lines ELSE Append(lines, e)
    BY <1>4 DEF Handle
  <1>7. IsExcluded(raw.filename) => e \in Excluded
    <2>1. raw.filename # Empty => raw.filename = <<e, 0>>
      BY <1>1 DEF HeaderOwn, UserString, e
    <2> QED BY <2>1 DEF IsExcluded
  <1>8. ttyOnly /\ ~out => e \notin Ttyless
    BY <1>1 DEF HeaderOwn, e
  <1>9. CASE out
    BY <1>9, <1>1, <1>3, <1>5, <1>6, <1>7 DEF Stream!Handle, Stream!Filter
  <1>10. CASE ~out
    BY <1>10, <1>1, <1>3, <1>5, <1>6, <1>8 DEF Stream!Handle, Stream!Report
  <1> QED BY <1>9, <1>10

LEMMA NextRefines ==
  SensorInv /\ Detached /\ [Next]_vars => [Stream!Next]_(Stream!vars)
  <1> SUFFICES ASSUME SensorInv, Detached, [Next]_vars PROVE [Stream!Next]_(Stream!vars)
    OBVIOUS
  <1>1. ASSUME NEW c \in Cpus, Reserve(c) \/ ReserveFails(c) PROVE Stream!Next
    BY <1>1, ReserveRefines DEF Stream!Next
  <1>2. ASSUME NEW c \in Cpus, BpfStep(c) PROVE UNCHANGED Stream!vars
    BY <1>2, BpfRefines
  <1>3. CASE ReadRecord
    BY <1>3, ReadRefines
  <1>4. CASE Handle
    BY <1>4, HandleRefines DEF Stream!Next
  <1>5. CASE Return
    BY <1>5 DEF Return, Pending, Stream!Next, Stream!Stop
  <1>6. CASE OpenReader \/ ReadClosed
    BY <1>6 DEF OpenReader, ReadClosed, Pending, kernelVars, Stream!vars
  <1>7. CASE Signal \/ CloseReader \/ UNCHANGED vars
    BY <1>7 DEF Signal, CloseReader, Pending, vars, kernelVars, userVars, Stream!vars
  <1> QED BY <1>1, <1>2, <1>3, <1>4, <1>5, <1>6, <1>7 DEF Next, LoopStep

\* CPUs, ring memory and a close at any time add no behaviour to a stream of
\* execs that loses one only for want of room: each step is a step of it or
\* leaves it alone (execguard.bpf.c 31-33, main.go 67-95).
THEOREM RefinesExecStream == Spec => Stream!Init /\ [][Stream!Next]_(Stream!vars)
  <1>1. Init => Stream!Init /\ Detached
    BY InitStream
  <1>2. Detached /\ [Next]_vars => Detached'
    BY DetachedKept
  <1>3. SensorInv /\ Detached /\ [Next]_vars => [Stream!Next]_(Stream!vars)
    BY NextRefines
  <1> QED BY <1>1, <1>2, <1>3, SensorInvariant, PTL DEF Spec
=============================================================================
