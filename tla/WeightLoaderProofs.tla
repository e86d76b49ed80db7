------------------------- MODULE WeightLoaderProofs --------------------------
(***************************************************************************)
(* Theorems about WeightLoader, for every number of files and threads, and *)
(* every order in which the readers end.                                   *)
(***************************************************************************)
EXTENDS WeightLoader, SequenceTheorems, TLAPS

-----------------------------------------------------------------------------
(* The window of files in flight.                                          *)

LEMMA ParallelismIs ==
  ASSUME config \in Configs
  PROVE  LoadParallelism \in Nat \ {0}
<1>1. /\ \A n, m \in Int : AtLeast(n, m) \in Int /\ AtLeast(n, m) >= n
                           /\ AtLeast(n, m) >= m
      /\ \A n, m \in Nat \ {0} : AtMost(n, m) \in Nat \ {0}
  BY DEF AtLeast, AtMost
<1>2. config.size \in Nat \ {0}
  BY ConfigsAssumption
<1>3. /\ AtLeast(1, config.size * 24) \in Nat \ {0}
      /\ AtLeast(1, config.size) \in Nat \ {0}
  BY <1>2 DEF AtLeast
<1>4. ASSUME NEW n \in Nat, NEW m \in Nat \ {0}
      PROVE  AtLeast(1, n \div m) \in Nat \ {0}
  BY DEF AtLeast
<1>5. /\ AtLeast(1, HwThreads \div AtLeast(1, config.size * 24)) \in Nat \ {0}
      /\ AtLeast(1, MemoryShards \div AtLeast(1, config.size)) \in Nat \ {0}
  BY <1>3, <1>4, FilesAssumption
<1>6. CASE NumFiles <= 1
  BY <1>6 DEF LoadParallelism
<1>7. CASE ~(NumFiles <= 1) /\ EnvParallelism > 0
  BY <1>1, <1>7, FilesAssumption DEF LoadParallelism
<1>8. CASE ~(NumFiles <= 1) /\ ~(EnvParallelism > 0)
  <2> DEFINE cpu == AtLeast(1, HwThreads \div AtLeast(1, config.size * 24))
             memory == IF MemoryShards = 0 THEN NumFiles
                       ELSE AtLeast(1, MemoryShards \div AtLeast(1, config.size))
  <2>1. cpu \in Nat \ {0} /\ memory \in Nat \ {0}
    BY <1>5, FilesAssumption
  <2>2. LoadParallelism = AtLeast(1, AtMost(NumFiles, AtMost(cpu, memory)))
    BY <1>8 DEF LoadParallelism
  <2> HIDE DEF cpu, memory
  <2>3. AtMost(NumFiles, AtMost(cpu, memory)) \in Nat \ {0}
    BY <1>1, <2>1, FilesAssumption
  <2> QED BY <2>2, <2>3 DEF AtLeast
<1> QED BY <1>6, <1>7, <1>8

\* The files in flight are a window that ends before nextFile; those before it
\* have been read and copied, those after it have no reader.  The window is
\* empty only when no file is left, and then loading is over.
Window ==
  /\ config \in Configs /\ rank \in 0 .. config.size - 1
  /\ nextFile \in 1 .. NumFiles + 1
  /\ inFlight \in Seq(Int) /\ Len(inFlight) < nextFile
  /\ \A i \in 1 .. Len(inFlight) : inFlight[i] = nextFile - Len(inFlight) + i - 1
  /\ reader \in [Files -> {"none", "reading", "read", "threw"}]
  /\ \A f \in Files : f < nextFile - Len(inFlight) => reader[f] = "read"
  /\ \A f \in Files : reader[f] = "none" <=> f >= nextFile
  /\ DOMAIN params = ParamNames(config)
  /\ outcome \in {"loading", "unwinding", "loaded", "failed"}
  /\ outcome = "loaded" <=> inFlight = <<>>
  /\ inFlight = <<>> => nextFile = NumFiles + 1
  /\ outcome = "failed" => \A f \in Files : reader[f] # "reading"

\* what is started when the first file leaves the window or none is there yet
LEMMA StartedIs ==
  ASSUME Window, NEW held \in Nat
  PROVE  /\ Started(held) \in Seq(Int)
         /\ Len(Started(held)) <= NumFiles - nextFile + 1
         /\ \A i \in 1 .. Len(Started(held)) : Started(held)[i] = nextFile + i - 1
         /\ held = 0 /\ Started(held) = <<>> => nextFile = NumFiles + 1
<1> DEFINE n == AtMost(NumFiles - nextFile + 1, LoadParallelism - held)
<1>1. /\ LoadParallelism \in Nat \ {0} /\ NumFiles \in Nat
      /\ nextFile \in Nat /\ nextFile <= NumFiles + 1
  BY ParallelismIs, FilesAssumption DEF Window
<1>2. n \in Int /\ n <= NumFiles - nextFile + 1 /\ (held = 0 /\ n <= 0 => nextFile = NumFiles + 1)
  BY <1>1 DEF AtMost
<1>3. Started(held) = [i \in 1 .. n |-> nextFile + i - 1]
  BY DEF Started
<1> HIDE DEF n
<1>4. CASE n >= 0
  <2>1. /\ Started(held) \in Seq(Int) /\ Len(Started(held)) = n
        /\ \A i \in 1 .. n : Started(held)[i] = nextFile + i - 1
    BY <1>1, <1>2, <1>3, <1>4
  <2>2. Started(held) = <<>> => n = 0
    BY <2>1
  <2> QED BY <1>2, <2>1, <2>2
<1>5. CASE n < 0
  <2>1. 1 .. n = {}
    BY <1>2, <1>5
  <2>2. Started(held) = <<>>
    BY <1>3, <2>1
  <2>3. n <= 0
    BY <1>2, <1>5
  <2> QED BY <1>1, <1>2, <2>2, <2>3
<1> QED BY <1>2, <1>4, <1>5

LEMMA WindowInit == Init => Window
<1> SUFFICES ASSUME Init  PROVE Window
  OBVIOUS
<1> DEFINE n == AtMost(NumFiles, LoadParallelism)
<1>1. config \in Configs /\ rank \in 0 .. config.size - 1 /\ NumFiles \in Nat \ {0}
  BY FilesAssumption DEF Init
<1>2. n \in Nat \ {0} /\ n <= NumFiles
  BY <1>1, ParallelismIs DEF AtMost
<1>3. inFlight = [i \in 1 .. n |-> i] /\ nextFile = Len(inFlight) + 1
  BY DEF Init
<1> HIDE DEF n
<1>4. inFlight \in Seq(Int) /\ Len(inFlight) = n /\ \A i \in 1 .. n : inFlight[i] = i
  BY <1>2, <1>3
<1>5. nextFile = n + 1 /\ inFlight # <<>>
  BY <1>2, <1>3, <1>4
<1>6. reader = [f \in Files |-> IF f < nextFile THEN "reading" ELSE "none"]
      /\ DOMAIN params = ParamNames(config) /\ outcome = "loading"
  BY DEF Init
<1>7. nextFile \in 1 .. NumFiles + 1 /\ Len(inFlight) < nextFile
  BY <1>1, <1>2, <1>4, <1>5
<1>8. \A i \in 1 .. Len(inFlight) : inFlight[i] = nextFile - Len(inFlight) + i - 1
  BY <1>2, <1>4, <1>5
<1>9. /\ reader \in [Files -> {"none", "reading", "read", "threw"}]
      /\ \A f \in Files : reader[f] = "none" <=> f >= nextFile
  BY <1>2, <1>5, <1>6 DEF Files
<1>10. \A f \in Files : ~(f < nextFile - Len(inFlight))
  BY <1>2, <1>4, <1>5 DEF Files
<1> QED BY <1>1, <1>4, <1>5, <1>6, <1>7, <1>8, <1>9, <1>10 DEF Window

LEMMA ReadKeeps ==
  ASSUME Window, NEW f \in Files, Read(f)
  PROVE  Window'
<1>1. /\ reader[f] = "reading"
      /\ reader' = [reader EXCEPT ![f] = "read"] \/ reader' = [reader EXCEPT ![f] = "threw"]
      /\ UNCHANGED <<config, rank, layout, nextFile, inFlight, params, outcome>>
  BY DEF Read
<1>2. /\ reader' \in [Files -> {"none", "reading", "read", "threw"}]
      /\ \A g \in Files : g # f => reader'[g] = reader[g]
      /\ reader'[f] \in {"read", "threw"}
  BY <1>1 DEF Window
<1>3. /\ \A g \in Files : g < nextFile - Len(inFlight) => reader'[g] = "read"
      /\ \A g \in Files : reader'[g] = "none" <=> g >= nextFile
      /\ outcome # "failed"
  BY <1>1, <1>2 DEF Window
<1> QED BY <1>1, <1>2, <1>3 DEF Window

LEMMA TakeFrontKeeps ==
  ASSUME Window, TakeFront
  PROVE  Window'
<1> DEFINE n == Len(inFlight)
           s == Started(n - 1)
           k == Len(s)
           q == Tail(inFlight)
<1>1. /\ inFlight \in Seq(Int) /\ inFlight # <<>> /\ n \in Nat \ {0}
      /\ nextFile \in Nat /\ n < nextFile /\ NumFiles \in Nat
      /\ outcome = "loading" /\ reader[Head(inFlight)] = "read"
  BY FilesAssumption DEF TakeFront, Window
<1>2. /\ q \in Seq(Int) /\ Len(q) = n - 1 /\ Head(inFlight) = inFlight[1]
      /\ \A i \in 1 .. n - 1 : q[i] = inFlight[i + 1]
  BY <1>1
<1>3. /\ s \in Seq(Int) /\ k \in Nat /\ k <= NumFiles - nextFile + 1
      /\ \A i \in 1 .. k : s[i] = nextFile + i - 1
      /\ n - 1 = 0 /\ s = <<>> => nextFile = NumFiles + 1
  <2>1. n - 1 \in Nat
    BY <1>1
  <2> HIDE DEF n
  <2>2. /\ s \in Seq(Int) /\ k <= NumFiles - nextFile + 1
        /\ \A i \in 1 .. k : s[i] = nextFile + i - 1
        /\ n - 1 = 0 /\ s = <<>> => nextFile = NumFiles + 1
    BY <2>1, StartedIs
  <2> QED BY <2>2
<1>4. /\ inFlight' = q \o s /\ nextFile' = nextFile + k
      /\ reader' = [f \in Files |-> IF f \in ToSet(s) THEN "reading" ELSE reader[f]]
      /\ outcome' = (IF inFlight' = <<>> THEN "loaded" ELSE outcome)
      /\ UNCHANGED <<config, rank, layout>>
      /\ DOMAIN params' = DOMAIN params
  BY DEF TakeFront, CopyShard
<1>5. \A i \in 1 .. n : inFlight[i] = nextFile - n + i - 1
  BY DEF Window
<1> HIDE DEF n, s, k, q
<1>6. \A f \in Files : f \in ToSet(s) <=> f >= nextFile /\ f < nextFile + k
  <2>1. ToSet(s) = {s[i] : i \in 1 .. k}
    BY <1>3 DEF ToSet, k
  <2>2. ASSUME NEW f \in Files, f >= nextFile, f < nextFile + k
        PROVE  f \in ToSet(s)
    <3>1. f - nextFile + 1 \in 1 .. k /\ nextFile + (f - nextFile + 1) - 1 = f
      BY <1>1, <1>3, <2>2 DEF Files
    <3>2. s[f - nextFile + 1] = f
      BY <1>3, <3>1
    <3> QED BY <2>1, <3>1, <3>2
  <2>3. ASSUME NEW f \in Files, f \in ToSet(s)
        PROVE  f >= nextFile /\ f < nextFile + k
    <3>1. PICK i \in 1 .. k : f = s[i]
      BY <2>1, <2>3
    <3> QED BY <1>1, <1>3, <3>1 DEF Files
  <2> QED BY <2>2, <2>3
<1>7. /\ inFlight' \in Seq(Int) /\ Len(inFlight') = n - 1 + k
      /\ \A i \in 1 .. n - 1 + k : inFlight'[i] = IF i <= n - 1 THEN q[i] ELSE s[i - (n - 1)]
  <2>1. k = Len(s)
    BY DEF k
  <2>2. Len(inFlight') = Len(q) + Len(s)
        /\ \A i \in 1 .. Len(q) + Len(s) :
             inFlight'[i] = IF i <= Len(q) THEN q[i] ELSE s[i - Len(q)]
    BY <1>2, <1>3, <1>4, ConcatProperties
  <2>3. inFlight' \in Seq(Int)
    BY <1>2, <1>3, <1>4
  <2>4. Len(q) = n - 1 /\ Len(q) + Len(s) = n - 1 + k
    BY <1>2, <2>1
  <2> QED BY <2>2, <2>3, <2>4
<1>8. /\ nextFile' \in 1 .. NumFiles + 1 /\ Len(inFlight') < nextFile'
  <2>1. nextFile + k \in 1 .. NumFiles + 1 /\ n - 1 + k < nextFile + k
    BY <1>1, <1>3
  <2> QED BY <1>4, <1>7, <2>1
<1>9. \A i \in 1 .. Len(inFlight') : inFlight'[i] = nextFile' - Len(inFlight') + i - 1
  <2> SUFFICES ASSUME NEW i \in 1 .. n - 1 + k
               PROVE  inFlight'[i] = (nextFile + k) - (n - 1 + k) + i - 1
    BY <1>4, <1>7, Zenon
  <2>1. CASE i <= n - 1
    <3>1. i \in 1 .. n - 1 /\ i + 1 \in 1 .. n
      BY <1>1, <1>3, <2>1
    <3>2. inFlight'[i] = nextFile - n + (i + 1) - 1
      BY <1>2, <1>5, <1>7, <2>1, <3>1
    <3> QED BY <1>1, <1>3, <3>2
  <2>2. CASE ~(i <= n - 1)
    <3>1. i - (n - 1) \in 1 .. k
      BY <1>1, <1>3, <2>2
    <3>2. inFlight'[i] = nextFile + (i - (n - 1)) - 1
      BY <1>3, <1>7, <2>2, <3>1
    <3> QED BY <1>1, <1>3, <3>2
  <2> QED BY <2>1, <2>2
<1>10. reader \in [Files -> {"none", "reading", "read", "threw"}]
       /\ \A f \in Files : f < nextFile - n => reader[f] = "read"
  BY DEF Window, n
<1>17. \A f \in Files : reader[f] = "none" <=> f >= nextFile
  BY DEF Window
<1>11. reader' \in [Files -> {"none", "reading", "read", "threw"}]
  BY <1>4, <1>10
<1>12. \A f \in Files : reader'[f] = "none" <=> f >= nextFile'
  <2> SUFFICES ASSUME NEW f \in Files
               PROVE  reader'[f] = "none" <=> f >= nextFile + k
    BY <1>4, Zenon
  <2>1. f \in Int
    BY DEF Files
  <2>2. CASE f \in ToSet(s)
    BY <1>1, <1>3, <1>4, <1>6, <2>1, <2>2
  <2>3. CASE f \notin ToSet(s)
    <3>1. reader'[f] = reader[f]
      BY <1>4, <2>3
    <3>3. reader[f] = "none" <=> f >= nextFile
      BY <1>17
    <3>2. ~(f >= nextFile /\ f < nextFile + k)
      BY <1>6, <2>3
    <3> QED BY <1>1, <1>3, <2>1, <3>1, <3>2, <3>3
  <2> QED BY <2>2, <2>3
<1>13. ASSUME NEW f \in Files, f < nextFile' - Len(inFlight')
       PROVE  reader'[f] = "read"
  <2>1. f < nextFile - n + 1 /\ f < nextFile /\ f \in Int
    <3>1. f \in Int /\ f < (nextFile + k) - (n - 1 + k)
      BY <1>4, <1>7, <1>13 DEF Files
    <3> QED BY <1>1, <1>3, <3>1
  <2>2. reader'[f] = reader[f]
    BY <1>1, <1>3, <1>4, <1>6, <2>1
  <2>3. CASE f = nextFile - n
    <3>1. Head(inFlight) = nextFile - n
      BY <1>1, <1>2, <1>5
    <3> QED BY <1>1, <2>2, <2>3, <3>1
  <2>4. CASE f < nextFile - n
    BY <1>10, <2>2, <2>4
  <2> QED BY <1>1, <2>1, <2>3, <2>4
<1>14. inFlight' = <<>> => nextFile' = NumFiles + 1
  <2>1. inFlight' = <<>> => n - 1 = 0 /\ k = 0
    BY <1>1, <1>3, <1>7
  <2>2. k = 0 => s = <<>>
    BY <1>3 DEF k
  <2> QED BY <1>1, <1>3, <1>4, <2>1, <2>2
<1>15. /\ outcome' \in {"loading", "unwinding", "loaded", "failed"} /\ outcome' # "failed"
       /\ outcome' = "loaded" <=> inFlight' = <<>>
  BY <1>1, <1>4
<1>16. config' \in Configs /\ rank' \in 0 .. config'.size - 1
       /\ DOMAIN params' = ParamNames(config')
  BY <1>4 DEF Window, ParamNames
<1> QED BY <1>7, <1>8, <1>9, <1>11, <1>12, <1>13, <1>14, <1>15, <1>16 DEF Window

LEMMA WindowNext ==
  ASSUME Window, [Next]_vars
  PROVE  Window'
<1>1. ASSUME NEW f \in Files, Read(f)  PROVE Window'
  BY <1>1, ReadKeeps
<1>2. CASE TakeFront
  BY <1>2, TakeFrontKeeps
<1>3. CASE TakeThrows
  <2>1. outcome' = "unwinding" /\ inFlight # <<>>
        /\ UNCHANGED <<config, rank, layout, nextFile, inFlight, reader, params>>
    BY <1>3 DEF TakeThrows
  <2> QED BY <2>1 DEF Window
<1>4. CASE Unwind
  <2>1. /\ outcome = "unwinding" /\ outcome' = "failed"
        /\ \A f \in ToSet(inFlight) : reader[f] # "reading"
        /\ UNCHANGED <<config, rank, layout, nextFile, inFlight, reader, params>>
    BY <1>4 DEF Unwind
  <2>2. ASSUME NEW f \in Files  PROVE reader[f] # "reading"
    <3> DEFINE n == Len(inFlight)
    <3>1. /\ inFlight \in Seq(Int) /\ n \in Nat /\ nextFile \in Nat /\ f \in Int
          /\ \A i \in 1 .. n : inFlight[i] = nextFile - n + i - 1
          /\ f < nextFile - n => reader[f] = "read"
          /\ f >= nextFile => reader[f] = "none"
      BY DEF Window, Files
    <3>2. ToSet(inFlight) = {inFlight[i] : i \in 1 .. n}
      BY <3>1 DEF ToSet
    <3> HIDE DEF n
    <3>3. CASE f >= nextFile - n /\ f < nextFile
      <4>1. f - (nextFile - n) + 1 \in 1 .. n
        BY <3>1, <3>3
      <4>2. inFlight[f - (nextFile - n) + 1] = f
        BY <3>1, <4>1
      <4>3. f \in ToSet(inFlight)
        BY <3>2, <4>1, <4>2
      <4> QED BY <2>1, <4>3
    <3> QED BY <3>1, <3>3
  <2> QED BY <2>1, <2>2 DEF Window
<1>5. CASE UNCHANGED vars
  BY <1>5 DEF vars, Window
<1> QED BY <1>1, <1>2, <1>3, <1>4, <1>5 DEF Next

LEMMA WindowAlways == Spec => []Window
<1>1. Window /\ [Next]_vars => Window'
  BY WindowNext
<1> QED BY WindowInit, <1>1, PTL DEF Spec

-----------------------------------------------------------------------------
(* Loading with readers ahead is loading file by file.                     *)

\* copy_shard of a file, for the parameters copied
Copied(c, r, l, ps, f) ==
  LET shard == MergeWeights(c, {n \in DOMAIN l : f \in l[n]}, f)
      sharded(p) == ShardForParameter(c, r, p, shard[p])
  IN [p \in DOMAIN ps |->
        IF p \in DOMAIN shard /\ Sizes(sharded(p)) = ParamSizes(c, p)
          THEN sharded(p) ELSE ps[p]]

\* the parameters after each of the first n files, read one after the other
OneByOne(c, r, l, h, n) ==
  /\ h[0] = [p \in ParamNames(c) |-> Uninitialized]
  /\ \A f \in 1 .. n : h[f] = Copied(c, r, l, h[f - 1], f)

FilesCopied == nextFile - Len(inFlight) - 1

InOrder ==
  \E h : OneByOne(config, rank, layout, h, FilesCopied) /\ params = h[FilesCopied]

LEMMA OrderInit == Init => InOrder
<1> SUFFICES ASSUME Init  PROVE InOrder
  OBVIOUS
<1> DEFINE h == [k \in {0} |-> params]
<1>1. params = [p \in ParamNames(config) |-> Uninitialized]
  BY DEF Init
<1>2. FilesCopied = 0
  <2>1. Window /\ nextFile = Len(inFlight) + 1
    BY WindowInit DEF Init
  <2>2. Len(inFlight) \in Nat
    BY <2>1 DEF Window
  <2> QED BY <2>1, <2>2 DEF FilesCopied
<1>3. h[0] = params
  OBVIOUS
<1> HIDE DEF h
<1>4. OneByOne(config, rank, layout, h, 0)
  BY <1>1, <1>3 DEF OneByOne
<1> QED BY <1>2, <1>3, <1>4 DEF InOrder

LEMMA OrderTakes ==
  ASSUME Window, InOrder, TakeFront
  PROVE  InOrder'
<1> DEFINE n == FilesCopied
<1>1. n \in Nat /\ n + 1 \in Nat /\ Head(inFlight) = n + 1
  BY DEF Window, FilesCopied, TakeFront
<1>2. params' = Copied(config, rank, layout, params, n + 1)
  BY <1>1 DEF TakeFront, CopyShard, Copied, NamesIn
<1>3. FilesCopied' = n + 1
  <2> DEFINE s == Started(Len(inFlight) - 1)
  <2>1. /\ inFlight \in Seq(Int) /\ inFlight # <<>> /\ Len(inFlight) \in Nat \ {0}
        /\ nextFile \in Nat
    BY FilesAssumption DEF Window, TakeFront
  <2>2. s \in Seq(Int) /\ Len(s) \in Nat
    <3>1. Len(inFlight) - 1 \in Nat
      BY <2>1
    <3> QED BY <3>1, StartedIs
  <2>3. nextFile' = nextFile + Len(s) /\ inFlight' = Tail(inFlight) \o s
    BY DEF TakeFront
  <2> HIDE DEF s
  <2>4. Len(inFlight') = Len(inFlight) - 1 + Len(s)
    BY <2>1, <2>2, <2>3
  <2> QED BY <2>1, <2>2, <2>3, <2>4 DEF FilesCopied
<1>4. PICK h : OneByOne(config, rank, layout, h, n) /\ params = h[n]
  BY DEF InOrder
<1> HIDE DEF n
<1> DEFINE g == [k \in 0 .. n + 1 |-> IF k = n + 1 THEN params' ELSE h[k]]
<1>5. g[n + 1] = params' /\ \A k \in 0 .. n : g[k] = h[k]
  BY <1>1
<1> HIDE DEF g
<1>6. g[0] = [p \in ParamNames(config) |-> Uninitialized]
  BY <1>1, <1>4, <1>5 DEF OneByOne
<1>7. ASSUME NEW f \in 1 .. n + 1
      PROVE  g[f] = Copied(config, rank, layout, g[f - 1], f)
  <2>1. CASE f = n + 1
    <3>1. f - 1 = n /\ n \in 0 .. n
      BY <1>1, <2>1
    <3>2. g[f - 1] = params
      BY <1>4, <1>5, <3>1
    <3> QED BY <1>2, <1>5, <2>1, <3>2
  <2>2. CASE f # n + 1
    <3>1. f \in 1 .. n /\ f \in 0 .. n /\ f - 1 \in 0 .. n
      BY <1>1, <2>2
    <3>2. h[f] = Copied(config, rank, layout, h[f - 1], f)
      BY <1>4, <3>1 DEF OneByOne
    <3> QED BY <1>5, <3>1, <3>2
  <2> QED BY <2>1, <2>2
<1>8. OneByOne(config, rank, layout, g, n + 1)
  BY <1>6, <1>7 DEF OneByOne
<1>9. UNCHANGED <<config, rank, layout>>
  BY DEF TakeFront
<1>10. OneByOne(config', rank', layout', g, FilesCopied') /\ params' = g[FilesCopied']
  BY <1>3, <1>5, <1>8, <1>9
<1> QED BY <1>10 DEF InOrder

LEMMA OrderNext ==
  ASSUME Window, InOrder, [Next]_vars
  PROVE  InOrder'
<1>1. CASE TakeFront
  BY <1>1, OrderTakes
<1>2. CASE UNCHANGED <<config, rank, layout, nextFile, inFlight, params>>
  BY <1>2 DEF InOrder, FilesCopied
<1> QED BY <1>1, <1>2 DEF Next, Read, TakeThrows, Unwind, vars

LEMMA OrderAlways == Spec => []InOrder
<1>1. Window /\ InOrder /\ [Next]_vars => InOrder'
  BY OrderNext
<1> QED BY OrderInit, <1>1, WindowAlways, PTL DEF Spec

-----------------------------------------------------------------------------
(* Theorems.                                                               *)

\* The state has its type, and the files in flight are the last ones started,
\* in the order of their names, whatever the parallelism that is determined.
THEOREM TypeCorrect == Spec => []TypeOK
<1>1. Window => TypeOK
  <2> SUFFICES ASSUME Window  PROVE TypeOK
    OBVIOUS
  <2> DEFINE n == Len(inFlight)
  <2>1. /\ inFlight \in Seq(Int)
        /\ \A i \in 1 .. n : inFlight[i] = nextFile - n + i - 1
    BY DEF Window
  <2>2. inFlight = [i \in 1 .. n |-> inFlight[i]]
    BY <2>1
  <2>3. inFlight = [i \in 1 .. n |-> nextFile - n + i - 1]
    BY <2>1, <2>2
  <2> QED BY <2>3 DEF Window, TypeOK
<1> QED BY <1>1, WindowAlways, PTL

\* load_weights neither returns nor throws with a reader thread left behind.
THEOREM NoReaderLeft == Spec => []ReadersJoined
<1>1. Window => ReadersJoined
  <2> SUFFICES ASSUME Window  PROVE ReadersJoined
    OBVIOUS
  <2>1. ASSUME outcome = "loaded", NEW f \in Files  PROVE reader[f] # "reading"
    <3>1. inFlight = <<>> /\ nextFile = NumFiles + 1 /\ Len(inFlight) = 0
      BY <2>1 DEF Window
    <3>2. f < nextFile - Len(inFlight)
      BY <3>1, FilesAssumption DEF Files
    <3> QED BY <3>2 DEF Window
  <2> QED BY <2>1 DEF Window, ReadersJoined
<1> QED BY <1>1, WindowAlways, PTL

\* Reader threads change nothing about the result: what load_weights leaves in
\* the parameters is what copying the shards of all files one after the other
\* gives, in the order of the files, whatever the parallelism and the order in
\* which the reads end.
AsIfOneByOne ==
  outcome = "loaded" => \E h : OneByOne(config, rank, layout, h, NumFiles) /\ params = h[NumFiles]

\* The parameters never depend on how the reads of the files interleave.
THEOREM ResultIsSequential == Spec => []AsIfOneByOne
<1>1. Window /\ InOrder => AsIfOneByOne
  <2> SUFFICES ASSUME Window, InOrder, outcome = "loaded"
               PROVE  \E h : OneByOne(config, rank, layout, h, NumFiles) /\ params = h[NumFiles]
    BY DEF AsIfOneByOne
  <2>1. inFlight = <<>> /\ nextFile = NumFiles + 1 /\ Len(inFlight) = 0
    BY DEF Window
  <2>2. FilesCopied = NumFiles
    BY <2>1, FilesAssumption DEF FilesCopied
  <2> QED BY <2>2 DEF InOrder
<1> QED BY <1>1, WindowAlways, OrderAlways, PTL
=============================================================================
