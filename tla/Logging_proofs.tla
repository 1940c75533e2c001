---------------------------- MODULE Logging_proofs ----------------------------
(****************************************************************************)
(* Proofs about Logging, for any goroutines, buffers, calls and values: the *)
(* buffers of different calls are apart, so that a call finds its own line  *)
(* in its buffer, and the writer is inside one line at a time, so that      *)
(* every output is made of whole lines.                                     *)
(****************************************************************************)
EXTENDS Logging, FiniteSetTheorems, TLAPS

Working == {"level", "pairs", "lock", "write", "unlock", "reset", "put", "stdout", "file"}

Types ==
  /\ global \in {"std", "discard", "zap", "self"} /\ minLevel \in LogLevel
  /\ exit \in {"", "fatal", "panic", "overflow"}
  /\ array \in [1..Capacity -> {"value", "UNPAIRED"}]
  /\ calls \in 0..MaxLine /\ call \in [Caller -> CallSpec]
  /\ pc \in [Caller -> Working \cup {"idle", "exit"}]
  /\ pairs \in [Caller -> Nat] /\ failed \in [Caller -> BOOLEAN]
  /\ buf \in [Caller -> Buffer]
  /\ content \in [Buffer -> Seq(Piece)]
  /\ free \subseteq Buffer
  /\ mu \in Caller \cup {Nobody}
  /\ out \in Seq(Piece) /\ file \in Seq(Piece)
  /\ written \in [Caller -> Nat]

\* A buffer is in the pool, where it is empty, or one call's.
Apart ==
  /\ \A b \in free : content[b] = <<>>
  /\ \A c \in Caller : pc[c] \in Working => buf[c] \notin free
  /\ \A c, d \in Caller : c # d /\ pc[c] \in Working /\ pc[d] \in Working => buf[c] # buf[d]

Mutex == \A c \in Caller : pc[c] \in {"write", "unlock"} <=> mu = c

\* A line that was begun, and one that is complete.
Begun(c, line) ==
  /\ Len(line) >= 1 /\ line[1] = LevelPiece(c)
  /\ \A i \in 2..Len(line) : line[i].is = "pair" /\ line[i].by = c

Complete(c, line) ==
  /\ Len(line) >= 2 /\ line[1] = LevelPiece(c)
  /\ line[Len(line)] = Newline(c)
  /\ \A i \in 2..Len(line)-1 : line[i].is = "pair" /\ line[i].by = c

\* What a call has in its buffer.
Held(c) ==
  /\ pc[c] \in {"level", "put"} => content[buf[c]] = <<>>
  /\ pc[c] = "pairs" => Begun(c, content[buf[c]])
  /\ pc[c] \in {"lock", "write", "unlock", "reset", "stdout", "file"} =>
       Complete(c, content[buf[c]])

\* The values it still has to add, or the pieces that the writer took.
Counts(c) ==
  /\ pc[c] \in {"level", "pairs"} => pairs[c] <= (call[c].n + 1) \div 2
  /\ pc[c] = "lock" => pairs[c] = 0
  /\ pc[c] = "write" => pairs[c] < Len(content[buf[c]])

\* The loggers do not mix, because SetLogger comes before all calls.
Mode(c) ==
  /\ calls = 0 => pc[c] = "idle"
  /\ global = "std" => pc[c] \notin {"stdout", "file"}
  /\ global = "zap" => pc[c] \notin {"lock", "write", "unlock", "reset", "put"}
  /\ global \in {"discard", "self"} => pc[c] \in {"idle", "exit"}

Closed(output) == output = <<>> \/ output[Len(output)].is = "newline"

\* The call that is inside its line, if there is one.
Inside(c) == pc[c] = "write" /\ pairs[c] > 0

Outputs ==
  /\ Whole(out) /\ Whole(file) /\ Closed(file)
  /\ (\A c \in Caller : ~Inside(c)) => Closed(out)
  /\ \A c \in Caller : Inside(c) =>
       Len(out) > 0 /\ out[Len(out)] = content[buf[c]][pairs[c]]

Newlines(c, output) == {i \in 1..Len(output) : output[i] = Newline(c)}

Counted == \A c \in Caller : Cardinality(Newlines(c, out)) = written[c]

\* As long as no call has written to the shared array.
Unspoilt(line) == \A i \in 1..Len(line) : line[i].says # "overwritten"
Clean ==
  (\A i \in 1..Capacity : array[i] = "value") =>
    Unspoilt(out) /\ \A b \in Buffer : Unspoilt(content[b])

\* The last line of c that was begun in an output is its present one.
LastBegun(c, output, i) ==
  /\ i \in 1..Len(output) /\ output[i] = LevelPiece(c)
  /\ \A j \in i+1..Len(output) : output[j].by = c => output[j].is # "level"
LastDone(c, output) ==
  \E i \in 1..Len(output) :
    /\ LastBegun(c, output, i)
    /\ \E j \in i+1..Len(output) : output[j] = Newline(c)

\* Where a call is in its outputs.
Served(c) ==
  /\ Inside(c) => \E i \in 1..Len(out) : LastBegun(c, out, i)
  /\ pc[c] \in {"unlock", "reset", "put"} /\ ~failed[c] => LastDone(c, out)
  /\ pc[c] = "file" => LastDone(c, out)
  /\ pc[c] = "exit" =>
       /\ call[c].level = "FATAL"
       /\ \/ failed[c] \/ global = "discard" \/ (global = "std" /\ call[c].n = 0)
          \/ LastDone(c, out) /\ (global = "zap" => LastDone(c, file))

CallerInv(c) == Held(c) /\ Counts(c) /\ Mode(c) /\ Served(c)

Ended == exit = "fatal" => \E c \in Caller : pc[c] = "exit"

Sound ==
  /\ Apart /\ Mutex /\ Outputs /\ Counted /\ Clean /\ Ended
  /\ \A c \in Caller : CallerInv(c)

IInv == Types /\ Sound

-----------------------------------------------------------------------------
(* Outputs that grow.                                                       *)

LEMMA Appended ==
  ASSUME NEW s \in Seq(Piece), NEW e \in Piece
  PROVE  /\ Append(s, e) \in Seq(Piece) /\ Len(Append(s, e)) = Len(s) + 1
         /\ \A i \in 1..Len(s) : Append(s, e)[i] = s[i]
         /\ Append(s, e)[Len(s) + 1] = e
OBVIOUS

LEMMA Joined ==
  ASSUME NEW s \in Seq(Piece), NEW t \in Seq(Piece)
  PROVE  /\ s \o t \in Seq(Piece) /\ Len(s \o t) = Len(s) + Len(t)
         /\ \A i \in 1..Len(s) : (s \o t)[i] = s[i]
         /\ \A i \in 1..Len(t) : (s \o t)[Len(s) + i] = t[i]
OBVIOUS

Grows(s, t) ==
  /\ s \in Seq(Piece) /\ t \in Seq(Piece) /\ Len(s) < Len(t)
  /\ \A i \in 1..Len(s) : t[i] = s[i]

\* A line's newline is counted when it is written, and nothing else is.
LEMMA CountGrows ==
  ASSUME NEW c, NEW s, NEW t, Grows(s, t), NEW P \in BOOLEAN,
         \A j \in Len(s)+1..Len(t) : t[j] = Newline(c) <=> (P /\ j = Len(t))
  PROVE  /\ Cardinality(Newlines(c, s)) \in Nat
         /\ P => Cardinality(Newlines(c, t)) = Cardinality(Newlines(c, s)) + 1
         /\ ~P => Newlines(c, t) = Newlines(c, s)
<1>1. Len(s) \in Nat /\ Len(t) \in Nat
  BY DEF Grows
<1>2. IsFiniteSet(Newlines(c, s)) /\ Cardinality(Newlines(c, s)) \in Nat
  <2>1. IsFiniteSet(1..Len(s))
    BY <1>1, FS_Interval
  <2>2. Newlines(c, s) \subseteq 1..Len(s)
    BY DEF Newlines
  <2> QED
    BY <2>1, <2>2, FS_Subset, FS_CardinalityType
<1>3. ASSUME P PROVE Cardinality(Newlines(c, t)) = Cardinality(Newlines(c, s)) + 1
  <2>1. Newlines(c, t) = Newlines(c, s) \cup {Len(t)} /\ Len(t) \notin Newlines(c, s)
    BY <1>1, <1>3 DEF Grows, Newlines
  <2> QED
    BY <1>2, <2>1, FS_AddElement
<1>4. ASSUME ~P PROVE Newlines(c, t) = Newlines(c, s)
  BY <1>1, <1>4 DEF Grows, Newlines
<1> QED
  BY <1>2, <1>3, <1>4

\* What others write does not come between a call and its place in an output.
LEMMA LastGrows ==
  ASSUME NEW c, NEW s, NEW t, Grows(s, t),
         \A j \in Len(s)+1..Len(t) : t[j].by # c
  PROVE  /\ \A i : LastBegun(c, s, i) => LastBegun(c, t, i)
         /\ LastDone(c, s) => LastDone(c, t)
<1>1. Len(s) \in Nat /\ Len(t) \in Nat
  BY DEF Grows
<1>2. ASSUME NEW i, LastBegun(c, s, i) PROVE LastBegun(c, t, i)
  BY <1>1, <1>2 DEF LastBegun, Grows
<1>3. ASSUME LastDone(c, s) PROVE LastDone(c, t)
  <2>1. PICK i \in 1..Len(s) :
          LastBegun(c, s, i) /\ \E j \in i+1..Len(s) : s[j] = Newline(c)
    BY <1>3 DEF LastDone
  <2>2. PICK j \in i+1..Len(s) : s[j] = Newline(c)
    BY <2>1
  <2>3. i \in 1..Len(t) /\ j \in i+1..Len(t) /\ t[j] = Newline(c)
    BY <1>1, <2>2 DEF Grows
  <2> QED
    BY <1>2, <2>1, <2>3 DEF LastDone
<1> QED
  BY <1>2, <1>3

\* A piece fits an output after a whole line, or inside its own.
LEMMA WholeAppended ==
  ASSUME NEW s \in Seq(Piece), NEW e \in Piece, Whole(s),
         \/ Closed(s) /\ e.is = "level"
         \/ /\ Len(s) > 0 /\ s[Len(s)].is # "newline" /\ s[Len(s)].by = e.by
            /\ e.is # "level"
  PROVE  Whole(Append(s, e)) /\ Grows(s, Append(s, e))
<1> DEFINE t == Append(s, e)
<1>1. /\ t \in Seq(Piece) /\ Len(t) = Len(s) + 1 /\ \A i \in 1..Len(s) : t[i] = s[i]
      /\ t[Len(s) + 1] = e /\ Len(s) \in Nat
  BY Appended
<1> HIDE DEF t
<1>2. Grows(s, t)
  BY <1>1 DEF Grows
<1>3. ASSUME NEW i \in 1..Len(t)
      PROVE  IF i = 1 \/ t[i - 1].is = "newline" THEN t[i].is = "level"
             ELSE t[i].is # "level" /\ t[i].by = t[i - 1].by
  <2>1. CASE i \in 1..Len(s)
    BY <1>1, <2>1 DEF Whole
  <2>2. CASE i = Len(s) + 1 /\ Len(s) = 0
    BY <1>1, <2>2
  <2>3. CASE i = Len(s) + 1 /\ Len(s) > 0
    <3>1. t[i] = e /\ t[i - 1] = s[Len(s)] /\ i # 1
      BY <1>1, <2>3
    <3>2. s # <<>>
      BY <2>3
    <3> QED
      BY <3>1, <3>2 DEF Closed
  <2> QED
    BY <1>1, <2>1, <2>2, <2>3
<1> QED
  BY <1>2, <1>3 DEF Whole, t

LEMMA WholeJoined ==
  ASSUME NEW c \in Caller, NEW s \in Seq(Piece), NEW line \in Seq(Piece), Whole(s), Closed(s),
         Complete(c, line)
  PROVE  /\ Whole(s \o line) /\ Closed(s \o line) /\ Grows(s, s \o line)
         /\ \A j \in Len(s)+1..Len(s \o line) : (s \o line)[j].by = c
         /\ \A j \in Len(s)+1..Len(s \o line) :
              (s \o line)[j] = Newline(c) <=> j = Len(s \o line)
         /\ LastDone(c, s \o line)
<1> DEFINE t == s \o line
<1>1. /\ t \in Seq(Piece) /\ Len(t) = Len(s) + Len(line) /\ \A i \in 1..Len(s) : t[i] = s[i]
      /\ \A i \in 1..Len(line) : t[Len(s) + i] = line[i]
      /\ Len(s) \in Nat /\ Len(line) \in Nat /\ Len(line) >= 2
  BY Joined DEF Complete
<1> HIDE DEF t
<1>2. Grows(s, t)
  BY <1>1 DEF Grows
<1>3. /\ t[Len(s) + 1] = LevelPiece(c) /\ t[Len(t)] = Newline(c)
      /\ \A j \in Len(s)+2..Len(t)-1 : t[j].is = "pair" /\ t[j].by = c
  <2>1. ASSUME NEW j \in Len(s)+2..Len(t)-1 PROVE t[j].is = "pair" /\ t[j].by = c
    <3>1. j - Len(s) \in 2..Len(line)-1 /\ j = Len(s) + (j - Len(s))
      BY <1>1
    <3>2. t[j] = line[j - Len(s)]
      BY <1>1, <3>1
    <3> QED
      BY <3>1, <3>2 DEF Complete
  <2> QED
    BY <1>1, <2>1 DEF Complete
<1>4. /\ LevelPiece(c).by = c /\ LevelPiece(c).is = "level"
      /\ Newline(c).by = c /\ Newline(c).is = "newline"
  BY DEF LevelPiece, Newline
<1>9. ASSUME NEW j \in Len(s)+1..Len(t)
      PROVE  /\ t[j].by = c /\ (j # Len(s) + 1 => t[j].is # "level")
             /\ t[j].is = "newline" <=> j = Len(t)
  <2>1. CASE j = Len(s) + 1
    BY <1>1, <1>3, <1>4, <2>1
  <2>2. CASE j = Len(t)
    BY <1>1, <1>3, <1>4, <2>2
  <2>3. CASE j \in Len(s)+2..Len(t)-1
    <3>1. t[j].is = "pair" /\ t[j].by = c
      BY <1>3, <2>3
    <3> QED
      BY <1>1, <2>3, <3>1
  <2> QED
    <3>1. j = Len(s) + 1 \/ j = Len(t) \/ j \in Len(s)+2..Len(t)-1
      BY <1>1
    <3> QED
      BY <2>1, <2>2, <2>3, <3>1
<1>5. ASSUME NEW i \in 1..Len(t)
      PROVE  IF i = 1 \/ t[i - 1].is = "newline" THEN t[i].is = "level"
             ELSE t[i].is # "level" /\ t[i].by = t[i - 1].by
  <2>1. CASE i \in 1..Len(s)
    BY <1>1, <2>1 DEF Whole
  <2>2. CASE i = Len(s) + 1
    <3>1. i = 1 \/ t[i - 1].is = "newline"
      BY <1>1, <2>2 DEF Closed
    <3> QED
      BY <1>3, <1>4, <2>2, <3>1
  <2>3. CASE i \in Len(s)+2..Len(t)
    <3>1. i - 1 \in Len(s)+1..Len(t) /\ i \in Len(s)+1..Len(t) /\ i # Len(s) + 1 /\ i # 1
          /\ i - 1 # Len(t)
      BY <1>1, <2>3
    <3>2. t[i - 1].is # "newline" /\ t[i - 1].by = c
      BY <1>9, <3>1
    <3>3. t[i].is # "level" /\ t[i].by = c
      BY <1>9, <3>1
    <3> QED
      BY <3>1, <3>2, <3>3
  <2> QED
    BY <1>1, <2>1, <2>2, <2>3
<1>6. Closed(t)
  BY <1>1, <1>3, <1>4 DEF Closed
<1>7. \A j \in Len(s)+1..Len(t) : t[j].by = c /\ (t[j] = Newline(c) <=> j = Len(t))
  BY <1>3, <1>4, <1>9
<1>8. LastDone(c, t)
  <2>1. LastBegun(c, t, Len(s) + 1)
    <3>1. Len(s) + 1 \in 1..Len(t)
      BY <1>1
    <3>2. ASSUME NEW j \in (Len(s) + 1)+1..Len(t) PROVE t[j].is # "level"
      <4>1. j \in Len(s)+1..Len(t) /\ j # Len(s) + 1
        BY <1>1
      <4> QED
        BY <1>9, <4>1
    <3> QED
      BY <1>3, <3>1, <3>2 DEF LastBegun
  <2>2. Len(s) + 1 \in 1..Len(t) /\ Len(t) \in (Len(s) + 1)+1..Len(t)
    BY <1>1
  <2> QED
    BY <1>3, <2>1, <2>2 DEF LastDone
<1> QED
  BY <1>2, <1>5, <1>6, <1>7, <1>8 DEF Whole, t

-----------------------------------------------------------------------------
(* Types.                                                                   *)

LEMMA PieceTypes ==
  ASSUME Types, NEW c \in Caller
  PROVE  /\ LevelPiece(c) \in Piece /\ Newline(c) \in Piece /\ Pair(c) \in Piece
         /\ LevelPiece(c).by = c /\ LevelPiece(c).is = "level"
         /\ LevelPiece(c).says # "overwritten"
         /\ Newline(c).by = c /\ Newline(c).is = "newline" /\ Newline(c).says # "overwritten"
         /\ Pair(c).by = c /\ Pair(c).is = "pair"
<1>1. call[c].level \in {"INFO", "FATAL"}
  BY DEF Types, CallSpec, LogLevel
<1> QED
  BY <1>1 DEF LevelPiece, Newline, Pair, Piece, LogLevel

LEMMA HalfType ==
  ASSUME NEW n \in 0..Capacity PROVE (n + 1) \div 2 \in Nat /\ (n > 0 => (n + 1) \div 2 > 0)
<1>1. n \in Nat
  BY LoggingAssumption
<1> QED
  BY <1>1

LEMMA CallTypes ==
  ASSUME NEW spec \in CallSpec
  PROVE  /\ spec.n \in 0..Capacity /\ spec.shared \in BOOLEAN /\ spec.level \in LogLevel
         /\ spec.exits \in BOOLEAN /\ (spec.exits => spec.level = "FATAL")
         /\ AfterLog(spec) \in {"idle", "exit"}
         /\ AfterLog(spec) = "exit" => spec.level = "FATAL"
BY DEF CallSpec, AfterLog

LEMMA Updated ==
  ASSUME NEW S, NEW T, NEW f \in [S -> T], NEW x \in S, NEW v \in T, NEW g,
         g = [f EXCEPT ![x] = v]
  PROVE  g \in [S -> T] /\ g[x] = v /\ \A y \in S : y # x => g[y] = f[y]
OBVIOUS

LEMMA CallsTypes ==
  ASSUME Types, NEW c \in Caller, NEW spec \in Asked, Calls(c, spec)
  PROVE  /\ calls' \in 0..MaxLine /\ calls' > 0 /\ pairs[c] \in Nat
         /\ call' \in [Caller -> CallSpec] /\ failed' \in [Caller -> BOOLEAN]
         /\ spec \in CallSpec /\ AfterLog(spec) \in {"idle", "exit"}
         /\ (spec.n + 1) \div 2 \in Nat
<1>1. calls \in Nat /\ MaxLine \in Nat /\ calls < MaxLine /\ calls' = calls + 1
  <2>1. MaxLine \in Nat
    BY LoggingAssumption
  <2>2. calls \in 0..MaxLine
    BY DEF Types
  <2>3. calls < MaxLine /\ calls' = calls + 1
    BY DEF Calls
  <2> QED
    BY <2>1, <2>2, <2>3
<1>2. spec \in CallSpec
  BY LoggingAssumption
<1>3. call' \in [Caller -> CallSpec] /\ failed' \in [Caller -> BOOLEAN] /\ pairs[c] \in Nat
  BY <1>2, Updated DEF Calls, Types
<1> QED
  BY <1>1, <1>2, <1>3, CallTypes, HalfType

LEMMA AddTypes ==
  ASSUME Types, NEW c \in Caller, NEW e \in Piece, Add(c, e)
  PROVE  /\ content' \in [Buffer -> Seq(Piece)] /\ content'[buf[c]] = Append(content[buf[c]], e)
         /\ buf[c] \in Buffer
         /\ content[buf[c]] \in Seq(Piece)
         /\ \A b \in Buffer : b # buf[c] => content'[b] = content[b]
<1>1. buf[c] \in Buffer /\ content[buf[c]] \in Seq(Piece) /\ content \in [Buffer -> Seq(Piece)]
  BY DEF Types
<1>2. Append(content[buf[c]], e) \in Seq(Piece)
  BY <1>1, Appended
<1>3. content' = [content EXCEPT ![buf[c]] = Append(content[buf[c]], e)]
  BY DEF Add
<1> HIDE DEF Types
<1> QED
  BY <1>1, <1>2, <1>3, Updated

LEMMA GotoTypes ==
  ASSUME Types, NEW c \in Caller, NEW l \in Working \cup {"idle", "exit"}, Goto(c, l)
  PROVE  /\ pc' \in [Caller -> Working \cup {"idle", "exit"}] /\ pc'[c] = l
         /\ \A d \in Caller : d # c => pc'[d] = pc[d]
BY Updated DEF Types, Goto

LEMMA OneMore ==
  ASSUME NEW c \in Caller, NEW f \in [Caller -> Nat], NEW g, g = [f EXCEPT ![c] = @ + 1]
  PROVE  g \in [Caller -> Nat] /\ g[c] = f[c] + 1 /\ \A d \in Caller : d # c => g[d] = f[d]
<1>1. f[c] \in Nat /\ f[c] + 1 \in Nat
  OBVIOUS
<1> QED
  BY <1>1, Updated

LEMMA EmptyLine == <<>> \in Seq(Piece) /\ Len(<<>>) = 0 /\ 1..Len(<<>>) = {}
OBVIOUS

LEMMA TypesNext == IInv /\ [Next]_vars => Types'
<1> SUFFICES ASSUME IInv, [Next]_vars PROVE Types'
  OBVIOUS
<1>0. Types
  BY DEF IInv, Sound
<1>1. ASSUME NEW level \in LogLevel, SetLogger("zap", level) PROVE Types'
  BY <1>0, <1>1 DEF SetLogger, Types
<1>2. ASSUME NEW logger \in {"std", "discard", "self"}, SetLogger(logger, "INFO")
      PROVE  Types'
  BY <1>0, <1>2 DEF SetLogger, Types, LogLevel
<1>3. CASE CallSelf
  BY <1>0, <1>3 DEF CallSelf, Types, setup
<1>4. ASSUME NEW c \in Caller, NEW spec \in Asked, CallNothing(c, spec) PROVE Types'
  <2>1. Calls(c, spec)
    BY <1>4 DEF CallNothing
  <2>2. pc' \in [Caller -> Working \cup {"idle", "exit"}]
    BY <1>0, <1>4, <2>1, CallsTypes, GotoTypes DEF CallNothing
  <2> QED
    BY <1>0, <1>4, <2>1, <2>2, CallsTypes DEF CallNothing, Types, setup
<1>5. ASSUME NEW c \in Caller, NEW spec \in Asked, CallStd(c, spec) PROVE Types'
  <2>1. Calls(c, spec)
    BY <1>5 DEF CallStd
  <2>2. pc' \in [Caller -> Working \cup {"idle", "exit"}]
    BY <1>0, <1>5, GotoTypes DEF CallStd, Working
  <2>3. pairs' \in [Caller -> Nat]
    BY <1>0, <1>5, <2>1, CallsTypes, Updated DEF CallStd, Types
  <2>4. free' \subseteq Buffer /\ buf' \in [Caller -> Buffer]
    BY <1>0, <1>5 DEF CallStd, TakeBuffer, Types
  <2>5. array' \in [1..Capacity -> {"value", "UNPAIRED"}]
    BY <1>0, <1>5 DEF CallStd, Types
  <2> QED
    BY <1>0, <1>5, <2>1, <2>2, <2>3, <2>4, <2>5, CallsTypes DEF CallStd, Types, setup
<1>6. ASSUME NEW c \in Caller, NEW spec \in Asked, CallZap(c, spec) PROVE Types'
  <2>1. Calls(c, spec)
    BY <1>6 DEF CallZap
  <2>2. pc' \in [Caller -> Working \cup {"idle", "exit"}]
    BY <1>0, <1>6, GotoTypes DEF CallZap, Working
  <2>3. pairs' \in [Caller -> Nat]
    BY <1>0, <1>6, <2>1, CallsTypes, Updated DEF CallZap, Types
  <2>4. free' \subseteq Buffer /\ buf' \in [Caller -> Buffer]
    BY <1>0, <1>6 DEF CallZap, TakeBuffer, Types
  <2> QED
    BY <1>0, <1>6, <2>1, <2>2, <2>3, <2>4, CallsTypes DEF CallZap, Types, setup
<1>7. ASSUME NEW c \in Caller, WriteLevel(c) PROVE Types'
  <2>1. content' \in [Buffer -> Seq(Piece)]
    BY <1>0, <1>7, PieceTypes, AddTypes DEF WriteLevel
  <2>2. pc' \in [Caller -> Working \cup {"idle", "exit"}]
    BY <1>0, <1>7, GotoTypes DEF WriteLevel, Working
  <2> QED
    BY <1>0, <1>7, <2>1, <2>2 DEF WriteLevel, Types, setup
<1>8. ASSUME NEW c \in Caller, WritePair(c) PROVE Types'
  <2>1. content' \in [Buffer -> Seq(Piece)]
    BY <1>0, <1>8, PieceTypes, AddTypes DEF WritePair
  <2>2. pairs' \in [Caller -> Nat]
    <3>1. pairs[c] \in Nat /\ pairs[c] > 0 /\ pairs' = [pairs EXCEPT ![c] = pairs[c] - 1]
      BY <1>0, <1>8 DEF WritePair, Types
    <3>2. pairs[c] - 1 \in Nat
      BY <3>1
    <3> QED
      BY <1>0, <3>1, <3>2, Updated DEF Types
  <2> QED
    BY <1>0, <1>8, <2>1, <2>2 DEF WritePair, Types, setup
<1>9. ASSUME NEW c \in Caller, IndexOutOfRange(c) PROVE Types'
  BY <1>0, <1>9 DEF IndexOutOfRange, Types, setup
<1>10. ASSUME NEW c \in Caller, WriteNewline(c) PROVE Types'
  <2>1. content' \in [Buffer -> Seq(Piece)]
    BY <1>0, <1>10, PieceTypes, AddTypes DEF WriteNewline
  <2>2. pc' \in [Caller -> Working \cup {"idle", "exit"}]
    <3>1. CASE global = "std"
      BY <1>0, <1>10, <3>1, GotoTypes DEF WriteNewline, Working
    <3>2. CASE global # "std"
      BY <1>0, <1>10, <3>2, GotoTypes DEF WriteNewline, Working
    <3> QED
      BY <3>1, <3>2
  <2> QED
    BY <1>0, <1>10, <2>1, <2>2 DEF WriteNewline, Types, setup
<1>11. ASSUME NEW c \in Caller, Lock(c) \/ Unlock(c) PROVE Types'
  BY <1>0, <1>11 DEF Lock, Unlock, Goto, Types, setup, Working
<1>12. ASSUME NEW c \in Caller, Write(c) PROVE Types'
  <2>1. pairs' \in [Caller -> Nat] /\ pairs'[c] = pairs[c] + 1 /\ pairs[c] \in Nat
    BY <1>0, <1>12, OneMore DEF Write, Types
  <2>2. content[buf[c]] \in Seq(Piece) /\ pairs[c] < Len(content[buf[c]])
    BY <1>0, <1>12 DEF Write, At, Types, IInv, Sound, CallerInv, Counts
  <2>3. content[buf[c]][pairs'[c]] \in Piece
    BY <2>1, <2>2
  <2>4. out' \in Seq(Piece)
    BY <1>0, <1>12, <2>3, Appended DEF Write, Types
  <2>5. pc' \in [Caller -> Working \cup {"idle", "exit"}] /\ written' \in [Caller -> Nat]
    <3>1. CASE pairs'[c] = Len(content[buf[c]])
      <4>1. Goto(c, "unlock") /\ written' = [written EXCEPT ![c] = @ + 1]
        BY <1>12, <3>1 DEF Write
      <4> QED
        BY <1>0, <4>1, GotoTypes, OneMore DEF Types, Working
    <3>2. CASE pairs'[c] # Len(content[buf[c]])
      BY <1>0, <1>12, <3>2 DEF Write, Types
    <3> QED
      BY <3>1, <3>2
  <2> QED
    BY <1>0, <1>12, <2>1, <2>4, <2>5 DEF Write, Types, setup
<1>13. ASSUME NEW c \in Caller, WriteFails(c) PROVE Types'
  BY <1>0, <1>13 DEF WriteFails, Goto, Types, setup, Working
<1>14. ASSUME NEW c \in Caller, Reset(c) PROVE Types'
  <2>1. content' \in [Buffer -> Seq(Piece)]
    BY <1>0, <1>14, EmptyLine DEF Reset, Types
  <2> QED
    BY <1>0, <1>14, <2>1 DEF Reset, Goto, Types, setup, Working
<1>15. ASSUME NEW c \in Caller, Put(c) PROVE Types'
  <2>1. AfterLog(call[c]) \in {"idle", "exit"} /\ free' \subseteq Buffer
    BY <1>0, <1>15, CallTypes DEF Put, Types
  <2>2. pc' \in [Caller -> Working \cup {"idle", "exit"}]
    BY <1>0, <1>15, <2>1, GotoTypes DEF Put
  <2> QED
    BY <1>0, <1>15, <2>1, <2>2 DEF Put, Types, setup
<1>16. ASSUME NEW c \in Caller, ZapDone(c)
       PROVE  /\ content' \in [Buffer -> Seq(Piece)] /\ free' \subseteq Buffer
              /\ pc' \in [Caller -> Working \cup {"idle", "exit"}]
  <2>1. AfterLog(call[c]) \in {"idle", "exit"}
    BY <1>0, CallTypes DEF Types
  <2>2. pc' \in [Caller -> Working \cup {"idle", "exit"}]
    <3>1. CASE call[c].level = "FATAL"
      BY <1>0, <1>16, <3>1, GotoTypes DEF ZapDone
    <3>2. CASE call[c].level # "FATAL"
      BY <1>0, <1>16, <2>1, <3>2, GotoTypes DEF ZapDone
    <3> QED
      BY <3>1, <3>2
  <2> QED
    BY <1>0, <1>16, <2>2, EmptyLine DEF ZapDone, Types
<1>17. ASSUME NEW c \in Caller, Filtered(c) PROVE Types'
  BY <1>0, <1>16, <1>17 DEF Filtered, Types, setup
<1>18. ASSUME NEW c \in Caller, WriteStdout(c) PROVE Types'
  <2>1. out' \in Seq(Piece)
    BY <1>0, <1>18, Joined DEF WriteStdout, Types
  <2>2. written' \in [Caller -> Nat]
    BY <1>0, <1>18, OneMore DEF WriteStdout, Types
  <2> QED
    BY <1>0, <1>18, <2>1, <2>2 DEF WriteStdout, Goto, Types, setup, Working
<1>19. ASSUME NEW c \in Caller, WriteFile(c) PROVE Types'
  <2>1. file' \in Seq(Piece)
    BY <1>0, <1>19, Joined DEF WriteFile, Types
  <2> QED
    BY <1>0, <1>16, <1>19, <2>1 DEF WriteFile, Types, setup
<1>20. ASSUME NEW c \in Caller, Exit(c) PROVE Types'
  BY <1>0, <1>20 DEF Exit, Types, setup
<1>21. CASE UNCHANGED vars
  BY <1>0, <1>21 DEF vars, setup, Types
<1> QED
  BY <1>1, <1>2, <1>3, <1>4, <1>5, <1>6, <1>7, <1>8, <1>9, <1>10, <1>11, <1>12, <1>13,
     <1>14, <1>15, <1>17, <1>18, <1>19, <1>20, <1>21 DEF Next, Run

-----------------------------------------------------------------------------
(* What a step of one call does to the others.                              *)

Alike(d) ==
  /\ pc'[d] = pc[d] /\ call'[d] = call[d] /\ pairs'[d] = pairs[d]
  /\ failed'[d] = failed[d] /\ buf'[d] = buf[d]
  /\ pc[d] \in Working => content'[buf[d]] = content[buf[d]]

\* Only c's call moves.
Aside(c) ==
  /\ \A d \in Caller : d # c => Alike(d)
  /\ global' = global /\ (calls' = 0 => calls = 0)

\* An output stays, or takes pieces of c's.
Receives(c, s, t) ==
  \/ t = s
  \/ Grows(s, t) /\ \A j \in Len(s)+1..Len(t) : t[j].by = c

LEMMA PlaceKept ==
  ASSUME NEW c, NEW d, c # d, NEW s, NEW t, Receives(c, s, t)
  PROVE  /\ \A i : LastBegun(d, s, i) => LastBegun(d, t, i)
         /\ LastDone(d, s) => LastDone(d, t)
<1>1. CASE t = s
  BY <1>1
<1>2. CASE Grows(s, t) /\ \A j \in Len(s)+1..Len(t) : t[j].by = c
  <2>1. \A j \in Len(s)+1..Len(t) : t[j].by # d
    BY <1>2
  <2> QED
    BY <1>2, <2>1, LastGrows
<1> QED
  BY <1>1, <1>2 DEF Receives

LEMMA OthersInv ==
  ASSUME IInv, NEW c \in Caller, Aside(c), Receives(c, out, out'), Receives(c, file, file'),
         NEW d \in Caller, d # c
  PROVE  CallerInv(d)'
<1>1. CallerInv(d) /\ Alike(d) /\ global' = global /\ (calls' = 0 => calls = 0)
  BY DEF IInv, Sound, Aside
<1>2. Held(d)'
  <2>1. Held(d)
    BY <1>1 DEF CallerInv
  <2> QED
    BY <1>1, <2>1 DEF Held, Alike, Working, Begun, Complete, LevelPiece, Newline
<1>3. Counts(d)'
  <2>1. Counts(d)
    BY <1>1 DEF CallerInv
  <2> QED
    BY <1>1, <2>1 DEF Counts, Alike, Working
<1>4. Mode(d)'
  BY <1>1 DEF CallerInv, Mode, Alike
<1>5. Served(d)'
  <2>1. /\ Served(d) /\ pc'[d] = pc[d] /\ pairs'[d] = pairs[d] /\ failed'[d] = failed[d]
        /\ call'[d] = call[d]
    BY <1>1 DEF CallerInv, Alike
  <2>2. \A i : LastBegun(d, out, i) => LastBegun(d, out, i)'
    <3>1. ASSUME NEW i, LastBegun(d, out, i) PROVE LastBegun(d, out, i)'
      <4>1. LastBegun(d, out', i)
        BY <3>1, PlaceKept
      <4> QED
        BY <2>1, <4>1 DEF LastBegun, LevelPiece
    <3> QED
      BY <3>1
  <2>3. LastDone(d, out) => LastDone(d, out)'
    <3>1. ASSUME LastDone(d, out) PROVE LastDone(d, out)'
      <4>1. LastDone(d, out')
        BY <3>1, PlaceKept
      <4> QED
        BY <2>1, <4>1 DEF LastDone, LastBegun, LevelPiece, Newline
    <3> QED
      BY <3>1
  <2>4. LastDone(d, file) => LastDone(d, file)'
    <3>1. ASSUME LastDone(d, file) PROVE LastDone(d, file)'
      <4>1. LastDone(d, file')
        BY <3>1, PlaceKept
      <4> QED
        BY <2>1, <4>1 DEF LastDone, LastBegun, LevelPiece, Newline
    <3> QED
      BY <3>1
  <2>5. Inside(d)' => \E i \in 1..Len(out') : LastBegun(d, out, i)'
    <3>1. ASSUME Inside(d)' PROVE \E i \in 1..Len(out') : LastBegun(d, out, i)'
      <4>1. PICK i : LastBegun(d, out, i)
        BY <2>1, <3>1 DEF Served, Inside
      <4>2. LastBegun(d, out, i)'
        BY <2>2, <4>1
      <4> QED
        BY <4>2 DEF LastBegun
    <3> QED
      BY <3>1
  <2> QED
    BY <1>1, <2>1, <2>3, <2>4, <2>5 DEF Served
<1> QED
  BY <1>2, <1>3, <1>4, <1>5 DEF CallerInv

\* A step that writes nothing, of a call that is not inside its line.
Quiet(c) ==
  /\ Aside(c) /\ exit' = "" /\ out' = out /\ file' = file /\ written' = written
  /\ ~Inside(c) /\ ~Inside(c)'

LEMMA QuietStep ==
  ASSUME IInv, NEW c \in Caller, Quiet(c)
  PROVE  /\ Outputs' /\ Counted' /\ Ended'
         /\ \A d \in Caller : d # c => CallerInv(d)'
<1>1. \A d \in Caller : d # c => CallerInv(d)'
  <2>1. Aside(c) /\ Receives(c, out, out') /\ Receives(c, file, file')
    <3>1. Aside(c) /\ out' = out /\ file' = file
      BY DEF Quiet
    <3> QED
      BY <3>1 DEF Receives
  <2> QED
    BY <2>1, OthersInv
<1>2. Counted'
  <2>1. out' = out /\ written' = written /\ Counted
    BY DEF Quiet, IInv, Sound
  <2> QED
    BY <2>1 DEF Counted, Newlines, Newline
<1>3. Outputs'
  <2>1. \A d \in Caller : d # c => (Inside(d)' <=> Inside(d))
    BY DEF Quiet, Aside, Alike, Inside
  <2>2. \A d \in Caller : Inside(d)' <=> Inside(d)
    BY <2>1 DEF Quiet
  <2>3. out' = out /\ file' = file /\ Outputs
    BY DEF Quiet, IInv, Sound
  <2>4. Whole(out)' /\ Whole(file)' /\ Closed(file)'
    BY <2>3 DEF Outputs, Whole, Closed
  <2>5. (\A d \in Caller : ~Inside(d)') => Closed(out)'
    BY <2>2, <2>3 DEF Outputs, Closed
  <2>6. ASSUME NEW d \in Caller, Inside(d)'
        PROVE  Len(out') > 0 /\ out'[Len(out')] = content'[buf'[d]][pairs'[d]]
    <3>1. d # c /\ Inside(d) /\ Alike(d) /\ pc[d] \in Working
      BY <2>2, <2>6 DEF Quiet, Aside, Inside, Working
    <3>2. Len(out) > 0 /\ out[Len(out)] = content[buf[d]][pairs[d]]
      BY <2>3, <3>1 DEF Outputs
    <3> QED
      BY <2>3, <3>1, <3>2 DEF Alike
  <2> QED
    BY <2>4, <2>5, <2>6 DEF Outputs
<1>4. Ended'
  BY DEF Quiet, Ended
<1> QED
  BY <1>1, <1>2, <1>3, <1>4

\* A working call that keeps its buffer keeps it apart.
LEMMA ApartKept ==
  ASSUME IInv, NEW c \in Caller, Aside(c), pc[c] \in Working, buf' = buf, free' = free,
         \A b \in Buffer : b # buf[c] => content'[b] = content[b]
  PROVE  Apart'
<1>1. Apart /\ Types
  BY DEF IInv, Sound
<1>2. \A d \in Caller : pc'[d] \in Working => pc[d] \in Working
  BY DEF Aside, Alike
<1>3. \A b \in free : b \in Buffer /\ b # buf[c]
  BY <1>1 DEF Apart, Types
<1>4. \A b \in free' : content'[b] = <<>>
  BY <1>1, <1>3 DEF Apart
<1>5. \A d \in Caller : pc'[d] \in Working => buf'[d] \notin free'
  BY <1>1, <1>2 DEF Apart
<1>6. \A d, e \in Caller :
        d # e /\ pc'[d] \in Working /\ pc'[e] \in Working => buf'[d] # buf'[e]
  BY <1>1, <1>2 DEF Apart
<1> QED
  BY <1>4, <1>5, <1>6 DEF Apart

LEMMA MutexKept ==
  ASSUME IInv, NEW c \in Caller, Aside(c), mu' = mu,
         pc[c] \in {"write", "unlock"} <=> pc'[c] \in {"write", "unlock"}
  PROVE  Mutex'
BY DEF IInv, Sound, Mutex, Aside, Alike

\* Working calls have buffers of their own.
LEMMA OwnBuffer ==
  ASSUME IInv, NEW c \in Caller, pc[c] \in Working, NEW d \in Caller, d # c, pc[d] \in Working
  PROVE  buf[d] # buf[c] /\ buf[d] \in Buffer /\ buf[c] \in Buffer /\ buf[c] \notin free
BY DEF IInv, Sound, Apart, Types

LEMMA CleanKept ==
  ASSUME IInv, NEW c \in Caller, array' = array, out' = out, buf[c] \in Buffer,
         \A b \in Buffer : b # buf[c] => content'[b] = content[b],
         (\A i \in 1..Capacity : array[i] = "value") => Unspoilt(content'[buf[c]])
  PROVE  Clean'
<1>1. Clean
  BY DEF IInv, Sound
<1>2. ASSUME \A i \in 1..Capacity : array[i] = "value"
      PROVE  Unspoilt(out') /\ \A b \in Buffer : Unspoilt(content'[b])
  BY <1>1, <1>2 DEF Clean
<1> QED
  BY <1>2 DEF Clean, Unspoilt

-----------------------------------------------------------------------------
(* SetLogger and the calls.                                                 *)

LEMMA SetLoggerStep ==
  ASSUME IInv, NEW logger, NEW level, SetLogger(logger, level)
  PROVE  Sound'
<1>1. Apart' /\ Mutex' /\ Outputs' /\ Counted' /\ Clean' /\ Ended'
  BY DEF IInv, Sound, SetLogger, Apart, Mutex, Outputs, Whole, Closed, Inside, Counted, Newlines,
         Newline, Clean, Unspoilt, Ended
<1>2. ASSUME NEW c \in Caller PROVE CallerInv(c)'
  <2>1. pc'[c] = "idle" /\ calls' = 0
    BY DEF IInv, Sound, CallerInv, Mode, SetLogger
  <2> QED
    BY <2>1 DEF CallerInv, Held, Counts, Mode, Served, Inside
<1> QED
  BY <1>1, <1>2 DEF Sound

\* A step that only ends the process.
LEMMA EndStep ==
  ASSUME IInv, UNCHANGED <<setup, array, calls, call, pc, pairs, failed, buf, content, free,
                           mu, out, file, written>>,
         exit' = "fatal" => \E c \in Caller : pc[c] = "exit"
  PROVE  Sound'
<1>1. Apart' /\ Mutex' /\ Outputs' /\ Counted' /\ Clean' /\ Ended'
  BY DEF IInv, Sound, Apart, Mutex, Outputs, Whole, Closed, Inside, Counted, Newlines,
         Newline, Clean, Unspoilt, Ended
<1>2. ASSUME NEW c \in Caller PROVE CallerInv(c)'
  <2>1. CallerInv(c)
    BY DEF IInv, Sound
  <2>2. Held(c)' /\ Counts(c)' /\ Mode(c)'
    BY <2>1 DEF CallerInv, Held, Counts, Mode, Begun, Complete, LevelPiece, Newline, setup
  <2>3. Served(c)'
    BY <2>1 DEF CallerInv, Served, Inside, LevelPiece, Newline, LastBegun, LastDone, setup
  <2> QED
    BY <2>2, <2>3 DEF CallerInv
<1> QED
  BY <1>1, <1>2 DEF Sound

\* What a call changes, when it goes to a label at which nothing is written.
LEMMA CallStep ==
  ASSUME IInv, NEW c \in Caller, NEW spec \in Asked, Calls(c, spec),
         NEW l \in {"idle", "exit", "level"}, Goto(c, l),
         \A d \in Caller : d # c => pairs'[d] = pairs[d] /\ buf'[d] = buf[d],
         UNCHANGED <<setup, exit, content, mu, out, file, written>>
  PROVE  /\ pc[c] = "idle" /\ pc'[c] = l /\ call'[c] = spec /\ failed'[c] = FALSE
         /\ calls' > 0 /\ Quiet(c) /\ Mutex'
<1>1. Types
  BY DEF IInv, Sound
<1>2. pc[c] = "idle" /\ pc'[c] = l /\ \A d \in Caller : d # c => pc'[d] = pc[d]
  BY <1>1, GotoTypes DEF Calls, At, Working
<1>3. /\ call'[c] = spec /\ failed'[c] = FALSE
      /\ \A d \in Caller : d # c => call'[d] = call[d] /\ failed'[d] = failed[d]
  BY <1>1 DEF Types, Calls
<1>4. calls' > 0
  BY <1>1, CallsTypes
<1>5. Aside(c)
  BY <1>2, <1>3, <1>4 DEF Aside, Alike, setup
<1>6. Quiet(c)
  BY <1>2, <1>5 DEF Quiet, Inside, Calls, At
<1> QED
  BY <1>2, <1>3, <1>4, <1>5, <1>6, MutexKept

LEMMA CallNothingStep ==
  ASSUME IInv, NEW c \in Caller, NEW spec \in Asked, CallNothing(c, spec)
  PROVE  Sound'
<1>1. /\ AfterLog(spec) \in {"idle", "exit"} /\ (AfterLog(spec) = "exit" => spec.level = "FATAL")
  BY LoggingAssumption, CallTypes
<1>2. /\ pc[c] = "idle" /\ pc'[c] = AfterLog(spec) /\ call'[c] = spec /\ failed'[c] = FALSE
      /\ calls' > 0 /\ Quiet(c) /\ Mutex'
  BY <1>1, CallStep DEF CallNothing
<1>3. Apart'
  <2>1. \A d \in Caller : pc'[d] \in Working => pc[d] \in Working
    BY <1>1, <1>2 DEF Quiet, Aside, Alike, Working
  <2> QED
    BY <2>1 DEF IInv, Sound, Apart, CallNothing
<1>4. Clean'
  BY DEF IInv, Sound, Clean, Unspoilt, CallNothing
<1>5. CallerInv(c)'
  BY <1>1, <1>2 DEF CallNothing, CallerInv, Held, Counts, Mode, Served, Inside, setup
<1> QED
  BY <1>2, <1>3, <1>4, <1>5, QuietStep DEF Sound

\* A call that takes a buffer from the pool starts with an empty one.
LEMMA TakeStep ==
  ASSUME IInv, NEW c \in Caller, NEW spec \in Asked, Calls(c, spec), Goto(c, "level"),
         TakeBuffer(c), global \in {"std", "zap"},
         pairs' = [pairs EXCEPT ![c] = (spec.n + 1) \div 2],
         UNCHANGED <<setup, exit, content, mu, out, file, written>>,
         (\A i \in 1..Capacity : array'[i] = "value") => \A i \in 1..Capacity : array[i] = "value"
  PROVE  Sound'
<1>1. Types /\ Apart
  BY DEF IInv, Sound
<1>2. PICK b \in free : free' = free \ {b} /\ buf' = [buf EXCEPT ![c] = b]
  BY DEF TakeBuffer
<1>3. /\ b \in Buffer /\ buf'[c] = b /\ content'[b] = <<>>
      /\ \A d \in Caller : d # c => buf'[d] = buf[d]
  BY <1>1, <1>2 DEF Types, Apart
<1>4. /\ pairs'[c] = (spec.n + 1) \div 2
      /\ \A d \in Caller : d # c => pairs'[d] = pairs[d]
  BY <1>1 DEF Types
<1>5. /\ pc[c] = "idle" /\ pc'[c] = "level" /\ call'[c] = spec /\ failed'[c] = FALSE
      /\ calls' > 0 /\ Quiet(c) /\ Mutex'
  BY <1>3, <1>4, CallStep
<1>6. Apart'
  <2>1. \A d \in Caller : d # c => pc'[d] = pc[d]
    BY <1>5 DEF Quiet, Aside, Alike
  <2>2. \A x \in free' : content'[x] = <<>>
    BY <1>1, <1>2 DEF Apart
  <2>3. \A d \in Caller : pc'[d] \in Working => buf'[d] \notin free'
    BY <1>1, <1>2, <1>3, <2>1 DEF Apart
  <2>4. \A d \in Caller : d # c /\ pc'[d] \in Working => buf'[d] # b
    BY <1>1, <1>2, <1>3, <2>1 DEF Apart
  <2>5. \A d, e \in Caller :
          d # e /\ pc'[d] \in Working /\ pc'[e] \in Working => buf'[d] # buf'[e]
    BY <1>1, <1>3, <2>1, <2>4 DEF Apart
  <2> QED
    BY <2>2, <2>3, <2>5 DEF Apart
<1>7. Clean'
  BY DEF IInv, Sound, Clean, Unspoilt
<1>8. CallerInv(c)'
  <2>1. Held(c)'
    BY <1>3, <1>5 DEF Held
  <2>2. Counts(c)'
    <3>1. (spec.n + 1) \div 2 \in Nat
      BY <1>1, CallsTypes
    <3> QED
      BY <1>4, <1>5, <3>1 DEF Counts
  <2>3. Mode(c)' /\ Served(c)'
    BY <1>5 DEF Mode, Served, Inside, setup
  <2> QED
    BY <2>1, <2>2, <2>3 DEF CallerInv
<1> QED
  BY <1>5, <1>6, <1>7, <1>8, QuietStep DEF Sound

LEMMA CallStdStep ==
  ASSUME IInv, NEW c \in Caller, NEW spec \in Asked, CallStd(c, spec)
  PROVE  Sound'
<1>1. array \in [1..Capacity -> {"value", "UNPAIRED"}] /\ spec.n \in Nat /\ Capacity \in Nat
  <2>1. spec \in CallSpec /\ Capacity \in Nat
    BY LoggingAssumption
  <2>2. spec.n \in 0..Capacity
    BY <2>1, CallTypes
  <2>3. spec.n \in Nat
    BY <2>1, <2>2
  <2> QED
    BY <2>1, <2>3 DEF IInv, Types
<1>2. (\A i \in 1..Capacity : array'[i] = "value") => \A i \in 1..Capacity : array[i] = "value"
  <2>1. CASE spec.shared /\ spec.n % 2 = 1 /\ spec.n < Capacity
    <3>1. array' = [array EXCEPT ![spec.n + 1] = "UNPAIRED"]
      BY <2>1 DEF CallStd
    <3>2. spec.n + 1 \in 1..Capacity
      BY <1>1, <2>1
    <3> QED
      BY <1>1, <3>1, <3>2
  <2>2. CASE ~(spec.shared /\ spec.n % 2 = 1 /\ spec.n < Capacity)
    BY <2>2 DEF CallStd
  <2> QED
    BY <2>1, <2>2
<1> QED
  BY <1>2, TakeStep DEF CallStd

LEMMA CallZapStep ==
  ASSUME IInv, NEW c \in Caller, NEW spec \in Asked, CallZap(c, spec)
  PROVE  Sound'
BY TakeStep DEF CallZap

-----------------------------------------------------------------------------
(* Putting a line together.                                                 *)

\* A step that changes a call's own buffer and nothing that others see.
LEMMA BufferStep ==
  ASSUME IInv, NEW c \in Caller, pc[c] \in Working \ {"write", "unlock"},
         pc'[c] \in Working \ {"write", "unlock"}, exit' = "",
         \A d \in Caller : d # c => pc'[d] = pc[d] /\ pairs'[d] = pairs[d],
         \A b \in Buffer : b # buf[c] => content'[b] = content[b],
         (\A i \in 1..Capacity : array[i] = "value") => Unspoilt(content'[buf[c]]),
         CallerInv(c)',
         UNCHANGED <<setup, array, calls, call, failed, buf, free, mu, out, file, written>>
  PROVE  Sound'
<1>1. Types
  BY DEF IInv
<1>2. Aside(c)
  <2>1. ASSUME NEW d \in Caller, d # c, pc[d] \in Working PROVE content'[buf[d]] = content[buf[d]]
    BY <2>1, OwnBuffer
  <2> QED
    BY <2>1 DEF Aside, Alike, setup
<1>3. Quiet(c)
  BY <1>2 DEF Quiet, Inside
<1>4. buf[c] \in Buffer
  BY <1>1 DEF Types
<1> QED
  BY <1>2, <1>3, <1>4, QuietStep, ApartKept, MutexKept, CleanKept DEF Sound

\* What Add does to a line that may be spoilt.
LEMMA AddClean ==
  ASSUME IInv, NEW c \in Caller, NEW e \in Piece, Add(c, e),
         \A i \in 1..Capacity : array[i] = "value", e.says # "overwritten"
  PROVE  Unspoilt(content'[buf[c]])
<1>1. /\ content'[buf[c]] = Append(content[buf[c]], e) /\ buf[c] \in Buffer
      /\ content[buf[c]] \in Seq(Piece)
  BY AddTypes DEF IInv
<1>2. Unspoilt(content[buf[c]])
  BY <1>1 DEF IInv, Sound, Clean
<1> DEFINE s == content[buf[c]]
           t == Append(s, e)
<1>3. /\ Len(t) = Len(s) + 1 /\ Len(s) \in Nat /\ t[Len(s) + 1] = e
      /\ \A i \in 1..Len(s) : t[i] = s[i]
  BY <1>1, Appended
<1>4. Unspoilt(s)
  BY <1>2
<1> HIDE DEF s, t
<1>5. Unspoilt(t)
  <2>1. ASSUME NEW i \in 1..Len(t) PROVE t[i].says # "overwritten"
    <3>1. i \in 1..Len(s) \/ i = Len(s) + 1
      BY <1>3
    <3> QED
      BY <1>3, <1>4, <3>1 DEF Unspoilt
  <2> QED
    BY <2>1 DEF Unspoilt
<1> QED
  BY <1>1, <1>5 DEF s, t

LEMMA WriteLevelStep ==
  ASSUME IInv, NEW c \in Caller, WriteLevel(c)
  PROVE  Sound'
<1>1. Types /\ CallerInv(c)
  BY DEF IInv, Sound
<1>2. pc[c] = "level" /\ pc'[c] = "pairs" /\ \A d \in Caller : d # c => pc'[d] = pc[d]
  BY <1>1, GotoTypes DEF WriteLevel, At, Working
<1>3. /\ LevelPiece(c) \in Piece /\ LevelPiece(c).says # "overwritten" /\ Add(c, LevelPiece(c))
  BY <1>1, PieceTypes DEF WriteLevel
<1>4. /\ content'[buf[c]] = Append(content[buf[c]], LevelPiece(c))
      /\ \A b \in Buffer : b # buf[c] => content'[b] = content[b]
  BY <1>1, <1>3, AddTypes
<1>5. content[buf[c]] = <<>>
  BY <1>1, <1>2 DEF CallerInv, Held
<1>6. Len(content'[buf[c]]) = 1 /\ content'[buf[c]][1] = LevelPiece(c)
  BY <1>4, <1>5
<1>7. CallerInv(c)'
  <2>1. Held(c)'
    BY <1>2, <1>6 DEF Held, Begun, WriteLevel, LevelPiece
  <2>2. Counts(c)' /\ Mode(c)' /\ Served(c)'
    BY <1>1, <1>2 DEF CallerInv, Counts, Mode, Served, Inside, WriteLevel, setup
  <2> QED
    BY <2>1, <2>2 DEF CallerInv
<1>8. (\A i \in 1..Capacity : array[i] = "value") => Unspoilt(content'[buf[c]])
  BY <1>3, AddClean
<1> QED
  BY <1>2, <1>4, <1>7, <1>8, BufferStep DEF WriteLevel, At, Working

\* The next value is one of the call's, as there are pairs to add.
LEMMA PairKept ==
  ASSUME IInv, NEW c \in Caller, pc[c] = "pairs", pairs[c] > 0,
         \A i \in 1..Capacity : array[i] = "value"
  PROVE  Pair(c).says # "overwritten"
<1>1. /\ call[c].n \in 0..Capacity /\ pairs[c] \in Nat
      /\ pairs[c] <= (call[c].n + 1) \div 2
  BY CallTypes DEF IInv, Sound, Types, CallerInv, Counts
<1>2. call[c].n \in Nat /\ Capacity \in Nat /\ call[c].n <= Capacity
      /\ (call[c].n + 1) \div 2 \in Nat
  <2>1. Capacity \in Nat
    BY LoggingAssumption
  <2> QED
    BY <1>1, <2>1, HalfType
<1>3. NextValue(c) \in Nat /\ NextValue(c) >= 1
  BY <1>1, <1>2 DEF NextValue
<1>4. ASSUME NEW i \in {NextValue(c), NextValue(c) + 1} PROVE Says(c, i) = "kept"
  <2>1. i \in Nat /\ i >= 1
    BY <1>3
  <2>2. i <= call[c].n => i \in 1..Capacity
    BY <1>2, <2>1
  <2> QED
    BY <2>2 DEF Says
<1>5. "overwritten" \notin {Says(c, i) : i \in {NextValue(c), NextValue(c) + 1}}
  BY <1>4
<1> QED
  BY <1>5 DEF Pair

LEMMA WritePairStep ==
  ASSUME IInv, NEW c \in Caller, WritePair(c)
  PROVE  Sound'
<1>1. Types /\ CallerInv(c)
  BY DEF IInv, Sound
<1>2. pc[c] = "pairs" /\ pc' = pc /\ pairs[c] > 0 /\ pairs[c] \in Nat
      /\ pairs'[c] = pairs[c] - 1 /\ \A d \in Caller : d # c => pairs'[d] = pairs[d]
  BY <1>1 DEF WritePair, At, Types
<1>3. Pair(c) \in Piece /\ Pair(c).is = "pair" /\ Pair(c).by = c /\ Add(c, Pair(c))
  BY <1>1, PieceTypes DEF WritePair
<1>4. /\ content'[buf[c]] = Append(content[buf[c]], Pair(c))
      /\ content[buf[c]] \in Seq(Piece)
      /\ \A b \in Buffer : b # buf[c] => content'[b] = content[b]
  BY <1>1, <1>3, AddTypes
<1>5. Begun(c, content[buf[c]])
  BY <1>1, <1>2 DEF CallerInv, Held
<1>6. Begun(c, content'[buf[c]])
  BY <1>3, <1>4, <1>5, Appended DEF Begun
<1>7. CallerInv(c)'
  <2>1. Held(c)'
    BY <1>2, <1>6 DEF Held, Begun, WritePair, LevelPiece
  <2>2. Counts(c)'
    <3>1. pairs[c] <= (call[c].n + 1) \div 2 /\ (call[c].n + 1) \div 2 \in Nat
      BY <1>1, <1>2, CallTypes, HalfType DEF CallerInv, Counts, Types
    <3> QED
      BY <1>2, <3>1 DEF Counts, WritePair
  <2>3. Mode(c)' /\ Served(c)'
    BY <1>1, <1>2 DEF CallerInv, Mode, Served, Inside, WritePair, setup
  <2> QED
    BY <2>1, <2>2, <2>3 DEF CallerInv
<1>8. (\A i \in 1..Capacity : array[i] = "value") => Unspoilt(content'[buf[c]])
  BY <1>2, <1>3, PairKept, AddClean
<1> QED
  BY <1>2, <1>4, <1>7, <1>8, BufferStep DEF WritePair, At, Working

LEMMA WriteNewlineStep ==
  ASSUME IInv, NEW c \in Caller, WriteNewline(c)
  PROVE  Sound'
<1>1. Types /\ CallerInv(c)
  BY DEF IInv, Sound
<1>2. pc[c] = "pairs" /\ pairs[c] = 0 /\ global \in {"std", "zap"}
  BY <1>1 DEF WriteNewline, At, CallerInv, Mode, Types
<1>3. /\ pc'[c] = (IF global = "std" THEN "lock" ELSE "stdout")
      /\ \A d \in Caller : d # c => pc'[d] = pc[d]
  <2>1. CASE global = "std"
    BY <1>1, <2>1, GotoTypes DEF WriteNewline, Working
  <2>2. CASE global # "std"
    BY <1>1, <2>2, GotoTypes DEF WriteNewline, Working
  <2> QED
    BY <2>1, <2>2
<1>4. Newline(c) \in Piece /\ Newline(c).says # "overwritten" /\ Add(c, Newline(c))
  BY <1>1, PieceTypes DEF WriteNewline
<1>5. /\ content'[buf[c]] = Append(content[buf[c]], Newline(c))
      /\ content[buf[c]] \in Seq(Piece)
      /\ \A b \in Buffer : b # buf[c] => content'[b] = content[b]
  BY <1>1, <1>4, AddTypes
<1>6. Begun(c, content[buf[c]])
  BY <1>1, <1>2 DEF CallerInv, Held
<1>7. Complete(c, content'[buf[c]])
  BY <1>4, <1>5, <1>6, Appended DEF Begun, Complete
<1>8. CallerInv(c)'
  <2>1. Held(c)'
    BY <1>3, <1>7 DEF Held, Complete, WriteNewline, LevelPiece, Newline
  <2>2. Counts(c)'
    BY <1>2, <1>3 DEF Counts, WriteNewline
  <2>3. Mode(c)' /\ Served(c)'
    BY <1>1, <1>2, <1>3 DEF CallerInv, Mode, Served, Inside, WriteNewline, setup
  <2> QED
    BY <2>1, <2>2, <2>3 DEF CallerInv
<1>9. (\A i \in 1..Capacity : array[i] = "value") => Unspoilt(content'[buf[c]])
  BY <1>4, AddClean
<1> QED
  BY <1>2, <1>3, <1>5, <1>8, <1>9, BufferStep DEF WriteNewline, At, Working

LEMMA ResetStep ==
  ASSUME IInv, NEW c \in Caller, Reset(c)
  PROVE  Sound'
<1>1. Types /\ CallerInv(c)
  BY DEF IInv, Sound
<1>2. pc[c] = "reset" /\ pc'[c] = "put" /\ \A d \in Caller : d # c => pc'[d] = pc[d]
  BY <1>1, GotoTypes DEF Reset, At, Working
<1>3. /\ content'[buf[c]] = <<>>
      /\ \A b \in Buffer : b # buf[c] => content'[b] = content[b]
  BY <1>1, EmptyLine, Updated DEF Reset, Types
<1>4. CallerInv(c)'
  BY <1>1, <1>2, <1>3 DEF CallerInv, Held, Counts, Mode, Served, Inside, LastDone, LastBegun,
     LevelPiece, Newline, Reset, setup
<1>5. Unspoilt(content'[buf[c]])
  BY <1>3, EmptyLine DEF Unspoilt
<1> QED
  BY <1>2, <1>3, <1>4, <1>5, BufferStep DEF Reset, At, Working

-----------------------------------------------------------------------------
(* The mutex and the write.                                                 *)

\* A quiet step that changes no buffer.
LEMMA MutexStep ==
  ASSUME IInv, NEW c \in Caller, pc[c] \in Working, Quiet(c), Mutex', CallerInv(c)',
         UNCHANGED <<array, buf, content, free>>
  PROVE  Sound'
<1>1. Aside(c) /\ out' = out
  BY DEF Quiet
<1>2. Clean'
  BY <1>1 DEF IInv, Sound, Clean, Unspoilt
<1> QED
  BY <1>1, <1>2, QuietStep, ApartKept DEF Sound

LEMMA LockStep ==
  ASSUME IInv, NEW c \in Caller, Lock(c)
  PROVE  Sound'
<1>1. Types /\ CallerInv(c) /\ Mutex
  BY DEF IInv, Sound
<1>2. pc[c] = "lock" /\ pc'[c] = "write" /\ \A d \in Caller : d # c => pc'[d] = pc[d]
  BY <1>1, GotoTypes DEF Lock, At, Working
<1>3. pairs[c] = 0 /\ Complete(c, content[buf[c]])
  BY <1>1, <1>2 DEF CallerInv, Counts, Held
<1>4. Quiet(c)
  <2>1. Aside(c)
    BY <1>2, <1>3 DEF Aside, Alike, Lock, setup
  <2>2. pairs'[c] = 0 /\ pairs[c] = 0
    BY <1>2, <1>3 DEF Lock
  <2>3. ~Inside(c) /\ ~Inside(c)'
    BY <2>2 DEF Inside
  <2> QED
    BY <2>1, <2>3 DEF Quiet, Lock, At
<1>5. Mutex'
  <2>1. Nobody \notin Caller
    BY LoggingAssumption
  <2> QED
    BY <1>1, <1>2, <2>1 DEF Mutex, Lock
<1>6. CallerInv(c)'
  <2>1. Held(c)'
    BY <1>2, <1>3 DEF Held, Complete, LevelPiece, Newline, Lock
  <2>2. Len(content[buf[c]]) >= 2 /\ Len(content[buf[c]]) \in Nat
    <3>1. content[buf[c]] \in Seq(Piece)
      BY <1>1 DEF Types
    <3> QED
      BY <1>3, <3>1 DEF Complete
  <2>3. Counts(c)'
    BY <1>2, <1>3, <2>2 DEF Counts, Lock
  <2>4. Mode(c)' /\ Served(c)'
    BY <1>1, <1>2, <1>3 DEF CallerInv, Mode, Served, Inside, Lock, setup
  <2> QED
    BY <2>1, <2>3, <2>4 DEF CallerInv
<1> QED
  BY <1>2, <1>4, <1>5, <1>6, MutexStep DEF Lock, Working

LEMMA WriteFailsStep ==
  ASSUME IInv, NEW c \in Caller, WriteFails(c)
  PROVE  Sound'
<1>1. Types /\ CallerInv(c)
  BY DEF IInv, Sound
<1>2. /\ pc[c] = "write" /\ pc'[c] = "unlock" /\ pairs[c] = 0
      /\ \A d \in Caller : d # c => pc'[d] = pc[d]
  BY <1>1, GotoTypes DEF WriteFails, At, Working
<1>3. failed'[c] = TRUE /\ \A d \in Caller : d # c => failed'[d] = failed[d]
  BY <1>1, Updated DEF WriteFails, Types
<1>4. Quiet(c)
  <2>1. Aside(c)
    BY <1>2, <1>3 DEF Aside, Alike, WriteFails, setup
  <2>2. pairs'[c] = 0 /\ pairs[c] = 0
    BY <1>2, <1>3 DEF WriteFails
  <2>3. ~Inside(c) /\ ~Inside(c)'
    BY <2>2 DEF Inside
  <2> QED
    BY <2>1, <2>3 DEF Quiet, WriteFails, At
<1>5. Mutex'
  BY <1>2, <1>4, MutexKept DEF Quiet, WriteFails
<1>6. CallerInv(c)'
  <2>1. Held(c)'
    BY <1>1, <1>2 DEF CallerInv, Held, Complete, LevelPiece, Newline, WriteFails
  <2>2. Counts(c)' /\ Mode(c)' /\ Served(c)'
    BY <1>1, <1>2, <1>3 DEF CallerInv, Counts, Mode, Served, Inside, WriteFails, setup
  <2> QED
    BY <2>1, <2>2 DEF CallerInv
<1> QED
  BY <1>2, <1>4, <1>5, <1>6, MutexStep DEF WriteFails, Working

LEMMA UnlockStep ==
  ASSUME IInv, NEW c \in Caller, Unlock(c)
  PROVE  Sound'
<1>1. Types /\ CallerInv(c) /\ Mutex
  BY DEF IInv, Sound
<1>2. pc[c] = "unlock" /\ pc'[c] = "reset" /\ \A d \in Caller : d # c => pc'[d] = pc[d]
  BY <1>1, GotoTypes DEF Unlock, At, Working
<1>3. Quiet(c)
  BY <1>2 DEF Quiet, Aside, Alike, Inside, Unlock, At, setup
<1>4. Mutex'
  <2>1. Nobody \notin Caller
    BY LoggingAssumption
  <2> QED
    BY <1>1, <1>2, <2>1 DEF Mutex, Unlock
<1>5. CallerInv(c)'
  <2>1. Held(c)'
    BY <1>1, <1>2 DEF CallerInv, Held, Complete, LevelPiece, Newline, Unlock
  <2>2. Counts(c)' /\ Mode(c)'
    BY <1>1, <1>2 DEF CallerInv, Counts, Mode, Unlock, setup
  <2>3. Served(c)'
    BY <1>1, <1>2 DEF CallerInv, Served, Inside, LastDone, LastBegun, LevelPiece, Newline,
       Unlock, setup
  <2> QED
    BY <2>1, <2>2, <2>3 DEF CallerInv
<1> QED
  BY <1>2, <1>3, <1>4, <1>5, MutexStep DEF Unlock, Working

\* A buffer that is given back is empty.
LEMMA ApartGivenBack ==
  ASSUME IInv, NEW c \in Caller, Aside(c), pc[c] \in Working, pc'[c] \notin Working,
         buf' = buf, free' = free \cup {buf[c]}, content'[buf[c]] = <<>>,
         \A b \in Buffer : b # buf[c] => content'[b] = content[b]
  PROVE  Apart'
<1>1. Apart /\ Types
  BY DEF IInv, Sound
<1>2. \A d \in Caller : pc'[d] \in Working => pc[d] \in Working /\ d # c
  BY DEF Aside, Alike
<1>3. \A b \in free' : content'[b] = <<>>
  BY <1>1 DEF Apart, Types
<1>4. \A d \in Caller : pc'[d] \in Working => buf'[d] \notin free'
  BY <1>1, <1>2 DEF Apart
<1>5. \A d, e \in Caller :
        d # e /\ pc'[d] \in Working /\ pc'[e] \in Working => buf'[d] # buf'[e]
  BY <1>1, <1>2 DEF Apart
<1> QED
  BY <1>3, <1>4, <1>5 DEF Apart

LEMMA PutStep ==
  ASSUME IInv, NEW c \in Caller, Put(c)
  PROVE  Sound'
<1>1. Types /\ CallerInv(c)
  BY DEF IInv, Sound
<1>2. /\ AfterLog(call[c]) \in {"idle", "exit"}
      /\ AfterLog(call[c]) = "exit" => call[c].level = "FATAL"
  BY <1>1, CallTypes DEF Types
<1>3. /\ pc[c] = "put" /\ pc'[c] = AfterLog(call[c])
      /\ \A d \in Caller : d # c => pc'[d] = pc[d]
  BY <1>1, <1>2, GotoTypes DEF Put, At
<1>4. \A d \in Caller : d # c => pairs'[d] = pairs[d]
  BY <1>1 DEF Put, Types
<1>5. Aside(c)
  BY <1>3, <1>4 DEF Aside, Alike, Put, setup
<1>6. Quiet(c)
  BY <1>2, <1>3, <1>5 DEF Quiet, Inside, Put, At
<1>7. Mutex'
  BY <1>2, <1>3, <1>5, MutexKept DEF Put
<1>8. content[buf[c]] = <<>>
  BY <1>1, <1>3 DEF CallerInv, Held
<1>9. Apart'
  BY <1>2, <1>3, <1>5, <1>8, ApartGivenBack DEF Put, Working
<1>10. Clean'
  BY DEF IInv, Sound, Clean, Unspoilt, Put
<1>11. CallerInv(c)'
  <2>1. Held(c)' /\ Counts(c)' /\ Mode(c)'
    BY <1>1, <1>2, <1>3 DEF CallerInv, Held, Counts, Mode, Put, setup
  <2>2. ~failed[c] => LastDone(c, out)
    BY <1>1, <1>3 DEF CallerInv, Served
  <2>3. global # "zap"
    BY <1>1, <1>3 DEF CallerInv, Mode
  <2>4. Served(c)'
    BY <1>2, <1>3, <2>2, <2>3 DEF Served, Inside, LastDone, LastBegun, LevelPiece, Newline,
       Put, setup
  <2> QED
    BY <2>1, <2>4 DEF CallerInv
<1> QED
  BY <1>6, <1>7, <1>9, <1>10, <1>11, QuietStep DEF Sound

\* The writer takes the next piece of the line it is in, or the first of the
\* next line after a whole one.
LEMMA WriteStep ==
  ASSUME IInv, Types', NEW c \in Caller, Write(c)
  PROVE  Sound'
<1> DEFINE line == content[buf[c]]
           k == pairs[c]
           e == line[k + 1]
           last == k + 1 = Len(line)
<1>1. Types /\ CallerInv(c) /\ Mutex /\ Outputs
  BY DEF IInv, Sound
<1>2. pc[c] = "write" /\ mu = c /\ exit = "" /\ exit' = ""
  BY <1>1 DEF Write, At, Mutex
<1>3. \A d \in Caller : d # c => pc[d] \notin {"write", "unlock"}
  BY <1>1, <1>2 DEF Mutex
<1>4. k \in Nat /\ buf[c] \in Buffer /\ line \in Seq(Piece) /\ Len(line) \in Nat
  <2>1. k \in Nat /\ buf[c] \in Buffer
    BY <1>1 DEF Types
  <2>2. line \in Seq(Piece)
    BY <1>1, <2>1 DEF Types
  <2> QED
    BY <2>1, <2>2
<1>5. Complete(c, line) /\ k < Len(line)
  BY <1>1, <1>2 DEF CallerInv, Held, Counts
<1>6. /\ pairs'[c] = k + 1 /\ \A d \in Caller : d # c => pairs'[d] = pairs[d]
  BY <1>1, OneMore DEF Write, Types
<1>7. out' = Append(out, e)
  BY <1>6 DEF Write
<1>8. /\ pc'[c] = (IF last THEN "unlock" ELSE "write")
      /\ \A d \in Caller : d # c => pc'[d] = pc[d]
      /\ written'[c] = (IF last THEN written[c] + 1 ELSE written[c])
      /\ \A d \in Caller : d # c => written'[d] = written[d]
  <2>1. CASE last
    <3>1. Goto(c, "unlock") /\ written' = [written EXCEPT ![c] = @ + 1]
      BY <1>6, <2>1 DEF Write
    <3> QED
      BY <1>1, <2>1, <3>1, GotoTypes, OneMore DEF Types, Working
  <2>2. CASE ~last
    <3>1. pc' = pc /\ written' = written
      BY <1>6, <2>2 DEF Write
    <3> QED
      BY <1>2, <2>2, <3>1
  <2> QED
    BY <2>1, <2>2
<1>9. /\ k = 0 => e = LevelPiece(c)
      /\ last => e = Newline(c)
      /\ k # 0 /\ ~last => e.is = "pair" /\ e.by = c
      /\ k # 0 => line[k].is # "newline" /\ line[k].by = c
      /\ last => k # 0
      /\ e \in Piece
  <2>1. Len(line) >= 2 /\ line[1] = LevelPiece(c) /\ line[Len(line)] = Newline(c)
        /\ \A i \in 2..Len(line)-1 : line[i].is = "pair" /\ line[i].by = c
    BY <1>5 DEF Complete
  <2>2. LevelPiece(c).by = c /\ LevelPiece(c).is = "level"
    BY DEF LevelPiece
  <2>3. k + 1 \in 1..Len(line)
    BY <1>4, <1>5
  <2>4. k # 0 /\ ~last => k + 1 \in 2..Len(line)-1
    BY <1>4, <1>5
  <2>5. k # 0 => k = 1 \/ k \in 2..Len(line)-1
    BY <1>4, <1>5
  <2>6. k # 0 => line[k].is # "newline" /\ line[k].by = c
    <3>1. CASE k = 1
      BY <2>1, <2>2, <3>1
    <3>2. CASE k \in 2..Len(line)-1
      BY <2>1, <3>2
    <3> QED
      BY <2>5, <3>1, <3>2
  <2>7. k = 0 => e = LevelPiece(c)
    BY <2>1
  <2>8. last => e = Newline(c) /\ k # 0
    BY <2>1
  <2>9. e \in Piece
    BY <1>4, <2>3
  <2> QED
    BY <2>1, <2>4, <2>6, <2>7, <2>8, <2>9
<1> HIDE DEF line, e, last
<1>10. /\ LevelPiece(c).by = c /\ LevelPiece(c).is = "level"
       /\ Newline(c).by = c /\ Newline(c).is = "newline"
  BY DEF LevelPiece, Newline
<1>11. /\ e.by = c /\ (e.is = "level" <=> k = 0) /\ (e.is = "newline" <=> last)
  BY <1>9, <1>10
<1>12. out \in Seq(Piece) /\ Whole(out)
  BY <1>1 DEF Types, Outputs
<1>13. k = 0 => Closed(out)
  BY <1>1, <1>3 DEF Outputs, Inside
<1>14. k # 0 => Inside(c) /\ Len(out) > 0 /\ out[Len(out)] = line[k]
  <2>1. ASSUME k # 0 PROVE Inside(c)
    <3>1. k > 0
      BY <1>4, <2>1
    <3> QED
      BY <1>2, <3>1 DEF Inside
  <2> QED
    BY <1>1, <2>1 DEF Outputs, line
<1>15. Whole(out') /\ Grows(out, out')
  <2>1. CASE k = 0
    BY <1>7, <1>9, <1>11, <1>12, <1>13, <2>1, WholeAppended
  <2>2. CASE k # 0
    BY <1>7, <1>9, <1>11, <1>12, <1>14, <2>2, WholeAppended
  <2> QED
    BY <2>1, <2>2
<1>16. /\ Len(out') = Len(out) + 1 /\ out'[Len(out')] = e /\ Len(out) \in Nat
       /\ \A i \in 1..Len(out) : out'[i] = out[i]
  BY <1>7, <1>9, <1>12, Appended
<1>17. Aside(c)
  <2>1. \A d \in Caller : d # c => Alike(d)
    BY <1>6, <1>8 DEF Alike, Write
  <2> QED
    BY <2>1 DEF Aside, Write, setup
<1>18. \A d \in Caller : d # c => CallerInv(d)'
  <2>1. Receives(c, out, out')
    BY <1>11, <1>15, <1>16 DEF Receives
  <2>2. Receives(c, file, file')
    BY DEF Receives, Write
  <2> QED
    BY <1>17, <2>1, <2>2, OthersInv
<1>19. Apart'
  BY <1>2, <1>17, ApartKept DEF Write, Working
<1>20. Mutex'
  BY <1>2, <1>8, <1>17, MutexKept DEF Write
<1>21. Ended'
  BY <1>2 DEF Ended
<1>22. Clean'
  <2>1. ASSUME \A i \in 1..Capacity : array[i] = "value"
        PROVE  Unspoilt(out') /\ \A b \in Buffer : Unspoilt(content[b])
    <3>1. Unspoilt(out) /\ \A b \in Buffer : Unspoilt(content[b])
      BY <2>1 DEF IInv, Sound, Clean
    <3>2. e.says # "overwritten"
      <4>1. Unspoilt(line)
        BY <1>4, <3>1 DEF line
      <4>2. k + 1 \in 1..Len(line)
        BY <1>4, <1>5
      <4> QED
        BY <4>1, <4>2 DEF Unspoilt, e
    <3>3. \A i \in 1..Len(out') : i \in 1..Len(out) \/ i = Len(out')
      BY <1>16
    <3> QED
      BY <1>16, <3>1, <3>2, <3>3 DEF Unspoilt
  <2>2. array' = array /\ content' = content
    BY DEF Write
  <2> QED
    BY <2>1, <2>2 DEF Clean, Unspoilt
<1>23. Counted'
  <2>1. ASSUME NEW d \in Caller PROVE Cardinality(Newlines(d, out')) = written'[d]
    <3>1. Cardinality(Newlines(d, out)) = written[d]
      BY DEF IInv, Sound, Counted
    <3>2. CASE d = c
      <4>1. \A j \in Len(out)+1..Len(out') : out'[j] = Newline(c) <=> (last /\ j = Len(out'))
        BY <1>9, <1>10, <1>11, <1>16
      <4>2. /\ last => Cardinality(Newlines(c, out')) = Cardinality(Newlines(c, out)) + 1
            /\ ~last => Newlines(c, out') = Newlines(c, out)
        BY <1>15, <4>1, CountGrows DEF last
      <4> QED
        BY <1>8, <3>1, <3>2, <4>2
    <3>3. CASE d # c
      <4>1. Newline(d).by = d
        BY DEF Newline
      <4>2. \A j \in Len(out)+1..Len(out') : out'[j] = Newline(d) <=> (FALSE /\ j = Len(out'))
        BY <1>11, <1>16, <3>3, <4>1
      <4>3. Newlines(d, out') = Newlines(d, out)
        BY <1>15, <4>2, CountGrows
      <4> QED
        BY <1>8, <3>1, <3>3, <4>3
    <3> QED
      BY <3>2, <3>3
  <2> QED
    BY <2>1 DEF Counted, Newlines, Newline
<1>24. Outputs'
  <2>1. Whole(out)' /\ Whole(file)' /\ Closed(file)'
    BY <1>1, <1>15 DEF Outputs, Whole, Closed, Write
  <2>2. \A d \in Caller : Inside(d)' => d = c /\ ~last
    BY <1>3, <1>8 DEF Inside
  <2>3. (\A d \in Caller : ~Inside(d)') => Closed(out)'
    <3>1. ~last => Inside(c)'
      BY <1>4, <1>6, <1>8 DEF Inside
    <3>2. last => Closed(out)'
      BY <1>11, <1>16 DEF Closed
    <3> QED
      BY <3>1, <3>2
  <2>4. e = content'[buf'[c]][pairs'[c]]
    BY <1>6 DEF e, line, Write
  <2>5. Len(out') > 0
    BY <1>16
  <2> QED
    BY <1>16, <2>1, <2>2, <2>3, <2>4, <2>5 DEF Outputs
<1>25. CallerInv(c)'
  <2>1. content'[buf'[c]] = line /\ call' = call
    BY DEF Write, line
  <2>2. Held(c)'
    BY <1>5, <1>8, <2>1 DEF Held, Complete, LevelPiece, Newline
  <2>3. Counts(c)'
    <3>1. ~last => k + 1 < Len(line)
      BY <1>4, <1>5 DEF last
    <3> QED
      BY <1>6, <1>8, <2>1, <3>1 DEF Counts
  <2>4. Mode(c)'
    BY <1>1, <1>2, <1>8 DEF CallerInv, Mode, Write, setup
  <2>5. PICK i : LastBegun(c, out', i)
    <3>1. CASE k = 0
      <4>1. Len(out') \in 1..Len(out') /\ \A j \in Len(out')+1..Len(out') : FALSE
        BY <1>16
      <4> QED
        BY <1>9, <1>16, <3>1, <4>1 DEF LastBegun
    <3>2. CASE k # 0
      <4>1. PICK i : LastBegun(c, out, i)
        BY <1>1, <1>14, <3>2 DEF CallerInv, Served
      <4>2. i \in 1..Len(out') /\ out'[i] = LevelPiece(c)
        BY <1>16, <4>1 DEF LastBegun
      <4>3. ASSUME NEW j \in i+1..Len(out'), out'[j].by = c PROVE out'[j].is # "level"
        <5>1. j \in i+1..Len(out) \/ j = Len(out')
          BY <1>16, <4>2
        <5>2. CASE j \in i+1..Len(out)
          <6>1. j \in 1..Len(out)
            BY <1>16, <4>2, <5>2
          <6> QED
            BY <1>16, <4>1, <4>3, <5>2, <6>1 DEF LastBegun
        <5>3. CASE j = Len(out')
          BY <1>11, <1>16, <3>2, <5>3
        <5> QED
          BY <5>1, <5>2, <5>3
      <4> QED
        BY <4>2, <4>3 DEF LastBegun
    <3> QED
      BY <3>1, <3>2
  <2>6. LastBegun(c, out, i)'
    BY <2>1, <2>5 DEF LastBegun, LevelPiece
  <2>7. last => LastDone(c, out)'
    <3>1. ASSUME last PROVE LastDone(c, out')
      <4>1. i \in 1..Len(out') /\ out'[i] = LevelPiece(c) /\ out'[Len(out')] = Newline(c)
        BY <1>9, <1>16, <2>5, <3>1 DEF LastBegun
      <4>2. i # Len(out')
        BY <1>10, <4>1
      <4>3. Len(out') \in i+1..Len(out')
        BY <1>16, <4>1, <4>2
      <4> QED
        BY <2>5, <4>1, <4>3 DEF LastDone
    <3> QED
      BY <2>1, <3>1 DEF LastDone, LastBegun, LevelPiece, Newline
  <2>8. Served(c)'
    BY <1>8, <2>6, <2>7 DEF Served, LastBegun, Inside
  <2> QED
    BY <2>2, <2>3, <2>4, <2>8 DEF CallerInv
<1> QED
  BY <1>18, <1>19, <1>20, <1>21, <1>22, <1>23, <1>24, <1>25 DEF Sound

-----------------------------------------------------------------------------
(* zap's logger.                                                            *)

\* With zap's logger no call is inside its line.
LEMMA ZapMode ==
  ASSUME IInv, NEW c \in Caller, pc[c] \in {"stdout", "file"}
  PROVE  /\ global = "zap" /\ Closed(out) /\ Whole(out) /\ Whole(file) /\ Closed(file)
         /\ \A d \in Caller : pc[d] # "write"
         /\ Complete(c, content[buf[c]]) /\ content[buf[c]] \in Seq(Piece)
         /\ buf[c] \in Buffer /\ out \in Seq(Piece) /\ file \in Seq(Piece)
<1>1. global = "zap"
  BY DEF IInv, Sound, Types, CallerInv, Mode
<1>2. \A d \in Caller : pc[d] # "write"
  BY <1>1 DEF IInv, Sound, CallerInv, Mode
<1>3. Outputs /\ Held(c)
  BY DEF IInv, Sound, CallerInv
<1>4. buf[c] \in Buffer /\ out \in Seq(Piece) /\ file \in Seq(Piece)
  BY DEF IInv, Types
<1>5. content[buf[c]] \in Seq(Piece)
  BY <1>4 DEF IInv, Types
<1> QED
  BY <1>1, <1>2, <1>3, <1>4, <1>5 DEF Outputs, Inside, Held

\* What ends a call of zap's logger.
LEMMA ZapDoneStep ==
  ASSUME IInv, NEW c \in Caller, pc[c] \in {"stdout", "file"}, ZapDone(c),
         UNCHANGED <<setup, exit, array, calls, call, pairs, failed, buf, mu, out, written>>
  PROVE  /\ pc'[c] = (IF call[c].level = "FATAL" THEN "exit" ELSE "idle")
         /\ Aside(c) /\ Apart' /\ Mutex' /\ Clean'
         /\ \A d \in Caller : pc'[d] # "write"
         /\ Held(c)' /\ Counts(c)' /\ Mode(c)'
<1>1. Types /\ CallerInv(c)
  BY DEF IInv, Sound
<1>2. /\ pc'[c] = (IF call[c].level = "FATAL" THEN "exit" ELSE "idle")
      /\ \A d \in Caller : d # c => pc'[d] = pc[d]
  <2>1. AfterLog(call[c]) \in {"idle", "exit"} /\
        (AfterLog(call[c]) = "exit" => call[c].level = "FATAL")
    BY <1>1, CallTypes DEF Types
  <2>2. CASE call[c].level = "FATAL"
    BY <1>1, <2>2, GotoTypes DEF ZapDone
  <2>3. CASE call[c].level # "FATAL"
    BY <1>1, <2>1, <2>3, GotoTypes DEF ZapDone
  <2> QED
    BY <2>2, <2>3
<1>3. /\ buf[c] \in Buffer /\ content'[buf[c]] = <<>>
      /\ \A b \in Buffer : b # buf[c] => content'[b] = content[b]
  BY <1>1, EmptyLine, Updated DEF ZapDone, Types
<1>4. Aside(c)
  <2>1. ASSUME NEW d \in Caller, d # c, pc[d] \in Working PROVE content'[buf[d]] = content[buf[d]]
    BY <1>3, <2>1, OwnBuffer DEF Working
  <2> QED
    BY <1>2, <2>1 DEF Aside, Alike, setup
<1>5. Apart'
  BY <1>2, <1>3, <1>4, ApartGivenBack DEF ZapDone, Working
<1>6. Mutex'
  BY <1>2, <1>4, MutexKept
<1>7. Clean'
  <2>1. Unspoilt(content'[buf[c]])
    BY <1>3, EmptyLine DEF Unspoilt
  <2> QED
    BY <1>3, <2>1, CleanKept
<1>8. \A d \in Caller : pc'[d] # "write"
  BY <1>2, ZapMode
<1>9. Held(c)' /\ Counts(c)' /\ Mode(c)'
  BY <1>1, <1>2 DEF CallerInv, Held, Counts, Mode, setup
<1> QED
  BY <1>2, <1>4, <1>5, <1>6, <1>7, <1>8, <1>9

LEMMA FilteredStep ==
  ASSUME IInv, NEW c \in Caller, Filtered(c)
  PROVE  Sound'
<1>1. pc[c] = "stdout" /\ exit = "" /\ exit' = "" /\ call[c].level # "FATAL"
  BY DEF Filtered, At, Enabled
<1>2. /\ pc'[c] = "idle" /\ Aside(c) /\ Apart' /\ Mutex' /\ Clean'
      /\ Held(c)' /\ Counts(c)' /\ Mode(c)'
  BY <1>1, ZapDoneStep DEF Filtered
<1>3. Quiet(c)
  BY <1>1, <1>2 DEF Quiet, Inside, Filtered
<1>4. Served(c)'
  BY <1>2 DEF Served, Inside
<1> QED
  BY <1>2, <1>3, <1>4, QuietStep DEF Sound, CallerInv

LEMMA WriteStdoutStep ==
  ASSUME IInv, NEW c \in Caller, WriteStdout(c)
  PROVE  Sound'
<1> DEFINE line == content[buf[c]]
<1>1. Types /\ CallerInv(c)
  BY DEF IInv, Sound
<1>2. /\ pc[c] = "stdout" /\ exit = "" /\ exit' = ""
      /\ pc'[c] = "file" /\ \A d \in Caller : d # c => pc'[d] = pc[d]
  BY <1>1, GotoTypes DEF WriteStdout, At, Working
<1>3. /\ written'[c] = written[c] + 1
      /\ \A d \in Caller : d # c => written'[d] = written[d]
  BY <1>1, OneMore DEF WriteStdout, Types
<1>4. /\ global = "zap" /\ Closed(out) /\ Whole(out) /\ Whole(file) /\ Closed(file)
      /\ \A d \in Caller : pc[d] # "write"
      /\ Complete(c, line) /\ line \in Seq(Piece) /\ buf[c] \in Buffer /\ out \in Seq(Piece)
  BY <1>2, ZapMode
<1>5. out' = out \o line
  BY DEF WriteStdout
<1> HIDE DEF line
<1>6. /\ Whole(out') /\ Closed(out') /\ Grows(out, out')
      /\ \A j \in Len(out)+1..Len(out') : out'[j].by = c
      /\ \A j \in Len(out)+1..Len(out') : out'[j] = Newline(c) <=> j = Len(out')
      /\ LastDone(c, out')
  BY <1>4, <1>5, WholeJoined
<1>7. Aside(c)
  BY <1>2 DEF Aside, Alike, WriteStdout, setup
<1>8. \A d \in Caller : d # c => CallerInv(d)'
  <2>1. Receives(c, out, out')
    BY <1>6 DEF Receives
  <2>2. Receives(c, file, file')
    BY DEF Receives, WriteStdout
  <2> QED
    BY <1>7, <2>1, <2>2, OthersInv
<1>9. Apart'
  BY <1>2, <1>7, ApartKept DEF WriteStdout, Working
<1>10. Mutex'
  BY <1>2, <1>7, MutexKept DEF WriteStdout
<1>11. Ended'
  BY <1>2 DEF Ended
<1>12. Clean'
  <2>1. ASSUME \A i \in 1..Capacity : array[i] = "value"
        PROVE  Unspoilt(out') /\ \A b \in Buffer : Unspoilt(content[b])
    <3>1. Unspoilt(out) /\ \A b \in Buffer : Unspoilt(content[b])
      BY <2>1 DEF IInv, Sound, Clean
    <3>2. Unspoilt(line)
      BY <1>4, <3>1 DEF line
    <3>3. /\ Len(out) \in Nat /\ Len(line) \in Nat /\ Len(out') = Len(out) + Len(line)
          /\ \A i \in 1..Len(out) : out'[i] = out[i]
          /\ \A i \in 1..Len(line) : out'[Len(out) + i] = line[i]
      BY <1>4, <1>5, Joined
    <3>4. ASSUME NEW i \in 1..Len(out') PROVE out'[i].says # "overwritten"
      <4>1. CASE i \in 1..Len(out)
        BY <3>1, <3>3, <4>1 DEF Unspoilt
      <4>2. CASE i \notin 1..Len(out)
        <5>1. i - Len(out) \in 1..Len(line) /\ i = Len(out) + (i - Len(out))
          BY <3>3, <4>2
        <5>2. out'[i] = line[i - Len(out)]
          BY <3>3, <5>1
        <5> QED
          BY <3>2, <5>1, <5>2 DEF Unspoilt
      <4> QED
        BY <4>1, <4>2
    <3> QED
      BY <3>1, <3>4 DEF Unspoilt
  <2>2. array' = array /\ content' = content
    BY DEF WriteStdout
  <2> QED
    BY <2>1, <2>2 DEF Clean, Unspoilt
<1>13. Counted'
  <2>1. ASSUME NEW d \in Caller PROVE Cardinality(Newlines(d, out')) = written'[d]
    <3>1. Cardinality(Newlines(d, out)) = written[d]
      BY DEF IInv, Sound, Counted
    <3>2. CASE d = c
      <4>1. \A j \in Len(out)+1..Len(out') : out'[j] = Newline(c) <=> (TRUE /\ j = Len(out'))
        BY <1>6
      <4>2. Cardinality(Newlines(c, out')) = Cardinality(Newlines(c, out)) + 1
        BY <1>6, <4>1, CountGrows
      <4> QED
        BY <1>3, <3>1, <3>2, <4>2
    <3>3. CASE d # c
      <4>1. Newline(d).by = d
        BY DEF Newline
      <4>2. \A j \in Len(out)+1..Len(out') : out'[j] = Newline(d) <=> (FALSE /\ j = Len(out'))
        BY <1>6, <3>3, <4>1
      <4>3. Newlines(d, out') = Newlines(d, out)
        BY <1>6, <4>2, CountGrows
      <4> QED
        BY <1>3, <3>1, <3>3, <4>3
    <3> QED
      BY <3>2, <3>3
  <2> QED
    BY <2>1 DEF Counted, Newlines, Newline
<1>14. Outputs'
  <2>1. Whole(out)' /\ Closed(out)' /\ Whole(file)' /\ Closed(file)'
    BY <1>4, <1>6 DEF Whole, Closed, WriteStdout
  <2>2. \A d \in Caller : ~Inside(d)'
    BY <1>2, <1>4 DEF Inside
  <2> QED
    BY <2>1, <2>2 DEF Outputs
<1>15. CallerInv(c)'
  <2>1. Held(c)'
    BY <1>2, <1>4 DEF Held, Complete, LevelPiece, Newline, WriteStdout, line
  <2>2. Counts(c)' /\ Mode(c)'
    BY <1>1, <1>2 DEF CallerInv, Counts, Mode, WriteStdout, setup
  <2>3. LastDone(c, out)'
    BY <1>6 DEF LastDone, LastBegun, LevelPiece, Newline, WriteStdout
  <2>4. Served(c)'
    BY <1>2, <2>3 DEF Served, Inside
  <2> QED
    BY <2>1, <2>2, <2>4 DEF CallerInv
<1> QED
  BY <1>8, <1>9, <1>10, <1>11, <1>12, <1>13, <1>14, <1>15 DEF Sound

LEMMA WriteFileStep ==
  ASSUME IInv, NEW c \in Caller, WriteFile(c)
  PROVE  Sound'
<1> DEFINE line == content[buf[c]]
<1>1. pc[c] = "file" /\ exit = "" /\ exit' = "" /\ file' = file \o line
  BY DEF WriteFile, At
<1>2. /\ global = "zap" /\ Closed(out) /\ Whole(out) /\ Whole(file) /\ Closed(file)
      /\ Complete(c, line) /\ line \in Seq(Piece) /\ file \in Seq(Piece)
  BY <1>1, ZapMode
<1>3. /\ pc'[c] = (IF call[c].level = "FATAL" THEN "exit" ELSE "idle")
      /\ Aside(c) /\ Apart' /\ Mutex' /\ Clean'
      /\ \A d \in Caller : pc'[d] # "write"
      /\ Held(c)' /\ Counts(c)' /\ Mode(c)'
  BY <1>1, ZapDoneStep DEF WriteFile
<1> HIDE DEF line
<1>4. /\ Whole(file') /\ Closed(file') /\ Grows(file, file')
      /\ \A j \in Len(file)+1..Len(file') : file'[j].by = c
      /\ LastDone(c, file')
  BY <1>1, <1>2, WholeJoined
<1>5. \A d \in Caller : d # c => CallerInv(d)'
  <2>1. Receives(c, file, file')
    BY <1>4 DEF Receives
  <2>2. Receives(c, out, out')
    BY DEF Receives, WriteFile
  <2> QED
    BY <1>3, <2>1, <2>2, OthersInv
<1>6. Ended'
  BY <1>1 DEF Ended
<1>7. Counted'
  BY DEF IInv, Sound, Counted, Newlines, Newline, WriteFile
<1>8. Outputs'
  <2>1. Whole(out)' /\ Closed(out)' /\ Whole(file)' /\ Closed(file)'
    BY <1>2, <1>4 DEF Whole, Closed, WriteFile
  <2>2. \A d \in Caller : ~Inside(d)'
    BY <1>3 DEF Inside
  <2> QED
    BY <2>1, <2>2 DEF Outputs
<1>9. Served(c)'
  <2>1. LastDone(c, out)
    BY <1>1 DEF IInv, Sound, CallerInv, Served
  <2>2. LastDone(c, out)' /\ LastDone(c, file)'
    BY <1>4, <2>1 DEF LastDone, LastBegun, LevelPiece, Newline, WriteFile
  <2>3. call' = call
    BY DEF WriteFile
  <2> QED
    BY <1>3, <2>2, <2>3 DEF Served, Inside
<1> QED
  BY <1>3, <1>5, <1>6, <1>7, <1>8, <1>9 DEF Sound, CallerInv

-----------------------------------------------------------------------------
(* The invariant and the theorems.                                          *)

LEMMA InvInit == Init => IInv
<1> SUFFICES ASSUME Init PROVE IInv
  OBVIOUS
<1>1. Types
  <2>1. NoCall \in CallSpec /\ MaxLine \in Nat /\ (CHOOSE b \in Buffer : TRUE) \in Buffer
        /\ 0 \in 0..MaxLine
    <3>1. Capacity \in Nat /\ MaxLine \in Nat /\ Buffer # {}
      BY LoggingAssumption
    <3>2. 0 \in 0..Capacity /\ 0 \in 0..MaxLine
      BY <3>1
    <3>3. NoCall \in CallSpec
      BY <3>2 DEF NoCall, CallSpec, LogLevel
    <3>4. \E b \in Buffer : TRUE
      BY <3>1
    <3> QED
      BY <3>1, <3>2, <3>3, <3>4
  <2> QED
    BY <2>1, EmptyLine DEF Init, Types, LogLevel
<1>2. Apart
  BY DEF Init, Apart, Working
<1>3. Mutex
  <2>1. Nobody \notin Caller
    BY LoggingAssumption
  <2> QED
    BY <2>1 DEF Init, Mutex
<1>4. Outputs /\ Clean
  <2>1. out = <<>> /\ file = <<>> /\ \A b \in Buffer : content[b] = <<>>
    BY DEF Init
  <2>2. Whole(out) /\ Whole(file) /\ Unspoilt(out) /\ \A b \in Buffer : Unspoilt(content[b])
    BY <2>1, EmptyLine DEF Whole, Unspoilt
  <2>3. Closed(out) /\ Closed(file) /\ \A c \in Caller : ~Inside(c)
    BY <2>1 DEF Init, Closed, Inside
  <2> QED
    BY <2>2, <2>3 DEF Outputs, Clean
<1>5. Counted
  <2>1. ASSUME NEW c \in Caller PROVE Newlines(c, out) = {}
    <3>1. out = <<>>
      BY DEF Init
    <3> QED
      BY <3>1, EmptyLine DEF Newlines
  <2> QED
    BY <2>1, FS_EmptySet DEF Init, Counted
<1>6. Ended /\ \A c \in Caller : CallerInv(c)
  BY DEF Init, Ended, CallerInv, Held, Counts, Mode, Served, Inside
<1> QED
  BY <1>1, <1>2, <1>3, <1>4, <1>5, <1>6 DEF IInv, Sound

LEMMA InvNext == IInv /\ [Next]_vars => IInv'
<1> SUFFICES ASSUME IInv, [Next]_vars PROVE Sound'
  BY TypesNext DEF IInv
<1>0. Types'
  BY TypesNext
<1>1. ASSUME NEW level \in LogLevel, SetLogger("zap", level) PROVE Sound'
  BY <1>1, SetLoggerStep
<1>2. ASSUME NEW logger \in {"std", "discard", "self"}, SetLogger(logger, "INFO")
      PROVE  Sound'
  BY <1>2, SetLoggerStep
<1>3. CASE CallSelf
  BY <1>3, EndStep DEF CallSelf
<1>4. ASSUME NEW c \in Caller, NEW spec \in Asked,
             CallNothing(c, spec) \/ CallStd(c, spec) \/ CallZap(c, spec)
      PROVE  Sound'
  BY <1>4, CallNothingStep, CallStdStep, CallZapStep
<1>5. ASSUME NEW c \in Caller, WriteLevel(c) \/ WritePair(c) \/ WriteNewline(c) \/ Reset(c)
      PROVE  Sound'
  BY <1>5, WriteLevelStep, WritePairStep, WriteNewlineStep, ResetStep
<1>6. ASSUME NEW c \in Caller, IndexOutOfRange(c) PROVE Sound'
  BY <1>6, EndStep DEF IndexOutOfRange
<1>7. ASSUME NEW c \in Caller, Lock(c) \/ Write(c) \/ WriteFails(c) \/ Unlock(c) \/ Put(c)
      PROVE  Sound'
  BY <1>0, <1>7, LockStep, WriteStep, WriteFailsStep, UnlockStep, PutStep
<1>8. ASSUME NEW c \in Caller, Filtered(c) \/ WriteStdout(c) \/ WriteFile(c) PROVE Sound'
  BY <1>8, FilteredStep, WriteStdoutStep, WriteFileStep
<1>9. ASSUME NEW c \in Caller, Exit(c) PROVE Sound'
  BY <1>9, EndStep DEF Exit, At
<1>10. CASE UNCHANGED vars
  <2>1. exit' = "fatal" => \E c \in Caller : pc[c] = "exit"
    BY <1>10 DEF IInv, Sound, Ended, vars
  <2> QED
    BY <1>10, <2>1, EndStep DEF vars
<1> QED
  BY <1>1, <1>2, <1>3, <1>4, <1>5, <1>6, <1>7, <1>8, <1>9, <1>10 DEF Next, Run

LEMMA Invariance == Spec => []IInv
<1> QED
  BY InvInit, InvNext, PTL DEF Spec

\* Every variable stays in its type, and a buffer in the pool is empty: the
\* buffer that sync.Pool hands out holds nothing of an earlier line.
THEOREM TypeCorrect == Spec => []TypeOK
<1>1. IInv => TypeOK
  BY DEF IInv, Sound, Types, Apart, TypeOK, Working
<1> QED
  BY <1>1, Invariance, PTL

\* Whichever way the goroutines interleave, and whether the writer fails or not,
\* an output is a sequence of whole lines, one for each call that was served,
\* and a line says what its caller passed as long as no array was appended to.
THEOREM LinesAreWhole == Spec => []LinesWhole
<1>1. IInv => LinesWhole
  BY DEF IInv, Sound, Outputs, Counted, Newlines, Clean, Unspoilt, LinesWhole
<1> QED
  BY <1>1, Invariance, PTL

\* When Fatal ends the process, the last line of its caller is the fatal one and
\* it is out, in every output that the logger has.
THEOREM FatalEnds == Spec => []FatalEndsIt
<1>1. ASSUME IInv, NEW c \in Caller, NEW output, LastDone(c, output),
             call[c].level = "FATAL"
      PROVE  LastIsFatal(c, output)
  BY <1>1 DEF LastDone, LastBegun, LastIsFatal, LevelPiece
<1>2. IInv => FatalEndsIt
  <2> SUFFICES ASSUME IInv, exit = "fatal"
               PROVE  \E c \in Caller :
                        /\ pc[c] = "exit" /\ call[c].level = "FATAL"
                        /\ \/ failed[c] \/ global = "discard"
                           \/ (global = "std" /\ call[c].n = 0)
                           \/ /\ LastIsFatal(c, out)
                              /\ global = "zap" => LastIsFatal(c, file)
    BY DEF FatalEndsIt
  <2>1. PICK c \in Caller : pc[c] = "exit"
    BY DEF IInv, Sound, Ended
  <2>2. Served(c)
    BY DEF IInv, Sound, CallerInv
  <2> QED
    BY <1>1, <2>1, <2>2 DEF Served
<1> QED
  BY <1>2, Invariance, PTL
=============================================================================
