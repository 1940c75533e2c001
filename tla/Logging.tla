------------------------------- MODULE Logging -------------------------------
(****************************************************************************)
(* Package logger: goroutines call Log and Fatal, of the package or of a    *)
(* Helper, on the logger that SetLogger chose: stdLogger (std.go), which    *)
(* puts a line together in a buffer from a sync.Pool and writes it under a  *)
(* mutex, or the logger that NewLogger builds on zap (logger.go), which     *)
(* writes to the standard output and to a file.                             *)
(*                                                                          *)
(* A line is a sequence of pieces: the level, the pairs and the newline.    *)
(* The values of a call are in an array of its own, or in one that the      *)
(* callers share, as slices passed with ... do that were appended to the    *)
(* same slice.                                                              *)
(*                                                                          *)
(* External: the pool hands out any buffer it was given back, or a new one; *)
(* the writer of stdLogger takes a line piece by piece, and may fail; a     *)
(* file, and lumberjack, take one whole; zap ends the process after a line  *)
(* of level fatal, also one that it did not write.                          *)
(****************************************************************************)
EXTENDS Naturals, Sequences, FiniteSets

CONSTANTS
  Caller,      \* the goroutines that log
  Buffer,      \* the buffers there can be: enough for every caller
  Capacity,    \* bound on the values passed to a call; the shared array's size
  MaxLine,     \* bound on the calls ever made
  Asked,       \* the calls considered
  Nobody       \* stands for an unlocked mutex

LogLevel == {"INFO", "FATAL"}

\* n values, in the shared array or not; exits: by way of Fatal, at its level.
CallSpec ==
  {spec \in [n : 0..Capacity, shared : BOOLEAN, level : LogLevel, exits : BOOLEAN] :
     spec.exits => spec.level = "FATAL"}

ASSUME LoggingAssumption ==
  /\ Asked \subseteq CallSpec
  /\ Capacity \in Nat /\ MaxLine \in Nat
  /\ Nobody \notin Caller /\ Buffer # {}

VARIABLES
  global,   \* the logger: "std", "discard", "zap", or "self", made of GetLogger()
  minLevel, \* the level of zap's logger
  exit,     \* why the process has ended, or ""
  array,    \* what the shared array holds
  calls,    \* calls made
  call,     \* the present or last call of each: its values, level and kind
  pc,       \* where each call stands
  pairs,    \* the pairs it still has to add, then the pieces written
  failed,   \* the writer failed it
  buf,      \* the buffer it uses
  content,  \* what each buffer holds
  free,     \* the buffers that are in the pool, or not made yet
  mu,       \* the goroutine that holds the mutex
  out,      \* what was written to the writer, or to the standard output
  file,     \* what zap wrote to its file
  written   \* calls of each that wrote their line

setup == <<global, minLevel>>
vars == <<setup, exit, array, calls, call, pc, pairs, failed, buf, content, free,
          mu, out, file, written>>

Piece == [by : Caller, is : {"level", "pair", "newline"},
          says : LogLevel \cup {"kept", "overwritten", ""}]
LevelPiece(c) == [by |-> c, is |-> "level", says |-> call[c].level]
Newline(c) == [by |-> c, is |-> "newline", says |-> ""]

\* A buffer in the pool is empty, so that what is taken from it is.
TypeOK ==
  /\ global \in {"std", "discard", "zap", "self"} /\ minLevel \in LogLevel
  /\ exit \in {"", "fatal", "panic", "overflow"}
  /\ array \in [1..Capacity -> {"value", "UNPAIRED"}]
  /\ calls \in 0..MaxLine /\ call \in [Caller -> CallSpec]
  /\ pc \in [Caller -> {"idle", "level", "pairs", "lock", "write", "unlock", "reset",
                        "put", "stdout", "file", "exit"}]
  /\ pairs \in [Caller -> Nat] /\ failed \in [Caller -> BOOLEAN]
  /\ buf \in [Caller -> Buffer]
  /\ content \in [Buffer -> Seq(Piece)]
  /\ free \subseteq Buffer
  /\ \A b \in free : content[b] = <<>>
  /\ mu \in Caller \cup {Nobody}
  /\ out \in Seq(Piece) /\ file \in Seq(Piece)
  /\ written \in [Caller -> Nat]

NoCall == [n |-> 0, shared |-> FALSE, level |-> "INFO", exits |-> FALSE]

\* init sets the default logger, a stdLogger.
Init ==
  /\ global = "std" /\ minLevel = "INFO" /\ exit = ""
  /\ array = [i \in 1..Capacity |-> "value"]
  /\ calls = 0 /\ call = [c \in Caller |-> NoCall]
  /\ pc = [c \in Caller |-> "idle"]
  /\ pairs = [c \in Caller |-> 0]
  /\ failed = [c \in Caller |-> FALSE]
  /\ buf = [c \in Caller |-> CHOOSE b \in Buffer : TRUE]
  /\ content = [b \in Buffer |-> <<>>]
  /\ free = Buffer
  /\ mu = Nobody
  /\ out = <<>> /\ file = <<>>
  /\ written = [c \in Caller |-> 0]

Goto(c, label) == pc' = [pc EXCEPT ![c] = label]
Add(c, piece) == content' = [content EXCEPT ![buf[c]] = Append(@, piece)]
At(c, label) == exit = "" /\ pc[c] = label

-----------------------------------------------------------------------------
(* SetLogger, "before any other log call", and the calls.                   *)

SetLogger(logger, level) ==
  /\ calls = 0 /\ exit = ""
  /\ global' = logger /\ minLevel' = level
  /\ UNCHANGED <<exit, array, calls, call, pc, pairs, failed, buf, content, free,
                 mu, out, file, written>>

\* A logger made of GetLogger() calls itself until the stack is used up.
CallSelf ==
  /\ global = "self" /\ exit = "" /\ calls < MaxLine
  /\ exit' = "overflow"
  /\ UNCHANGED <<setup, array, calls, call, pc, pairs, failed, buf, content, free,
                 mu, out, file, written>>

\* The call returns, or with Fatal goes on to os.Exit.
AfterLog(spec) == IF spec.exits THEN "exit" ELSE "idle"

Calls(c, spec) ==
  /\ At(c, "idle") /\ calls < MaxLine /\ calls' = calls + 1
  /\ call' = [call EXCEPT ![c] = spec]
  /\ failed' = [failed EXCEPT ![c] = FALSE]

TakeBuffer(c) == \E b \in free : free' = free \ {b} /\ buf' = [buf EXCEPT ![c] = b]

\* stdLogger returns at once when it discards or when there are no values.
CallNothing(c, spec) ==
  /\ Calls(c, spec) /\ global \in {"std", "discard"}
  /\ global = "discard" \/ spec.n = 0
  /\ Goto(c, AfterLog(spec))
  /\ UNCHANGED <<setup, exit, array, pairs, buf, content, free, mu, out, file, written>>

\* It gives an odd last value a partner, by appending to the caller's slice.
CallStd(c, spec) ==
  /\ Calls(c, spec) /\ global = "std" /\ spec.n > 0
  /\ array' = IF spec.shared /\ spec.n % 2 = 1 /\ spec.n < Capacity
              THEN [array EXCEPT ![spec.n + 1] = "UNPAIRED"] ELSE array
  /\ TakeBuffer(c)
  /\ pairs' = [pairs EXCEPT ![c] = (spec.n + 1) \div 2]
  /\ Goto(c, "level")
  /\ UNCHANGED <<setup, exit, content, mu, out, file, written>>

\* zap's logger collects its fields in a buffer of the call's own.
CallZap(c, spec) ==
  /\ Calls(c, spec) /\ global = "zap"
  /\ TakeBuffer(c)
  /\ pairs' = [pairs EXCEPT ![c] = (spec.n + 1) \div 2]
  /\ Goto(c, "level")
  /\ UNCHANGED <<setup, exit, array, content, mu, out, file, written>>

-----------------------------------------------------------------------------
(* Putting a line together.                                                 *)

WriteLevel(c) ==
  /\ At(c, "level")
  /\ Add(c, LevelPiece(c))
  /\ Goto(c, "pairs")
  /\ UNCHANGED <<setup, exit, array, calls, call, pairs, failed, buf, free, mu, out,
                 file, written>>

\* What a call finds in its slice where it was passed a value.
Says(c, i) ==
  IF call[c].shared /\ i <= call[c].n /\ array[i] # "value" THEN "overwritten" ELSE "kept"

\* The index of the first value that has not been added.
NextValue(c) == 2 * ((call[c].n + 1) \div 2 - pairs[c]) + 1

Pair(c) ==
  [by |-> c, is |-> "pair",
   says |-> IF "overwritten" \in {Says(c, i) : i \in {NextValue(c), NextValue(c) + 1}}
            THEN "overwritten" ELSE "kept"]

WritePair(c) ==
  /\ At(c, "pairs") /\ pairs[c] > 0
  /\ global = "std" \/ NextValue(c) < call[c].n
  /\ Add(c, Pair(c))
  /\ pairs' = [pairs EXCEPT ![c] = @ - 1]
  /\ UNCHANGED <<setup, exit, array, calls, call, pc, failed, buf, free, mu, out,
                 file, written>>

\* zap's logger looks for the partner of an odd last value past the end.
IndexOutOfRange(c) ==
  /\ At(c, "pairs") /\ pairs[c] > 0
  /\ global = "zap" /\ NextValue(c) = call[c].n
  /\ exit' = "panic"
  /\ UNCHANGED <<setup, array, calls, call, pc, pairs, failed, buf, content, free,
                 mu, out, file, written>>

WriteNewline(c) ==
  /\ At(c, "pairs") /\ pairs[c] = 0
  /\ Add(c, Newline(c))
  /\ Goto(c, IF global = "std" THEN "lock" ELSE "stdout")
  /\ UNCHANGED <<setup, exit, array, calls, call, pairs, failed, buf, free, mu, out,
                 file, written>>

-----------------------------------------------------------------------------
(* stdLogger: the mutex, the write and the deferred calls, the last first.  *)

\* Mutant: the mutex is not taken.
LockNot(c) ==
  /\ At(c, "lock")
  /\ mu' = c
  /\ Goto(c, "write")
  /\ UNCHANGED <<setup, exit, array, calls, call, pairs, failed, buf, content, free,
                 out, file, written>>

Lock(c) ==
  /\ At(c, "lock") /\ mu = Nobody
  /\ mu' = c
  /\ Goto(c, "write")
  /\ UNCHANGED <<setup, exit, array, calls, call, pairs, failed, buf, content, free,
                 out, file, written>>

\* The writer takes the next piece of the buffer; pairs counts those it took.
Write(c) ==
  /\ At(c, "write")
  /\ pairs' = [pairs EXCEPT ![c] = @ + 1]
  /\ out' = Append(out, content[buf[c]][pairs'[c]])
  /\ IF pairs'[c] = Len(content[buf[c]])
     THEN Goto(c, "unlock") /\ written' = [written EXCEPT ![c] = @ + 1]
     ELSE UNCHANGED <<pc, written>>
  /\ UNCHANGED <<setup, exit, array, calls, call, failed, buf, content, free, mu, file>>

WriteFails(c) ==
  /\ At(c, "write") /\ pairs[c] = 0
  /\ failed' = [failed EXCEPT ![c] = TRUE]
  /\ Goto(c, "unlock")
  /\ UNCHANGED <<setup, exit, array, calls, call, pairs, buf, content, free, mu, out,
                 file, written>>

\* Mutant: an error returns without the deferred Unlock.
UnlockForgotten(c) ==
  /\ At(c, "unlock")
  /\ mu' = IF failed[c] THEN mu ELSE Nobody
  /\ Goto(c, "reset")
  /\ UNCHANGED <<setup, exit, array, calls, call, pairs, failed, buf, content, free,
                 out, file, written>>

Unlock(c) ==
  /\ At(c, "unlock")
  /\ mu' = Nobody
  /\ Goto(c, "reset")
  /\ UNCHANGED <<setup, exit, array, calls, call, pairs, failed, buf, content, free,
                 out, file, written>>

\* Mutant: the buffer is put back in the pool before it is reset.
ResetLate(c) ==
  /\ exit = "" /\ pc[c] \in {"reset", "put"}
  /\ free' = free \cup {buf[c]}
  /\ content' = IF pc[c] = "put" THEN [content EXCEPT ![buf[c]] = <<>>] ELSE content
  /\ Goto(c, IF pc[c] = "reset" THEN "put" ELSE AfterLog(call[c]))
  /\ UNCHANGED <<setup, exit, array, calls, call, pairs, failed, buf, mu, out, file,
                 written>>

Reset(c) ==
  /\ At(c, "reset")
  /\ content' = [content EXCEPT ![buf[c]] = <<>>]
  /\ Goto(c, "put")
  /\ UNCHANGED <<setup, exit, array, calls, call, pairs, failed, buf, free, mu, out,
                 file, written>>

Put(c) ==
  /\ At(c, "put")
  /\ free' = free \cup {buf[c]}
  /\ pairs' = [pairs EXCEPT ![c] = 0]
  /\ Goto(c, AfterLog(call[c]))
  /\ UNCHANGED <<setup, exit, array, calls, call, failed, buf, content, mu, out, file,
                 written>>

-----------------------------------------------------------------------------
(* zap: the level is looked at last; then both outputs, without a lock.     *)

Enabled(level) == minLevel = "INFO" \/ level = "FATAL"

ZapDone(c) ==
  /\ content' = [content EXCEPT ![buf[c]] = <<>>]
  /\ free' = free \cup {buf[c]}
  /\ Goto(c, IF call[c].level = "FATAL" THEN "exit" ELSE AfterLog(call[c]))

Filtered(c) ==
  /\ At(c, "stdout") /\ ~Enabled(call[c].level)
  /\ ZapDone(c)
  /\ UNCHANGED <<setup, exit, array, calls, call, pairs, failed, buf, mu, out, file,
                 written>>

\* Mutant: a fatal line ends the process before the second output has it.
WriteStdoutExit(c) ==
  /\ At(c, "stdout") /\ Enabled(call[c].level)
  /\ out' = out \o content[buf[c]]
  /\ written' = [written EXCEPT ![c] = @ + 1]
  /\ Goto(c, IF call[c].level = "FATAL" THEN "exit" ELSE "file")
  /\ UNCHANGED <<setup, exit, array, calls, call, pairs, failed, buf, content, free,
                 mu, file>>

WriteStdout(c) ==
  /\ At(c, "stdout") /\ Enabled(call[c].level)
  /\ out' = out \o content[buf[c]]
  /\ written' = [written EXCEPT ![c] = @ + 1]
  /\ Goto(c, "file")
  /\ UNCHANGED <<setup, exit, array, calls, call, pairs, failed, buf, content, free,
                 mu, file>>

WriteFile(c) ==
  /\ At(c, "file")
  /\ file' = file \o content[buf[c]]
  /\ ZapDone(c)
  /\ UNCHANGED <<setup, exit, array, calls, call, pairs, failed, buf, mu, out, written>>

Exit(c) ==
  /\ At(c, "exit")
  /\ exit' = "fatal"
  /\ UNCHANGED <<setup, array, calls, call, pc, pairs, failed, buf, content, free,
                 mu, out, file, written>>

-----------------------------------------------------------------------------
Run(c) ==
  \/ WriteLevel(c) \/ WritePair(c) \/ IndexOutOfRange(c) \/ WriteNewline(c)
  \/ Write(c) \/ WriteFails(c) \/ Unlock(c) \/ Reset(c) \/ Put(c)
  \/ Filtered(c) \/ WriteStdout(c) \/ WriteFile(c) \/ Exit(c)

Next ==
  \/ \E level \in LogLevel : SetLogger("zap", level)
  \/ \E logger \in {"std", "discard", "self"} : SetLogger(logger, "INFO")
  \/ CallSelf
  \/ \E c \in Caller :
       \/ Lock(c) \/ Run(c)
       \/ \E spec \in Asked : CallNothing(c, spec) \/ CallStd(c, spec) \/ CallZap(c, spec)

Spec == Init /\ [][Next]_vars

\* A goroutine inside Log is scheduled, the writer returns, and sync.Mutex
\* starves no waiter.  A caller need not call.
Fairness == \A c \in Caller : WF_vars(Run(c)) /\ SF_vars(Lock(c))

FairSpec == Spec /\ Fairness

-----------------------------------------------------------------------------
(* Properties.                                                              *)

\* The output is a sequence of whole lines, the last one perhaps still being
\* written: a line starts with a level, ends with a newline and is all one
\* caller's.
Whole(output) ==
  \A i \in 1..Len(output) :
    IF i = 1 \/ output[i - 1].is = "newline" THEN output[i].is = "level"
    ELSE output[i].is # "level" /\ output[i].by = output[i - 1].by

\* "It also can be used concurrently by multiple goroutines" (std.go:14): every
\* output is made of whole lines, every call that was served has its line and no
\* call has two, and a line says what its caller passed, unless a call on the
\* same array made stdLogger append to it.
LinesWhole ==
  /\ Whole(out) /\ Whole(file)
  /\ \A c \in Caller : Cardinality({i \in 1..Len(out) : out[i] = Newline(c)}) = written[c]
  /\ (\A i \in 1..Capacity : array[i] = "value") =>
       \A i \in 1..Len(out) : out[i].says # "overwritten"

\* The last line of a caller in an output is of level fatal.
LastIsFatal(c, output) ==
  \E i \in 1..Len(output) :
    /\ output[i] = [by |-> c, is |-> "level", says |-> "FATAL"]
    /\ \A j \in i+1..Len(output) : output[j].by = c => output[j].is # "level"
    /\ \E j \in i+1..Len(output) : output[j] = Newline(c)

\* Fatal does not end the process before its line is out, in both outputs of
\* zap's logger, unless the writer failed or there was nothing to write.
FatalEndsIt ==
  exit = "fatal" =>
    \E c \in Caller :
      /\ pc[c] = "exit" /\ call[c].level = "FATAL"
      /\ \/ failed[c] \/ global = "discard" \/ (global = "std" /\ call[c].n = 0)
         \/ LastIsFatal(c, out) /\ (global = "zap" => LastIsFatal(c, file))

\* Every call returns, whatever becomes of the others, or the process ends; with
\* Fatal it ends in any case.
EveryCallReturns ==
  \A c \in Caller :
    /\ pc[c] # "idle" ~> (pc[c] = "idle" \/ exit # "")
    /\ (pc[c] # "idle" /\ call[c].exits) ~> exit # ""
=============================================================================
