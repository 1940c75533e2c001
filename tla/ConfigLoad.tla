----------------------------- MODULE ConfigLoad -----------------------------
(***************************************************************************)
(* LoadConfig of config/config.go: one struct filled from up to four       *)
(* sources, one pass after another, YAML first, then the environment, then *)
(* the standard flag set, then the POSIX flag set.  Each pass overwrites   *)
(* what it is given, leaves the rest alone, and stops the call at its      *)
(* first error, with everything written so far left in the struct.         *)
(*                                                                         *)
(* A value is abstracted to the source that wrote it.  The struct is       *)
(* abstracted to its leaves; a struct nested by value behaves as if its    *)
(* leaves were declared in the outer one, and is.  What the passes tell    *)
(* apart is kept: whether a leaf is a scalar, a slice or a pointer to a    *)
(* scalar, whether it sits in a struct behind a pointer (the one pointer   *)
(* called the holder), whether it carries a flag tag, and the order of     *)
(* declaration.  Not modelled: destinations that are protobuf messages,    *)
(* YAML nulls, pointers to pointers.                                       *)
(***************************************************************************)
EXTENDS Naturals, Sequences

CONSTANTS Leaf,      \* the fields values are stored in
          Order,     \* [Leaf -> Nat], their order of declaration
          Shape,     \* what the caller's struct may look like: see below
          MaxCalls,  \* bound: calls of LoadConfig on the same struct
          NoLeaf     \* not a leaf

Source == {"yaml", "env", "flag", "pflag"}
FlagLib == {"flag", "pflag"}

ASSUME LeafAssumption ==
  /\ Order \in [Leaf -> Nat]
  /\ \A f, g \in Leaf : Order[f] = Order[g] => f = g
  /\ NoLeaf \notin Leaf

\* A shape gives the kind of each leaf, the leaves behind the holder pointer,
\* which are declared together and are no pointers themselves, and the leaves
\* with a flag tag.
ASSUME ShapeAssumption ==
  /\ Shape \subseteq [kind   : [Leaf -> {"Scalar", "Slice", "Pointer"}],
                      held   : SUBSET Leaf,
                      tagged : SUBSET Leaf]
  /\ \A s \in Shape :
       /\ \A f, g \in s.held, h \in Leaf :
             Order[f] < Order[h] /\ Order[h] < Order[g] => h \in s.held
       /\ \A f \in s.held : s.kind[f] # "Pointer"

ASSUME CallsAssumption == MaxCalls \in Nat

VARIABLES
  shape,       \* the type of the struct
  dst,         \* what each leaf holds: see Value
  before,      \* dst when the current call began
  passes,      \* the sources still to be read, a sequence
  given,       \* the sources that held a value for each leaf in this call
  registered,  \* the leaves whose flag each flag set knows
  result,      \* "none" before the first call, then what the call came to
  calls        \* calls made so far

loadVars == <<shape, dst, before, passes, given, registered, result, calls>>

\* "Absent": no storage (a nil pointer on the way); "Default": storage no
\* source of any call wrote; "Mangled": a list whose elements were not all
\* readable, taken as zero or left half decoded.
Value == Source \cup {"Absent", "Default", "Mangled"}

Result == {"none", "loading", "ok", "error", "panic"}

Kind == shape.kind
Held == shape.held
Tagged == shape.tagged

\* What the caller may leave without storage.
MayBeNil == Held \cup {f \in Leaf : Kind[f] = "Pointer"}

Before(f, g) == Order[f] < Order[g]

\* The leaves a walk in declaration order visits before it stops at e.
Reached(e) == IF e = NoLeaf THEN Leaf ELSE {f \in Leaf : Before(f, e)}

HolderIsNil == \E f \in Held : dst[f] = "Absent"

-----------------------------------------------------------------------------
LoadInit ==
  /\ shape \in Shape
  /\ \E nil \in SUBSET MayBeNil :
       /\ Held \subseteq nil \/ Held \cap nil = {}
       /\ dst = [f \in Leaf |-> IF f \in nil THEN "Absent" ELSE "Default"]
  /\ before = dst
  /\ passes = << >>
  /\ given = [f \in Leaf |-> {}]
  /\ registered = [l \in FlagLib |-> {}]
  /\ result = "none"
  /\ calls = 0

\* The options only ever switch a source on, and the environment is on from
\* the start.
defaultConfigOptions == {"env"}

Options == {defaultConfigOptions \cup more : more \in SUBSET {"yaml", "flag", "pflag"}}

PassIf(s, opts) == IF s \in opts THEN <<s>> ELSE << >>

\* Mistake: the environment read last.
PassesOfEnvLast(opts) ==
  PassIf("yaml", opts) \o PassIf("flag", opts) \o PassIf("pflag", opts) \o PassIf("env", opts)

PassesOf(opts) ==
  PassIf("yaml", opts) \o PassIf("env", opts) \o PassIf("flag", opts) \o PassIf("pflag", opts)

LoadConfig ==
  /\ result # "loading" /\ result # "panic" /\ calls < MaxCalls
  /\ \E opts \in Options : passes' = PassesOf(opts)
  /\ before' = dst
  /\ given' = [f \in Leaf |-> {}]
  /\ result' = "loading"
  /\ calls' = calls + 1
  /\ UNCHANGED <<shape, dst, registered>>

Reading(s) == result = "loading" /\ passes # << >> /\ Head(passes) = s

\* A pass over source s that found values for the leaves in `from`.
PassEnds(s, from, failed) ==
  /\ given' = [f \in Leaf |-> given[f] \cup (IF f \in from THEN {s} ELSE {})]
  /\ passes' = IF failed THEN << >> ELSE Tail(passes)
  /\ result' = IF failed THEN "error" ELSE result
  /\ UNCHANGED <<shape, before, calls>>

Return ==
  /\ result = "loading" /\ passes = << >>
  /\ result' = "ok"
  /\ UNCHANGED <<shape, dst, before, passes, given, registered, calls>>

-----------------------------------------------------------------------------
(* YAML.  The file is decoded to a map, the map encoded as JSON and the    *)
(* JSON decoded into the struct, which allocates every pointer on the way. *)

LoadYamlFails ==
  /\ Reading("yaml")
  /\ PassEnds("yaml", {}, TRUE)
  /\ UNCHANGED <<dst, registered>>

\* The decoder goes on past a value of the wrong type and reports it at the
\* end: a wrong list may be left half decoded, a wrong scalar is skipped
\* after its storage has been made.
Unmarshal(from, wrong) ==
  LET Allocated(f) == \/ f \in from
                      \/ f \in Held /\ from \cap Held # {}
      Spared(f) == IF dst[f] = "Absent" /\ Allocated(f) THEN "Default" ELSE dst[f]
  IN  {v \in [Leaf -> Value] :
         \A f \in Leaf :
           v[f] \in IF f \in from \ wrong THEN {"yaml"}
                    ELSE IF f \in wrong /\ Kind[f] = "Slice"
                         THEN {Spared(f), "Mangled"}
                         ELSE {Spared(f)}}

LoadYaml ==
  /\ Reading("yaml")
  /\ \E from \in SUBSET Leaf : \E wrong \in SUBSET from :
       /\ dst' \in Unmarshal(from, wrong)
       /\ PassEnds("yaml", from, wrong # {})
  /\ UNCHANGED registered

-----------------------------------------------------------------------------
(* The environment.  parseEnv walks the struct; an unset or empty variable *)
(* is skipped and an unreadable one ends the walk.                         *)

\* setField and setSliceField report the first value they cannot read; a list
\* is stored only when all its elements are read.
setField(from, bad) == {f \in from \cap Reached(bad) : Kind[f] # "Slice"}
setSliceField(from, bad) == {f \in from \cap Reached(bad) : Kind[f] = "Slice"}

EnvRead(from, bad) == setField(from, bad) \cup setSliceField(from, bad)

\* Mistake: the new struct stored whatever parseEnv says.
HolderStoredAlways(from, bad) == Held \subseteq Reached(bad)

\* Behind a nil holder the values go to a new struct, which is stored only if
\* parseEnv on it says that a field was set; a list does not count.
HolderStored(from, bad) ==
  /\ Held \subseteq Reached(bad)
  /\ setField(from, bad) \cap Held # {}

\* Mistake: the leaves behind the holder stored one by one.
parseEnvLeafByLeaf(from, bad) ==
  [f \in Leaf |-> IF f \in EnvRead(from, bad) THEN "env" ELSE dst[f]]

\* A nil pointer to a scalar gets no such step: the value is set on a new
\* element that nothing points to.
parseEnv(from, bad) ==
  [f \in Leaf |->
     IF f \in Held /\ HolderIsNil
     THEN IF ~HolderStored(from, bad) THEN "Absent"
          ELSE IF f \in from THEN "env" ELSE "Default"
     ELSE IF f \in EnvRead(from, bad) /\ dst[f] # "Absent" THEN "env"
     ELSE dst[f]]

LoadEnv ==
  /\ Reading("env")
  /\ \E from \in SUBSET Leaf : \E bad \in from \cup {NoLeaf} :
       /\ dst' = parseEnv(from, bad)
       /\ PassEnds("env", from, bad # NoLeaf)
  /\ UNCHANGED registered

-----------------------------------------------------------------------------
(* Flags.  The walk registers a flag for each tagged leaf, with the leaf   *)
(* itself as the variable and its present value as the default, then the   *)
(* arguments are parsed from left to right.                                *)

\* A struct behind a pointer is not walked: its tags are never seen.
Walked == Tagged \ Held

\* A tagged leaf of a type the switch does not list ends the walk.
Unsupported(f) == Kind[f] = "Pointer"

FlagNames(bad) == Walked \cap Reached(bad)

FirstUnsupported(bad) ==
  \/ bad = NoLeaf /\ \A f \in Walked : ~Unsupported(f)
  \/ /\ bad \in Walked /\ Unsupported(bad)
     /\ \A f \in FlagNames(bad) : ~Unsupported(f)

\* A flag set does not take the same name twice.
Redefines(lib, bad) == FlagNames(bad) \cap registered[lib] # {}

RegisterAgain(lib) ==
  /\ Reading(lib)
  /\ \E bad \in Leaf \cup {NoLeaf} : FirstUnsupported(bad) /\ Redefines(lib, bad)
  /\ result' = "panic"
  /\ passes' = << >>
  /\ UNCHANGED <<shape, dst, before, given, registered, calls>>

\* Mistake: a flag registered with zero as its default, which the flag set
\* stores in the variable at once.
RegisterFailsZeroed(lib) ==
  /\ Reading(lib)
  /\ \E bad \in Leaf :
       /\ FirstUnsupported(bad) /\ ~Redefines(lib, bad)
       /\ registered' = [registered EXCEPT ![lib] = @ \cup FlagNames(bad)]
       /\ dst' = [f \in Leaf |-> IF f \in FlagNames(bad) THEN "Default" ELSE dst[f]]
  /\ PassEnds(lib, {}, TRUE)

RegisterFails(lib) ==
  /\ Reading(lib)
  /\ \E bad \in Leaf :
       /\ FirstUnsupported(bad) /\ ~Redefines(lib, bad)
       /\ registered' = [registered EXCEPT ![lib] = @ \cup FlagNames(bad)]
  /\ PassEnds(lib, {}, TRUE)
  /\ UNCHANGED dst

\* sliceValue.Set takes an element it cannot read as zero and reports no
\* error; the flag of a scalar stores what it could make of the text and then
\* reports the error.
Set(lib, readable) == IF readable THEN lib ELSE "Mangled"

\* Parse stops at an argument it does not know or whose flag reports an error;
\* the flags before it have been set.
Parse(lib) ==
  /\ Reading(lib)
  /\ FirstUnsupported(NoLeaf) /\ ~Redefines(lib, NoLeaf)
  /\ registered' = [registered EXCEPT ![lib] = @ \cup FlagNames(NoLeaf)]
  /\ \E from \in SUBSET FlagNames(NoLeaf), failed \in BOOLEAN :
     \E unread \in SUBSET from :
       /\ \A f \in unread : Kind[f] = "Scalar" => failed
       /\ \A f, g \in unread : Kind[f] = "Scalar" /\ Kind[g] = "Scalar" => f = g
       /\ dst' = [f \in Leaf |->
                    IF f \in from THEN Set(lib, f \notin unread) ELSE dst[f]]
       /\ PassEnds(lib, from, failed)

LoadFlag ==
  RegisterAgain("flag") \/ RegisterFails("flag") \/ Parse("flag")

LoadPFlag ==
  RegisterAgain("pflag") \/ RegisterFails("pflag") \/ Parse("pflag")

LoadNext ==
  \/ LoadConfig \/ Return
  \/ LoadYamlFails \/ LoadYaml
  \/ LoadEnv
  \/ LoadFlag \/ LoadPFlag

LoadSpec == LoadInit /\ [][LoadNext]_loadVars

-----------------------------------------------------------------------------
(* Properties.                                                             *)

\* Types; and the leaves behind the holder have storage together or not at
\* all.
LoadTypeOK ==
  /\ shape \in Shape
  /\ dst \in [Leaf -> Value] /\ before \in [Leaf -> Value]
  /\ \A f, g \in Held : dst[f] = "Absent" => dst[g] = "Absent"
  /\ passes \in Seq(Source) /\ Len(passes) <= 4
  /\ given \in [Leaf -> SUBSET Source]
  /\ registered \in [FlagLib -> SUBSET (Tagged \ Held)]
  /\ result \in Result /\ calls \in 0 .. MaxCalls

Rank == [yaml |-> 1, env |-> 2, flag |-> 3, pflag |-> 4]

Highest(S) == CHOOSE s \in S : \A t \in S : Rank[t] <= Rank[s]

\* The order LoadConfig's comment states (flag > env > yaml), over a struct
\* that earlier calls may have filled and in which pointers may be nil: after
\* a call that reports success, a leaf that has storage and for which some
\* source had a value holds the one of the highest such source.  A list given
\* by flag may be that source's list misread, and nothing else may.
Priority ==
  result = "ok" =>
    \A f \in Leaf :
      given[f] # {} /\ dst[f] # "Absent" =>
        \/ dst[f] = Highest(given[f])
        \/ /\ dst[f] = "Mangled" /\ Kind[f] = "Slice"
           /\ Highest(given[f]) \in FlagLib

\* Whatever becomes of the call, a leaf for which no source read so far had a
\* value is as the caller passed it; at most it has been given storage, because
\* something next to it behind the holder was set.
Untouched ==
  result # "none" =>
    \A f \in Leaf :
      given[f] = {} =>
        \/ dst[f] = before[f]
        \/ /\ before[f] = "Absent" /\ dst[f] = "Default"
           /\ \E g \in Held : f \in Held /\ given[g] # {} /\ g # f
=============================================================================
