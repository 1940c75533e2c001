----------------------------- MODULE ErrorCodes -----------------------------
(***************************************************************************)
(* cerr: the codes of errors, the HTTP status each answers with, and       *)
(* RegisterCode, which adds to both maps while requests are served.  It    *)
(* holds a mutex; the readers of the maps do not.  A read during a write   *)
(* is a data race on a Go map: it finds what was there, what will be       *)
(* there or nothing, or it ends the process ("concurrent map read and map  *)
(* write").                                                                *)
(*                                                                         *)
(* Codes stand for their numbers; the messages are left out.               *)
(***************************************************************************)
EXTENDS Integers

CONSTANTS
  NewCode,   \* codes applications add
  Status     \* the HTTP statuses they register them with

VARIABLES
  codes,       \* [codes added so far -> HTTP status]
  registering, \* what RegisterCode is writing into the maps, or nothing
  alive        \* the process has not ended in a data race

codeVars == <<codes, registering, alive>>

\* The codes of cerr with an HTTP status of their own, and some without one.
BuiltIn == [SCode |-> 200, EUnknownCode |-> 500, EParamUnparsedCode |-> 400,
            EInvalidParamCode |-> 400, EDataNotFoundCode |-> 404]
WithoutStatus == {"EDBErrorCode"}

ErrCode == DOMAIN BuiltIn \cup WithoutStatus \cup NewCode

ASSUME CodeAssumption ==
  /\ NewCode \cap (DOMAIN BuiltIn \cup WithoutStatus) = {}
  /\ Status \subseteq Int

NoCode == [code |-> "none", status |-> 0]

CodesTypeOK ==
  /\ DOMAIN codes \subseteq NewCode /\ \A c \in DOMAIN codes : codes[c] \in Status
  /\ registering \in {NoCode} \cup [code : NewCode, status : Status]
  /\ alive \in BOOLEAN

CodesInit == codes = << >> /\ registering = NoCode /\ alive = TRUE

\* Mistake: a code that exists is overwritten.
RegisterCodeTwice(code, status) ==
  /\ alive /\ registering = NoCode
  /\ registering' = [code |-> code, status |-> status]
  /\ UNCHANGED <<codes, alive>>

\* RegisterCode takes the lock and refuses a code that exists.
RegisterCode(code, status) ==
  /\ alive /\ registering = NoCode
  /\ code \notin DOMAIN codes
  /\ registering' = [code |-> code, status |-> status]
  /\ UNCHANGED <<codes, alive>>

\* The maps are written and the lock is released.
CodeRegistered ==
  /\ alive /\ registering # NoCode
  /\ codes' = [c \in DOMAIN codes \cup {registering.code} |->
                 IF c = registering.code THEN registering.status ELSE codes[c]]
  /\ registering' = NoCode
  /\ UNCHANGED alive

DefaultStatus == 500

\* The status of a code that nobody writes meanwhile.
StatusOf(code) ==
  IF code \in DOMAIN BuiltIn THEN BuiltIn[code]
  ELSE IF code \in DOMAIN codes THEN codes[code] ELSE DefaultStatus

\* What AsHTTPCode may return.
AsHTTPCode(code) ==
  {StatusOf(code)} \cup
    (IF registering = NoCode THEN {}
     ELSE {DefaultStatus} \cup (IF code = registering.code THEN {registering.status} ELSE {}))

\* A read of the maps while they are written, which the runtime detects.
DataRace == alive /\ registering # NoCode /\ alive' = FALSE
            /\ UNCHANGED <<codes, registering>>

\* Mistake: an error without a code stays without.
FromUncoded(outcome) == outcome

\* cerr.From: only an error with a code keeps it.
From(outcome) == IF outcome \in ErrCode THEN outcome ELSE "EUnknownCode"
=============================================================================
