---------------------------- MODULE ClientSettings ----------------------------
(****************************************************************************)
(* The numbers the Kafka, MySQL and Redis clients and the logger take from  *)
(* the environment (defaultConfig of kafka/kafka.go and mysql/mysql.go,     *)
(* defaultRedisConfig of redis/redis.go, defaultLogConfig of                *)
(* logger/logger.go), from the text of a variable to what the library is    *)
(* handed.  The fields also carry env tags, so that config.LoadConfig reads *)
(* the same variables in its own way (setField of config/config.go).        *)
(*                                                                          *)
(* A text is abstracted to what the readers tell apart: unset, only white   *)
(* space, something that is no number, or a number, with or without white   *)
(* space around it and a sign before it.                                    *)
(****************************************************************************)
EXTENDS Integers

CONSTANTS Word,    \* the number of values of a uint32
          MaxInt,  \* the greatest int
          Number   \* the numbers a text may be of

ASSUME WordAssumption ==
  /\ Word \in Nat /\ MaxInt \in Nat
  /\ 6379 < Word  \* the defaults fit
  /\ (MaxInt + 1) % Word = 0
  /\ Number \subseteq Int

MaxUint == 2 * MaxInt + 1

Text ==
  [form : {"unset", "blank", "word"}] \cup
  {t \in [form : {"number"}, padded : BOOLEAN, signed : BOOLEAN, n : Number] :
     t.n < 0 => t.signed}

Unset == [form |-> "unset"]

KafkaNumber == {"KafkaMaxOpenRequests", "KafkaDialTimeout", "KafkaReadTimeout",
                "KafkaWriteTimeout"}
MysqlNumber == {"MysqlPort", "MysqlConnMaxIdleTime", "MysqlConnMaxLifetime",
                "MysqlMaxIdleConns", "MysqlMaxOpenConns"}
RedisNumber == {"RedisPort", "RedisDialTimeout", "RedisReadTimeout",
                "RedisWriteTimeout"}

LogNumber == {"LogMaxSize", "LogMaxAge", "LogMaxBackups"}  \* the only ints

Setting == KafkaNumber \cup MysqlNumber \cup RedisNumber \cup LogNumber

\* A number as the source writes its defaults.
Default(n) == [form |-> "number", padded |-> FALSE, signed |-> FALSE, n |-> n]

-----------------------------------------------------------------------------
(* The readers.                                                             *)

emptyOr(t, default) ==
  CASE t.form \in {"unset", "blank"} -> Default(default)
    [] t.form = "number" -> [t EXCEPT !.padded = FALSE]
    [] OTHER -> t

Clamp(low, n, high) == IF n < low THEN low ELSE IF n > high THEN high ELSE n

\* Mistake: a number that does not fit a uint32 brought to its greatest.
AtoiOfWord(t) ==
  IF t.form = "number" THEN Clamp(0, t.n, Word - 1) ELSE 0

\* Its error is dropped: what is no number is 0, what is out of range the
\* nearest int.
Atoi(t) ==
  IF t.form = "number" THEN Clamp(-MaxInt - 1, t.n, MaxInt) ELSE 0

uint32(n) == n % Word

ReadNumber(t, default) == uint32(Atoi(emptyOr(t, default)))

\* setField trims no number, takes a sign for an int only, reports what it
\* cannot read and cuts what is too wide for the field.
LoadEnvAccepts(s, t) ==
  /\ t.form = "number" /\ ~t.padded
  /\ IF s \in LogNumber THEN t.n \in -MaxInt - 1 .. MaxInt
     ELSE ~t.signed /\ t.n <= MaxUint

LoadEnvReads(s, t) == IF s \in LogNumber THEN t.n ELSE uint32(t.n)

-----------------------------------------------------------------------------
(* What each library is handed.                                             *)

KafkaNumbers(env) == [s \in KafkaNumber |-> ReadNumber(env[s], 10)]

MysqlDefault ==
  [s \in MysqlNumber |->
     CASE s = "MysqlPort" -> 3306
       [] s \in {"MysqlConnMaxIdleTime", "MysqlConnMaxLifetime"} -> 300
       [] OTHER -> 60]

MysqlNumbers(env) == [s \in MysqlNumber |-> ReadNumber(env[s], MysqlDefault[s])]

defaultRedisConfig(env) ==
  [s \in RedisNumber |-> ReadNumber(env[s], IF s = "RedisPort" THEN 6379 ELSE 10)]

\* Both NewRedis and NewRedisV8 hand over the timeout for reads as the one for
\* dialling too.
RedisNumbers(env) ==
  [defaultRedisConfig(env) EXCEPT
     !["RedisDialTimeout"] = defaultRedisConfig(env)["RedisReadTimeout"]]

LogNumbers(env) == [s \in LogNumber |-> Atoi(emptyOr(env[s], 0))]

\* sarama's Validate, as far as these settings go: no number may be 0, and of
\* the mechanisms only the plain one, also the default, needs nothing more
\* than user and password.
Validates(numbers, sasl, mechanism) ==
  /\ \A s \in KafkaNumber : numbers[s] > 0
  /\ sasl => mechanism \in {"", "PLAIN"}
=============================================================================
