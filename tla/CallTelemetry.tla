--------------------------- MODULE CallTelemetry ---------------------------
(***************************************************************************)
(* What the redis, database and object storage clients report of a call    *)
(* on its span and its duration point.                                     *)
(*                                                                         *)
(* An error is the set of facts that errors.Is and errors.As find in it;   *)
(* nil is the empty set.  "absent" is redis.Nil or sql.ErrNoRows, "server" *)
(* an answer of the server with an error code, "prefix" a redis answer     *)
(* that begins with an upper-case word, "deadlineText" and "canceledText"  *)
(* are words of the message.                                               *)
(***************************************************************************)
EXTENDS Naturals

CONSTANTS Errors,       \* the results of commands, statements and operations
          Inputs,       \* the inputs of S3 operations: [shape, bucket]
          MaxCommands,  \* bound: the commands of a pipeline
          Chains        \* the errors whose classes are compared

\* An input without a bucket to find has none.
InputsWellFormed ==
    /\ Inputs \subseteq [shape : {"listed", "unlisted", "fieldless", "nil"}, bucket : {"", "bucket"}]
    /\ \A in \in Inputs : in.shape \in {"fieldless", "nil"} => in.bucket = ""
    /\ MaxCommands \in Nat

ASSUME TelemetryAssumption == InputsWellFormed

redisErrorCode(e) == IF {"server", "prefix"} \subseteq e THEN "code" ELSE ""

redisErrorType(e) ==
    IF "deadline" \in e THEN "timeout"
    ELSE IF "canceled" \in e THEN "canceled"
    ELSE IF e \cap {"nettimeout", "pooltimeout"} # {} THEN "timeout"
    ELSE IF redisErrorCode(e) # "" THEN redisErrorCode(e)
    ELSE "_OTHER"

dbErrorCode(e) == IF "server" \in e THEN "code" ELSE ""

\* The type of errorInfo; dbErrorCode is its code.
dbErrorType(e) ==
    IF "server" \in e THEN "code"
    ELSE IF "deadline" \in e THEN "timeout"
    ELSE IF "canceled" \in e THEN "canceled"
    ELSE IF "nettimeout" \in e THEN "timeout"
    ELSE "_OTHER"

\* An OperationError has the facts of the error that it wraps.
s3ErrorType(e) ==
    IF "server" \in e THEN "code"
    ELSE IF "deadline" \in e THEN "timeout"
    ELSE IF "canceled" \in e THEN "canceled"
    ELSE IF "nettimeout" \in e THEN "timeout"
    ELSE IF "refused" \in e THEN "connection_refused"
    ELSE IF "reset" \in e THEN "connection_reset"
    ELSE IF "dns" \in e THEN "dns_error"
    ELSE IF "net" \in e THEN "network_error"
    ELSE IF "deadlineText" \in e THEN "timeout"
    ELSE IF "canceledText" \in e THEN "canceled"
    ELSE "_OTHER"

\* ErrorType of the NATS packages.
natsErrorType(e) ==
    IF "panic" \in e THEN "panic"
    ELSE IF e \cap {"coded", "server"} # {} THEN "code"
    ELSE IF e \cap {"deadline", "natstimeout", "nettimeout"} # {} THEN "timeout"
    ELSE IF "canceled" \in e THEN "canceled"
    ELSE "_OTHER"

\* redis.Nil and sql.ErrNoRows are results, not errors.
Failure(e) == e # {} /\ "absent" \notin e

\* What instrument reports of a command or a statement; {} for none.
Reported(e) == IF Failure(e) THEN e ELSE {}

Earliest(S) == CHOOSE i \in S : \A j \in S : i <= j

\* The error that go-redis returns of a pipeline: the first of its commands.
FirstError(results) ==
    LET failed == {i \in DOMAIN results : results[i] # {}}
    IN  IF failed = {} THEN {} ELSE results[Earliest(failed)]

\* Seeded bug: the telemetry of a pipeline looks at the pipeline's error only.
ReportedOfPipelineFirst(results) ==
    IF Failure(FirstError(results)) THEN FirstError(results) ELSE {}

\* errToReport of instrumentPipeline: the error of the whole, or the first
\* command whose own error is a failure.
ReportedOfPipeline(results) ==
    IF Failure(FirstError(results)) THEN FirstError(results)
    ELSE LET own == {i \in DOMAIN results : Failure(results[i])}
         IN  IF own = {} THEN {} ELSE results[Earliest(own)]

\* The input of an S3 operation: [shape, bucket], where the shape is a type of
\* the switch ("listed"), another struct with a Bucket ("unlisted"), one
\* without that field ("fieldless"), a nil pointer or no input ("nil"), and the
\* bucket is "" if its pointer is nil.
reflectBucket(in) == IF in.shape = "unlisted" THEN in.bucket ELSE ""
extractBucket(in) ==
    IF in.shape = "nil" THEN "" ELSE IF in.shape = "listed" THEN in.bucket ELSE reflectBucket(in)

\* attrs of the three clients: an attribute without a value is left out.
attrs(values) == [k \in {k \in DOMAIN values : values[k] # ""} |-> values[k]]

\* The attributes of a call of redis (one command or a pipeline) whose error is
\* e, {} for none; of a statement; of an S3 operation.
redisAttrs(e) == attrs([type |-> IF e = {} THEN "" ELSE redisErrorType(e), code |-> redisErrorCode(e)])
dbAttrs(e)    == attrs([type |-> IF e = {} THEN "" ELSE dbErrorType(e), code |-> dbErrorCode(e)])
s3Attrs(e, in) == attrs([type |-> IF e = {} THEN "" ELSE s3ErrorType(e), bucket |-> extractBucket(in)])

\* instrument of redis and of db, instrumentPipeline, and HandleInitialize and
\* finish of s3: the attributes that they put on the span and on the point.
Telemetry(kind, results, in) ==
    CASE kind = "cmd"      -> redisAttrs(Reported(results[1]))
      [] kind = "pipeline" -> redisAttrs(ReportedOfPipeline(results))
      [] kind = "db"       -> dbAttrs(Reported(results[1]))
      [] kind = "s3"       -> s3Attrs(results[1], in)

-----------------------------------------------------------------------------
(* The telemetry of a call tells what happened: error.type is there        *)
(* exactly when one of the call's commands failed, even in a pipeline      *)
(* whose own error is the absent value of an earlier command; it is the    *)
(* class of the first failure, never of an absent value; a status code is  *)
(* there only with the answer of a server.                                 *)
ReportsFirstFailure(kind, results, in) ==
    LET t == Telemetry(kind, results, in)
        failed == {i \in DOMAIN results : results[i] # {} /\ (kind = "s3" \/ "absent" \notin results[i])}
        first == results[Earliest(failed)]
    IN  /\ ("type" \in DOMAIN t) <=> (failed # {})
        /\ failed # {} => t.type = CASE kind = "s3" -> s3ErrorType(first)
                                     [] kind = "db" -> dbErrorType(first)
                                     [] OTHER       -> redisErrorType(first)
        /\ "code" \in DOMAIN t => "server" \in first
        /\ ("bucket" \in DOMAIN t) <=> (kind = "s3" /\ in.bucket # "")

(* The four clients give the same class to the same cause: an error that   *)
(* is a deadline, a timeout of the network or a cancellation is a timeout, *)
(* or canceled, for every one of them, whatever else is in its chain, if   *)
(* no server answered.  (An error that is a cancellation and a timeout of  *)
(* the network or of NATS at once has no one class.)                       *)
ClassesAgree(e) ==
    LET late == e \cap {"deadline", "nettimeout"} # {}
        class == IF late THEN "timeout" ELSE "canceled"
    IN  (/\ late \/ "canceled" \in e
         /\ e \cap {"server", "coded", "panic"} = {}
         /\ ("canceled" \in e /\ e \cap {"nettimeout", "natstimeout"} # {}) => "deadline" \in e)
        => {redisErrorType(e), dbErrorType(e), s3ErrorType(e), natsErrorType(e)} = {class}

\* Both, for all of the constants.
CallsTold ==
    /\ \A kind \in {"cmd", "db", "s3"}, e \in Errors, in \in Inputs : ReportsFirstFailure(kind, <<e>>, in)
    /\ \A n \in 1..MaxCommands : \A results \in [1..n -> Errors] :
          ReportsFirstFailure("pipeline", results, [shape |-> "nil", bucket |-> ""])
    /\ \A e \in Chains : ClassesAgree(e)
=============================================================================
