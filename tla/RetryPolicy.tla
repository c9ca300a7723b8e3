------------------------------ MODULE RetryPolicy ------------------------------
(***************************************************************************)
(* Result classification and retry policy of the scheduled capture         *)
(* (crawl_service/classification.py).  Pure: what one answer of the        *)
(* capture boundary means for the job and its tracked event.               *)
(***************************************************************************)
EXTENDS Integers

CONSTANTS
  MaxAttempts,       \* scheduled_capture_max_attempts
  ParserRetryLimit,  \* scheduled_capture_parser_retry_limit
  Backoff,           \* backoff of the n-th attempt, a function of n
  RetryAfters        \* delays a source may ask for with Retry-After

SUCCESS == {"SUCCESS_RECORD_PRESENT", "SUCCESS_RECORD_ABSENT"}
BACKOFF == {"SOURCE_UNAVAILABLE", "RATE_LIMITED", "TIMEOUT"}
PARSER  == {"PARSER_FAILED", "INVALID_RESPONSE"}
ResultCodes == SUCCESS \cup BACKOFF \cup PARSER \cup {"TERMINAL_EVENT"}

(***************************************************************************)
(* No attempt beyond the larger budget is ever retried, so Backoff needs   *)
(* no value for one.                                                       *)
(***************************************************************************)
ASSUME RetryAssumption ==
  /\ MaxAttempts \in Nat \ {0}
  /\ ParserRetryLimit \in Nat \ {0}
  /\ Backoff \in [1 .. MaxAttempts + ParserRetryLimit -> Nat \ {0}]
  /\ RetryAfters \subseteq Nat \ {0}

(***************************************************************************)
(* min(base * 2^(attempt - 1), cap); the models define Backoff with it.    *)
(***************************************************************************)
BackoffSeconds(attempt, base, cap) ==
  LET exp == base * 2^(attempt - 1)
  IN  IF exp < cap THEN exp ELSE cap

(***************************************************************************)
(* decide_retry: the failure codes are either terminal or retried.         *)
(***************************************************************************)
Terminal(result, attempt) ==
  \/ result = "TERMINAL_EVENT"
  \/ result \in PARSER /\ attempt >= ParserRetryLimit
  \/ result \in BACKOFF /\ attempt >= MaxAttempts

NeedsReview(result) == result \in PARSER

RetryDelays(result, attempt) ==
  {Backoff[attempt]} \cup IF result = "RATE_LIMITED" THEN RetryAfters ELSE {}
================================================================================
