----------------------------- MODULE HttpClient -----------------------------
(***************************************************************************)
(* HttpClient.request: one call makes at most MaxRetries + 1 attempts.  It *)
(* sleeps and repeats after a transient HTTP status or a network error,    *)
(* raises at once after any other status, and lets exceptions it does not  *)
(* name escape.                                                            *)
(*                                                                         *)
(* The caller starts a call with Request and ends it with Reset; between   *)
(* the two the caller is blocked.  attempts and slept are histories of the *)
(* failures and of the sleeps of the current call.                         *)
(***************************************************************************)
EXTENDS Integers, Sequences

CONSTANTS
    MaxRetries,   \* max_retries
    Codes,        \* HTTP status codes a server may answer with, 200 apart
    NoStatus      \* status None: the attempt got no HTTP answer

ASSUME HttpAssumption == MaxRetries \in Nat /\ Codes \subseteq Nat /\ NoStatus \notin Nat

VARIABLES
    call,      \* where the call is
    attempt,   \* the loop variable
    status,    \* HttpResponse.status or HttpRequestError.status
    retries,   \* HttpResponse.retries or HttpRequestError.retries
    slept,     \* history: the seconds of each sleep
    attempts   \* history: how each failed attempt of this call failed

httpVars == <<call, attempt, status, retries, slept, attempts>>

Calls == {"none", "sending", "sleeping", "returned", "raised", "escaped"}

HttpTypeOK ==
    /\ call \in Calls /\ attempt \in 0..MaxRetries
    /\ status \in Codes \cup {200, NoStatus} /\ retries \in 0..MaxRetries
    /\ slept \in Seq({2^n : n \in 0..MaxRetries}) /\ attempts \in Seq(Codes \cup {NoStatus})

HttpInit ==
    /\ call = "none" /\ attempt = 0 /\ status = NoStatus /\ retries = 0
    /\ slept = <<>> /\ attempts = <<>>

Transient(code) == code \in {408, 425, 429} \/ code >= 500

Request ==
    /\ call = "none" /\ call' = "sending"
    /\ UNCHANGED <<attempt, status, retries, slept, attempts>>

\* Mutant: retries counts the attempts.
FinishCountsAttempts(how, code) ==
    /\ call' = how /\ status' = code
    /\ retries' = IF attempt < MaxRetries THEN attempt + 1 ELSE attempt
    /\ UNCHANGED <<attempt, slept>>

Finish(how, code) ==
    /\ call' = how /\ status' = code /\ retries' = attempt
    /\ UNCHANGED <<attempt, slept>>

Respond ==
    /\ call = "sending" /\ Finish("returned", 200)
    /\ UNCHANGED attempts

Sleep == call' = "sleeping" /\ UNCHANGED <<attempt, status, retries, slept>>

HttpError ==
    /\ call = "sending"
    /\ \E code \in Codes :
          /\ attempts' = Append(attempts, code)
          /\ IF Transient(code) /\ attempt < MaxRetries THEN Sleep ELSE Finish("raised", code)

\* Mutant: one attempt too many.
NetworkErrorOnceMore ==
    /\ call = "sending"
    /\ attempts' = Append(attempts, NoStatus)
    /\ IF attempt <= MaxRetries THEN Sleep ELSE Finish("raised", NoStatus)

\* URLError, TimeoutError, ConnectionError: repeated, then raised without a status.
NetworkError ==
    /\ call = "sending"
    /\ attempts' = Append(attempts, NoStatus)
    /\ IF attempt < MaxRetries THEN Sleep ELSE Finish("raised", NoStatus)

\* Any other exception, an http.client.IncompleteRead from read() for one.
Escape ==
    /\ call = "sending" /\ call' = "escaped"
    /\ attempts' = Append(attempts, NoStatus)
    /\ UNCHANGED <<attempt, status, retries, slept>>

Wake ==
    /\ call = "sleeping" /\ call' = "sending"
    /\ slept' = Append(slept, 2^attempt)
    /\ attempt' = attempt + 1
    /\ UNCHANGED <<status, retries, attempts>>

HttpStep == Respond \/ HttpError \/ NetworkError \/ Escape \/ Wake

Reset ==
    /\ call' = "none" /\ attempt' = 0 /\ status' = NoStatus /\ retries' = 0
    /\ slept' = <<>> /\ attempts' = <<>>

-----------------------------------------------------------------------------
\* What a caller may rely on when the call is over: every failure but the last
\* was worth repeating, a failure that is not worth it or is the last one
\* allowed ended the call, and the reported status and retries are those of
\* the last attempt.  It sleeps once before each retry, twice as long each
\* time, and never after its last attempt.
RetriesExact ==
    call \in {"returned", "raised"} =>
       LET failed == Len(attempts)
           repeated(n) == attempts[n] = NoStatus \/ Transient(attempts[n])
       IN /\ Len(slept) = retries /\ \A n \in 1..retries : slept[n] = 2^(n - 1)
          /\ call = "returned" =>
                /\ retries = failed /\ status = 200
                /\ \A n \in 1..failed : repeated(n)
          /\ call = "raised" =>
                /\ retries = failed - 1 /\ status = attempts[failed]
                /\ \A n \in 1..(failed - 1) : repeated(n)
                /\ repeated(failed) => failed = MaxRetries + 1
=============================================================================
