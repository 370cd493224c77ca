------------------------------ MODULE Providers ------------------------------
(***************************************************************************)
(* The adapters of providers/: what complete() makes of one reply of the   *)
(* service, and when it is attempted again.  A reply is                    *)
(*   "limited"    status 429 (the SDK's RateLimitError)                    *)
(*   "failed"     any other status, a time-out or a transport error        *)
(*   "malformed"  a reply without choices                                  *)
(*   "unmetered"  an answer without its usage                              *)
(*   "metered"    an answer with its usage                                 *)
(***************************************************************************)
EXTENDS Naturals

CONSTANT MaxAttempts  \* stop_after_attempt, 5 in the code

ASSUME ProviderAssumption == MaxAttempts \in Nat \ {0}

Adapters == {"groq", "openrouter", "gemini"}
Replies == {"limited", "failed", "malformed", "unmetered", "metered"}

\* complete() of the SDK's client: an answer without usage has no attribute
\* prompt_tokens, which raises outside the try.
complete_groq(reply) ==
  IF reply = "limited" THEN "RateLimitError"
  ELSE IF reply = "failed" THEN "ProviderError"
  ELSE IF reply \in {"malformed", "unmetered"} THEN "other error"
  ELSE "charged"

\* The two that speak HTTP read an absent usage as no tokens.
complete_openrouter(reply) ==
  IF reply = "limited" THEN "RateLimitError"
  ELSE IF reply = "failed" THEN "ProviderError"
  ELSE IF reply = "malformed" THEN "other error"
  ELSE IF reply = "unmetered" THEN "free" ELSE "charged"

complete_gemini(reply) ==
  IF reply = "limited" THEN "RateLimitError"
  ELSE IF reply = "failed" THEN "ProviderError"
  ELSE IF reply = "malformed" THEN "other error"
  ELSE IF reply = "unmetered" THEN "free" ELSE "charged"

complete(adapter, reply) ==
  CASE adapter = "groq" -> complete_groq(reply)
    [] adapter = "openrouter" -> complete_openrouter(reply)
    [] adapter = "gemini" -> complete_gemini(reply)

\* retry_if_exception_type(RateLimitError), stop_after_attempt
Retries(outcome, attempt) == outcome = "RateLimitError" /\ attempt < MaxAttempts

=============================================================================
