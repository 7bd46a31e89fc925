--------------------------- MODULE ProviderErrors ---------------------------
(***************************************************************************)
(* The error vocabulary that crosses the Provider port and the decision    *)
(* functions over it (application/provider_errors.go and the Default*      *)
(* functions of provider_router.go).                                       *)
(*                                                                         *)
(* A Go error is a chain of wrapped errors and the code only ever asks     *)
(* whether some link of the chain matches (errors.Is, errors.As).  An      *)
(* error is therefore modelled as the set of links it carries; nil is the  *)
(* empty set and wrapping adds a link.  A chain holds at most one          *)
(* ProviderError, so the first match errors.As finds is the only one.      *)
(***************************************************************************)

\* ProviderError.Kind, split by what the decision functions tell apart.
TransientKinds == {"unavailable", "rate_limited", "server_error"}
TerminalKinds  == {"authentication", "invalid_request"}
ProviderFailureKinds == TransientKinds \cup TerminalKinds

\* context.Canceled and context.DeadlineExceeded.
ContextErrors == {"canceled", "deadline"}

\* "attempt_timeout" is the router's AttemptTimeoutError, "exhausted" the
\* router's own last resort error, "opaque" any error of another type.
Links == ProviderFailureKinds \cup ContextErrors
           \cup {"attempt_timeout", "exhausted", "opaque"}

Errors   == SUBSET Links
NilError == {}

\* &AttemptTimeoutError{Cause: err}: Unwrap keeps every link of the cause
\* visible to errors.Is and errors.As.
AttemptTimeoutError(err) == err \cup {"attempt_timeout"}

IsRetryableProviderError(err) == err \cap TransientKinds # {}

IsFallbackEligibleProviderError(err) ==
  "attempt_timeout" \in err \/ IsRetryableProviderError(err)

DefaultRetryableProviderError(err) ==
  \/ "attempt_timeout" \in err
  \/ /\ err \cap ContextErrors = {}
     /\ IsRetryableProviderError(err)

\* The bug of a fallback to the next vendor after any failure at all.
DefaultFallbackAllowed_AnyFailure(err) == err # NilError

DefaultFallbackAllowed(err) ==
  "attempt_timeout" \in err \/ IsFallbackEligibleProviderError(err)
=============================================================================
