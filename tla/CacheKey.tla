------------------------------ MODULE CacheKey ------------------------------
(***************************************************************************)
(* BuildCacheKey (application/cache_policy.go), called for one request     *)
(* after another.  No code of the gateway calls it yet.                    *)
(*                                                                         *)
(* A text is a sequence of characters, among them the digits and the       *)
(* colon that the encoding itself uses; a blank text is the empty one.     *)
(* Lengths are written with Digits (ten in the code), so that lengths of   *)
(* several digits need no long texts.  "s" and "e" stand for the tags      *)
(* "subject:" and "evidence:".  SHA-256 is taken to be injective: the key  *)
(* is the text that is hashed.                                             *)
(*                                                                         *)
(* As in ProviderRouter, X_Y is X with the plausible bug Y.                *)
(***************************************************************************)
EXTENDS Integers, SequencesExt

CONSTANTS
  Characters,  \* what texts are made of
  Digits,      \* the characters of the numerals of lengths, in their order
  Requests,    \* the arguments of the calls
  MaxKeys      \* no more keys than this are built

Base == Len(Digits)

Texts == Seq(Characters)

\* What BuildCacheKey is called with.
Arguments ==
  [tenantID : Texts, taskType : Texts, taskSchemaVersion : Texts, promptVersion : Texts,
   outputSchemaVersion : Texts, prompt : Texts,
   subjectIDs : Seq(Texts), evidenceIDs : Seq(Texts)]

ASSUME CharactersAssumption == {":", "s", "e"} \subseteq Characters
ASSUME DigitsAssumption ==
  Digits \in Seq(Characters \ {":"}) /\ Base > 1 /\ IsInjective(Digits)
ASSUME RequestsAssumption == Requests \subseteq Arguments

VARIABLE issued  \* [request, key] of the calls that returned a key

Numeral[n \in Nat] ==
  IF n < Base THEN <<Digits[n + 1]>>
              ELSE Append(Numeral[n \div Base], Digits[(n % Base) + 1])

WritePart_NoLength(text) == text

\* writePart: the length, a colon, the text.
WritePart(text) == Numeral[Len(text)] \o <<":">> \o text

WriteTagged_NoTag(tag, ids) == [i \in DOMAIN ids |-> ids[i]]

WriteTagged(tag, ids) == [i \in DOMAIN ids |-> <<tag>> \o ids[i]]

\* The identity and version fields in their order, then the references.
Parts(r) ==
  <<r.tenantID, r.taskType, r.taskSchemaVersion, r.promptVersion,
    r.outputSchemaVersion, r.prompt>>
    \o WriteTagged("s", r.subjectIDs) \o WriteTagged("e", r.evidenceIDs)

BuildCacheKey(r) == FlattenSeq([i \in DOMAIN Parts(r) |-> WritePart(Parts(r)[i])])

IsRefused(r) == << >> \in {r.tenantID, r.taskType, r.prompt}

Init == issued = {}

ReturnKey(r) ==
  /\ Cardinality(issued) < MaxKeys
  /\ ~IsRefused(r)
  /\ issued' = issued \cup {[request |-> r, key |-> BuildCacheKey(r)]}

ReturnError(r) == IsRefused(r) /\ UNCHANGED issued

Next == \E r \in Requests : ReturnKey(r) \/ ReturnError(r)

Spec == Init /\ [][Next]_issued

-----------------------------------------------------------------------------
(* Properties.                                                             *)

\* A key belongs to one tenant, task, prompt and set of versions, about the same
\* subjects and on the same evidence: no text, however it imitates the encoding
\* of its neighbours, lets two requests share a result.
KeysTellRequestsApart ==
  \A a, b \in issued : a.key = b.key => a.request = b.request
=============================================================================
