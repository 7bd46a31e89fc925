----------------------------- MODULE MCCacheKey -----------------------------
(***************************************************************************)
(* Requests for TLC whose texts imitate the encoding: they end in, or hold,*)
(* what the encoding of the next text begins with, and their lengths have  *)
(* one or two binary digits.                                               *)
(***************************************************************************)
EXTENDS CacheKey

MCDigits == <<"0", "1">>

MCIDs == {<<"a">>, <<"e">>}

MCRequests ==
  [tenantID            : {<<"a">>, <<"a", "a">>, << >>},
   taskType            : {<<"a">>},
   taskSchemaVersion   : {<<"a">>},
   promptVersion       : {<< >>, <<"a">>, <<"1", ":", "a">>},
   outputSchemaVersion : {<< >>},
   prompt              : {<<"a">>, <<"a", "1">>},
   subjectIDs          : SeqOf(MCIDs, 2),
   evidenceIDs         : SeqOf(MCIDs, 1)]
=============================================================================
