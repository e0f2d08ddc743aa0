----------------------------- MODULE MCSieveApi -----------------------------
(***************************************************************************)
(* Callback arrays and scripts for SieveApi: the registration of           *)
(* example.c, one for every way a later array can add to, withdraw or cut  *)
(* short an earlier one, and scripts that use what they require or do not. *)
(***************************************************************************)
EXTENDS SieveApi

Basic == <<<<"redirect", "client">>, <<"keep", "client">>, <<"getsize", "client">>,
           <<"getscript", "client">>>>
Internal == Basic \o <<<<"getheader", "null">>, <<"getallheaders", "client">>>>

ClientArrays ==
  { Internal,
    Internal \o <<<<"fileinto", "client">>, <<"notify", "client">>>>,
    <<<<"getscript", "client">>, <<"getheader", "client">>>>,
    <<<<"getscript", "client">>>>,
    <<<<"fileinto", "null">>, <<"getenvelope", "client">>>>,
    <<<<"notify", "client">>, <<"denotify", "client">>, <<"keep", "client">>>> }

ClientScripts ==
  { [requires |-> {}, commands |-> <<"none">>, broken |-> FALSE],
    [requires |-> {"fileinto"}, commands |-> <<"none", "fileinto">>, broken |-> FALSE],
    [requires |-> {}, commands |-> <<"fileinto", "none">>, broken |-> FALSE],
    [requires |-> {"fileinto", "notify"}, commands |-> <<"notify">>, broken |-> FALSE],
    [requires |-> {}, commands |-> <<"none">>, broken |-> TRUE],
    [requires |-> {"fileinto"}, commands |-> <<>>, broken |-> FALSE],
    NoScript }
=============================================================================
