----------------------------- MODULE MCHostNames -----------------------------
(* Three domains, one of which ends another, a subdomain with a link of its *)
(* own, a name with a dash, magic hosts and hosts of no domain.             *)
EXTENDS HostNames, TLC

MCDomains == {<<"test">>, <<"dev">>, <<"co", "test">>}

MCHosts ==
    {<<"a", "www", "blog", "test">>, <<"www", "blog", "co", "test">>,
     <<"cdn-x", "blog", "dev">>, <<"test">>, <<"default", "test">>,
     <<"blog", "10", "0", "0", "1", "xip", "io">>, <<"blog", "nip", "io">>,
     <<"www", "blog", "test", "">>}

MCSlash == ("cdn-x" :> "cdn/x")

MCKinds ==
    <<"blog">>           :> {"none", "app"} @@
    <<"www", "blog">>    :> {"none", "link", "app"} @@
    <<"cdn-x", "blog">>  :> {"none", "error"} @@
    <<"cdn/x", "blog">>  :> {"none", "app"} @@
    <<"default">>        :> {"none", "app"}
==============================================================================
