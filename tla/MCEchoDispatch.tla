--------------------------- MODULE MCEchoDispatch ---------------------------
(* Two concurrent requests over a tree of two routes on the same path,    *)
(* GET /a/:x and POST /a/:x, and a static GET /a.                          *)
EXTENDS EchoDispatch

CONSTANTS r1, r2

MCReqs == {r1, r2}

MCDispatchRoutes ==
  << <<"GET", <<"/", "a">> >>,
     <<"GET", <<"/", "a", "/", ":", "x">> >>,
     <<"POST", <<"/", "a", "/", ":", "x">> >> >>

MCDispatchMethods == {"GET", "POST"}
MCDispatchParamValues == {<<"b">>}
MCDispatchWildRests == {<<"b">>}
=============================================================================
