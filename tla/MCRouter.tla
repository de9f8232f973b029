------------------------------ MODULE MCRouter ------------------------------
(* Router over the characters / a b : * x y: the root route, patterns     *)
(* whose static prefixes overlap (node splits), a parameter beside a       *)
(* static segment, and wildcards, for two methods.                         *)
EXTENDS Router

MCMethods == {"GET", "POST"}

MCPatterns == {
  <<"/">>,
  <<"/", "a">>,
  <<"/", "a", "b">>,
  <<"/", "a", "/", "b">>,
  <<"/", "a", "/", ":", "x">>,
  <<"/", ":", "y", "/", "b">>,
  <<"/", "a", "/", "*">>
}

MCMaxRoutes == 3

MCMaxFindSteps == 30

MCParamValues == {<<"a">>, <<"b">>}

MCWildRests == {<<>>, <<"b">>, <<"b", "/", "a">>}

=============================================================================
