-------------------------- MODULE MCMovingHorizon ---------------------------
EXTENDS MovingHorizon

MCStates == <<"x1", "x2">>
MCAlgebraics == <<"z">>
MCRealInputs == <<"u1", "u2", "w", "d">>
MCAlias == [a \in {"u1a", "x1a"} |-> IF a = "u1a" THEN "u1" ELSE "x1"]

OptionsWith(inputs, noise, P0) ==
  [input_names |-> inputs, process_noise_cov |-> noise, measurement_cov |-> <<<<"z">>, <<"x1a">>>>, P0_cov |-> P0]

MCOptions ==
  {OptionsWith(<<"u2", "u1">>, <<<<"w", "u2">>>>, <<<<"x1">>>>),
   OptionsWith(<<"u1a">>, <<<<"w">>>>, <<<<"x1a", "x2">>>>),
   OptionsWith(<<"u1", "u1a">>, <<>>, <<>>),
   OptionsWith(<<"u2", "u3">>, <<<<"w">>>>, <<<<"x1">>>>)}

MCInputLists == {<<"u1", "u2">>, <<"u1a">>, <<"z">>, <<"u2", "u9">>, <<"u1", "u1a">>}
MCMeasLists == {<<"x1", "z">>, <<"z", "z">>}
MCGuessLists == {<<"x2", "x1a">>, <<"x1">>}
MCStartInputs == {<<"u1", "u2">>, <<"u1a">>}
MCStartParameters == <<"x2", "x1a">>
MCCovLists ==
  [Q |-> {<<<<"u2">>, <<"w">>>>, <<<<"u2">>, <<"x2">>>>}, R |-> {<<<<"x1", "z">>>>}]
=============================================================================
