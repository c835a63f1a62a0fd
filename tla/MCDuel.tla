------------------------------- MODULE MCDuel --------------------------------
(***************************************************************************)
(* Small instances of Duel: words of two letters, costs and gains scaled   *)
(* down so that few guesses and ticks pay for every ability.               *)
(***************************************************************************)
EXTENDS Duel

MCLetters == {"a", "b"}

MCWords == {<<"a", "b">>, <<"b", "a">>, <<"a", "a">>}

\* One real fake, and one that is refused
MCFakes == {<<"yellow", "green">>, <<"green", "green">>}

TwoAnswers == {<<"a", "b">>, <<"b", "a">>}

MCCost == [a \in Abilities |-> 1]

KnightWizard == [s \in Sides |-> IF s = 0 THEN "knight" ELSE "wizard"]
RogueCleric == [s \in Sides |-> IF s = 0 THEN "rogue" ELSE "cleric"]
WizardCleric == [s \in Sides |-> IF s = 0 THEN "wizard" ELSE "cleric"]
=============================================================================
