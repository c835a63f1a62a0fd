------------------------------- MODULE Movement -------------------------------
(***************************************************************************)
(* The movement allowance of a player, from its join to its leave: it fills*)
(* with time and every accepted move spends the distance moved.  Translated*)
(* from internal/game/movement.go, and from client/src/game.ts for the     *)
(* client whose moves it is to let through.                                *)
(*                                                                         *)
(* Times are milliseconds; a distance is the time it takes at the fastest  *)
(* speed allowed for long, MoveSpeed * moveTolerance.  At MoveSpeed, 5/4   *)
(* slower, a client comes 4 far in 5 milliseconds.                         *)
(***************************************************************************)
EXTENDS Integers

Bank == 1000        \* maxMoveBank
Start == Bank \div 2

VARIABLES
    now,
    budget, budgetAt,   \* moveBudget
    travelled,          \* the distance of the accepted moves (a history)
    corrected,          \* whether the client was ever sent back (a history)
    backlog,            \* how far the client is ahead of the server along its path
    honest,             \* whether the client has kept to the speed and the map, and
                        \* the network and the rate limit from being over Bank behind
    mark                \* some moment, and what was travelled by then (a history)

budgetVars == <<budget, budgetAt>>
client == <<backlog, honest>>
vars == <<now, budgetVars, travelled, corrected, client, mark>>

\* moveBudget.reset, in Join
Init ==
    /\ now \in Nat
    /\ budget = Start /\ budgetAt = now
    /\ travelled = 0 /\ corrected = FALSE
    /\ backlog = 0 /\ honest = TRUE
    /\ mark = [at |-> now, travelled |-> 0]

\* What spend finds: the budget after the time that passed
Available ==
    LET filled == budget + (now - budgetAt) IN IF filled < Bank THEN filled ELSE Bank

\* Time passes while the client walks and what it sends is under way
Walk(time, dist) ==
    /\ now' = now + time
    /\ backlog' = backlog + dist
    /\ honest' = (honest /\ 5 * dist <= 4 * time /\ backlog' <= Bank)
    /\ UNCHANGED <<budgetVars, travelled, corrected, mark>>

\* A client asks for anything; one that is honest asks for a place on its path,
\* which is no further than the path to it
MayAsk(len, dist, inside) == honest => inside /\ dist <= len /\ len <= backlog

Accept(len, dist, inside) ==
    /\ MayAsk(len, dist, inside)
    /\ inside /\ dist <= Available
    /\ budget' = Available - dist /\ budgetAt' = now
    /\ travelled' = travelled + dist
    /\ backlog' = backlog - len
    /\ UNCHANGED <<now, corrected, honest, mark>>

\* off the map spend is not called
Correct(len, dist, inside) ==
    /\ MayAsk(len, dist, inside)
    /\ ~inside \/ dist > Available
    /\ IF inside THEN budget' = Available /\ budgetAt' = now ELSE UNCHANGED budgetVars
    /\ corrected' = TRUE
    /\ UNCHANGED <<now, travelled, client, mark>>

Mark ==
    /\ mark' = [at |-> now, travelled |-> travelled]
    /\ UNCHANGED <<now, budgetVars, travelled, corrected, client>>

Next ==
    \/ \E time, dist \in Nat : Walk(time, dist)
    \/ \E len, dist \in Nat, inside \in BOOLEAN :
            dist > 0 /\ (Accept(len, dist, inside) \/ Correct(len, dist, inside))
    \/ Mark

Spec == Init /\ [][Next]_vars

-----------------------------------------------------------------------------
(* Properties.                                                             *)

TypeOK ==
    /\ now \in Nat /\ budgetAt \in 0..now
    /\ budget \in 0..Bank
    /\ travelled \in Nat /\ backlog \in Int
    /\ corrected \in BOOLEAN /\ honest \in BOOLEAN
    /\ mark \in [at: 0..now, travelled: 0..travelled]

\* Between any two moments nobody comes further than the time between them and
\* one bank allow, whatever they ask for: "bursts are fine but sustained speeding
\* isn't" (movement.go 20-21).
SpeedLimit == travelled - mark.travelled <= (now - mark.at) + Bank

\* A client that moves at MoveSpeed on the map is never sent back, in however
\* uneven bursts its moves arrive, if the server is never more than a bank of
\* walking behind it (movement.go 15-17).
HonestNeverCorrected == honest => ~corrected
=============================================================================
