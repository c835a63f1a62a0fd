------------------------------ MODULE DuelLobby ------------------------------
(***************************************************************************)
(* The world's duel lobby: who is in the world, the challenges waiting for *)
(* an answer, the duels being played, and what a ranked duel adds to both  *)
(* records when it ends.  Translated from internal/game/duel.go and        *)
(* Join/Leave of internal/game/world.go.                                   *)
(*                                                                         *)
(* Every handler below runs on the one world goroutine, so each is one     *)
(* atomic action.  What interleaves is the order the commands of different *)
(* connections, and the ticks, arrive in: a client acts on what it was     *)
(* told earlier, so any player may name any target or any challenge.       *)
(* The puzzle itself is module Duel; here it ends with a winner or a draw. *)
(***************************************************************************)
EXTENDS Naturals, FiniteSets

CONSTANTS
    Players,        \* connections, each playing one character
    MaxChallenges,  \* bound: challenges ever sent (nextChallenge)
    NoDuel          \* the nil *duel

\* duel.sides, the challenger first, and duel.ranked
Duel == [a: Players, b: Players, ranked: BOOLEAN]

ASSUME NoDuelAssumption == NoDuel \notin Duel
ASSUME BoundAssumption == MaxChallenges \in Nat

VARIABLES
    present,        \* World.players: who joined and has not left
    challenges,     \* World.challenges
    nextChallenge,  \* World.nextChallenge, the last id given out
    duels,          \* World.duels
    duel,           \* player.duel
    tally,          \* wins, losses and draws of each character's rating
    rankedStarts    \* history: ranked duels each player has started

vars == <<present, challenges, nextChallenge, duels, duel, tally, rankedStarts>>
rankVars == <<tally, rankedStarts>>

Challenges == [id: Nat, from: Players, to: Players, ranked: BOOLEAN]
Tally == [wins: Nat, losses: Nat, draws: Nat]

Busy(p) == duel[p] # NoDuel

\* sidesOf: the other player of d
Opponent(d, p) == IF d.a = p THEN d.b ELSE d.a

Init ==
    /\ present = {}
    /\ challenges = {}
    /\ nextChallenge = 0
    /\ duels = {}
    /\ duel = [p \in Players |-> NoDuel]
    /\ tally = [p \in Players |-> [wins |-> 0, losses |-> 0, draws |-> 0]]
    /\ rankedStarts = [p \in Players |-> 0]

-----------------------------------------------------------------------------
(* What the handlers are built from *)

Involves(ch, p) == ch.from = p \/ ch.to = p

\* a cancelChallenges that forgets the ones p was sent
WithoutSentBy(cs, p) == {ch \in cs : ch.from # p}

\* cancelChallenges: drops every challenge to or from p
Cancelled(cs, p) == {ch \in cs : ~Involves(ch, p)}

Bump(t, outcome) == [t EXCEPT ![outcome] = @ + 1]

\* a settleRanked that takes the winner's win from the loser's wins
SettledFromLoser(d, winners) ==
    IF ~d.ranked THEN tally
    ELSE [p \in Players |->
            IF p \notin {d.a, d.b} THEN tally[p]
            ELSE IF winners = {} THEN Bump(tally[p], "draws")
            ELSE [tally[p] EXCEPT !.wins = IF p \in winners THEN @ + 1 ELSE @ - 1]]

\* settleRanked: each side's record gains the outcome.  winners is the winning
\* side, or {} for a draw.
Settled(d, winners) ==
    IF ~d.ranked THEN tally
    ELSE [p \in Players |->
            IF p \notin {d.a, d.b} THEN tally[p]
            ELSE Bump(tally[p], IF winners = {} THEN "draws"
                                ELSE IF p \in winners THEN "wins" ELSE "losses")]

\* an endDuel that frees only the challenger
EndsHalf(d, winners) ==
    /\ tally' = Settled(d, winners)
    /\ duel' = [duel EXCEPT ![d.a] = NoDuel]
    /\ duels' = duels \ {d}
    /\ UNCHANGED rankedStarts

\* endDuel: settles, frees both players, forgets the duel
EndDuel(d, winners) ==
    /\ tally' = Settled(d, winners)
    /\ duel' = [p \in Players |-> IF p \in {d.a, d.b} THEN NoDuel ELSE duel[p]]
    /\ duels' = duels \ {d}
    /\ UNCHANGED rankedStarts

\* startDuel: calls off both players' other challenges, then both point at the
\* new duel.  cs is what is left of the challenges once the accepted one is gone.
StartDuel(cs, a, b, isRanked) ==
    LET d == [a |-> a, b |-> b, ranked |-> isRanked] IN
    /\ challenges' = Cancelled(Cancelled(cs, a), b)
    /\ duels' = duels \union {d}
    /\ duel' = [p \in Players |-> IF p \in {a, b} THEN d ELSE duel[p]]
    /\ rankedStarts' = [p \in Players |->
            IF isRanked /\ p \in {a, b} THEN rankedStarts[p] + 1 ELSE rankedStarts[p]]
    /\ UNCHANGED tally

-----------------------------------------------------------------------------
(* Commands of the clients *)

\* World.Join: the connection's player enters the world
Join(p) ==
    /\ p \notin present
    /\ present' = present \union {p}
    /\ UNCHANGED <<challenges, nextChallenge, duels, duel, rankVars>>

\* a Leave that forgets the duel the player was in
LeaveMidDuel(p) ==
    /\ p \in present
    /\ present' = present \ {p}
    /\ challenges' = Cancelled(challenges, p)
    /\ UNCHANGED <<nextChallenge, duels, duel, rankVars>>

\* a Leave that settles the duel in the leaver's favour
LeaveWins(p) ==
    /\ p \in present
    /\ present' = present \ {p}
    /\ challenges' = Cancelled(challenges, p)
    /\ IF Busy(p) THEN EndDuel(duel[p], {p}) ELSE UNCHANGED <<duels, duel, rankVars>>
    /\ UNCHANGED nextChallenge

\* World.Leave and leaveDuels: the leaver loses their duel, their challenges
\* are off, and they are out of the world
Leave(p) ==
    /\ p \in present
    /\ present' = present \ {p}
    /\ challenges' = Cancelled(challenges, p)
    /\ IF Busy(p) THEN EndDuel(duel[p], {Opponent(duel[p], p)})
                  ELSE UNCHANGED <<duels, duel, rankVars>>
    /\ UNCHANGED nextChallenge

\* a Challenge that leaves the sender's pending one in place
ChallengeAlso(p, t, isRanked) ==
    /\ {p, t} \subseteq present /\ p # t /\ nextChallenge < MaxChallenges
    /\ ~Busy(p) /\ ~Busy(t)
    /\ nextChallenge' = nextChallenge + 1
    /\ challenges' = challenges \union
            {[id |-> nextChallenge', from |-> p, to |-> t, ranked |-> isRanked]}
    /\ UNCHANGED <<present, duels, duel, rankVars>>

\* World.Challenge.  The target must be another player in the world (and in
\* view, which is the grid's business), neither may be dueling, and a challenge
\* like the pending one changes nothing.  It replaces the sender's pending one.
Challenge(p, t, isRanked) ==
    /\ {p, t} \subseteq present /\ p # t
    /\ ~Busy(p) /\ ~Busy(t)
    /\ ~\E ch \in challenges : ch.from = p /\ ch.to = t /\ ch.ranked = isRanked
    /\ nextChallenge < MaxChallenges
    /\ nextChallenge' = nextChallenge + 1
    /\ challenges' = {ch \in challenges : ch.from # p} \union
            {[id |-> nextChallenge', from |-> p, to |-> t, ranked |-> isRanked]}
    /\ UNCHANGED <<present, duels, duel, rankVars>>

\* World.RespondDuel: only the target of a challenge that is still there can
\* answer it.  The last test is the code's own: it would answer DuelBusy.
Respond(p, ch, accept) ==
    /\ p \in present /\ ch.to = p
    /\ LET rest == challenges \ {ch} IN
       IF accept /\ ~Busy(p) /\ ~Busy(ch.from)
         THEN StartDuel(rest, ch.from, p, ch.ranked)
         ELSE challenges' = rest /\ UNCHANGED <<duels, duel, rankVars>>
    /\ UNCHANGED <<present, nextChallenge>>

\* World.ForfeitDuel: the opponent wins
Forfeit(p) ==
    /\ p \in present /\ Busy(p)
    /\ EndDuel(duel[p], {Opponent(duel[p], p)})
    /\ UNCHANGED <<present, challenges, nextChallenge>>

\* World.DuelGuess with the word itself: the guesser wins
Solve(p) ==
    /\ p \in present /\ Busy(p)
    /\ EndDuel(duel[p], {p})
    /\ UNCHANGED <<present, challenges, nextChallenge>>

\* World.DuelGuess with both sides out of rows, or tickDuels at the sudden
\* death deadline: a draw
DrawDuel(d) ==
    /\ EndDuel(d, {})
    /\ UNCHANGED <<present, challenges, nextChallenge>>

-----------------------------------------------------------------------------
(* The tick *)

\* an expiry that only ever looks at the newest challenge
ExpireNewest(id) ==
    /\ id = nextChallenge
    /\ challenges' = {ch \in challenges : ch.id # id}
    /\ UNCHANGED <<present, nextChallenge, duels, duel, rankVars>>

\* expireChallenges: every challenge waits equally long, so those that are due
\* are the ones up to some id
ExpireChallenges(id) ==
    /\ \E ch \in challenges : ch.id <= id
    /\ challenges' = {ch \in challenges : ch.id > id}
    /\ UNCHANGED <<present, nextChallenge, duels, duel, rankVars>>

Next ==
    \/ \E p \in Players : Join(p)
    \/ \E p \in Players : Leave(p)
    \/ \E p, t \in Players, isRanked \in BOOLEAN : Challenge(p, t, isRanked)
    \/ \E p \in Players, ch \in challenges, accept \in BOOLEAN : Respond(p, ch, accept)
    \/ \E p \in Players : Forfeit(p)
    \/ \E p \in Players : Solve(p)
    \/ \E d \in duels : DrawDuel(d)
    \/ \E id \in 1..MaxChallenges : ExpireChallenges(id)

Spec == Init /\ [][Next]_vars

\* The world ticks forever, and a challenge's 30 seconds pass: whatever is
\* waiting falls due.
FairSpec == Spec /\ \A id \in 1..MaxChallenges : WF_vars(ExpireChallenges(id))

-----------------------------------------------------------------------------
(* Properties *)

TypeOK ==
    /\ present \subseteq Players
    /\ challenges \subseteq Challenges
    /\ nextChallenge \in Nat
    /\ duels \subseteq Duel
    /\ duel \in [Players -> Duel \union {NoDuel}]
    /\ tally \in [Players -> Tally]
    /\ rankedStarts \in [Players -> Nat]

\* Both players of a pending challenge are in the world, different, and free:
\* however commands cross, accepting it always starts the duel, and the
\* DuelBusy answer of RespondDuel is never given.
ChallengesAcceptable ==
    \A ch \in challenges :
        /\ ch.from # ch.to
        /\ {ch.from, ch.to} \subseteq present
        /\ ~Busy(ch.from) /\ ~Busy(ch.to)

\* A sender has at most one challenge waiting (Challenge replaces the pending
\* one), and ids are never reused: an answer to an old id reaches no other
\* challenge.
OnePendingPerSender ==
    \A x, y \in challenges :
        /\ x.id \in 1..nextChallenge
        /\ (x.from = y.from \/ x.id = y.id) => x = y

\* Both players of a duel point at it, both are in the world, and a player
\* points at no duel that is over: nobody is left in a duel alone, whichever of
\* leaving, forfeiting, solving and the tick came first.
DuelsMutual ==
    /\ \A d \in duels :
        /\ d.a # d.b
        /\ {d.a, d.b} \subseteq present
        /\ duel[d.a] = d /\ duel[d.b] = d
    /\ \A p \in Players : Busy(p) => duel[p] \in duels /\ p \in {duel[p].a, duel[p].b}

Games(p) == tally[p].wins + tally[p].losses + tally[p].draws

InRanked(p) == Busy(p) /\ duel[p].ranked

\* Every ranked duel a player starts adds exactly one game to their record,
\* when it ends: none is dropped and none counts twice.
RankedSettledOnce ==
    \A p \in Players :
        rankedStarts[p] = Games(p) + IF InRanked(p) THEN 1 ELSE 0

\* Leaving in the middle of a ranked duel is a loss for the leaver and a win
\* for the one left behind (leaveDuels), and leaves nobody else's record touched.
LeaverLoses ==
    [][\A p \in Players :
          (p \in present /\ p \notin present' /\ InRanked(p)) =>
             /\ tally'[p].losses = tally[p].losses + 1
             /\ tally'[Opponent(duel[p], p)].wins = tally[Opponent(duel[p], p)].wins + 1
             /\ \A q \in Players \ {duel[p].a, duel[p].b} : tally'[q] = tally[q]]_vars

\* A challenge never waits forever: it is answered, called off, or expires.
EveryChallengeCloses ==
    \A id \in 1..MaxChallenges :
        (\E ch \in challenges : ch.id = id) ~> ~\E ch \in challenges : ch.id = id

-----------------------------------------------------------------------------
(* What the lobby promises about duels: a player is alone or paired with one *)
(* other, pairs form between two who are alone, and dissolve as a whole      *)

Partner == [p \in Players |-> IF Busy(p) THEN Opponent(duel[p], p) ELSE NoDuel]

Pairs == INSTANCE Pairing WITH Members <- Players, Alone <- NoDuel, partner <- Partner

\* The lobby implements the abstract specification.
ImplementsPairing == Pairs!Spec
=============================================================================
