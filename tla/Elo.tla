---------------------------------- MODULE Elo ----------------------------------
(***************************************************************************)
(* The arithmetic of ranked duels: margins, rating changes, stakes and     *)
(* ranks.  Translated from internal/ranked/elo.go and ladder.go.           *)
(*                                                                         *)
(* Chances, scores, multipliers and their parts are thousandths: in the    *)
(* code they are floating point numbers.  What Expected gives for two      *)
(* ratings is a parameter, e.                                              *)
(***************************************************************************)
EXTENDS Integers, Sequences, FiniteSets

StartElo == 1000
ProvisionalGames == 10
Whole == 1000
MinMargin == 1000
MaxMargin == 1750
Unit == Whole * 1000

\* Rating, and what holds of every one in the store
Ratings == [elo: Nat, peak: Nat, games: Nat, wins: Nat, losses: Nat, draws: Nat]
Sound(r) == r \in Ratings /\ r.elo <= r.peak /\ r.games = r.wins + r.losses + r.draws

NewRating ==
    [elo |-> StartElo, peak |-> StartElo, games |-> 0, wins |-> 0, losses |-> 0, draws |-> 0]

K(r) == IF r.games < ProvisionalGames THEN 48 ELSE 32

Clamp(v, lo, hi) == IF v < lo THEN lo ELSE IF v > hi THEN hi ELSE v

\* The greens and half the yellows of a guess, of its length
Closeness(colors) ==
    LET count(c) == Cardinality({i \in DOMAIN colors : colors[i] = c})
    IN IF colors = <<>> THEN 0
       ELSE (1000 * (2 * count("green") + count("yellow"))) \div (2 * Len(colors))

Multiplier(m) ==
    LET guessEdge == IF m.loserOut THEN 1000
                     ELSE Clamp((1000 * (m.loserGuesses - m.winnerGuesses + 1)) \div 3, 0, 1000)
        speed == Clamp(1000 - (1000 * m.winnerSeconds) \div 180, 0, 1000)
        parts == 300 * guessEdge + 300 * (1000 - Clamp(m.loserBest, 0, 1000)) + 150 * speed
    IN IF m.forfeit THEN MaxMargin ELSE Clamp(MinMargin + parts \div 1000, MinMargin, MaxMargin)

\* n / Unit, rounded half away from zero
Round(n) == IF n >= 0 THEN (2 * n + Unit) \div (2 * Unit) ELSE -((Unit - 2 * n) \div (2 * Unit))

\* A decisive result always moves at least 1
Change(r, surprise, mult, result) ==
    LET d == Round(K(r) * mult * surprise)
    IN IF result = "decisive" /\ d = 0 THEN IF surprise > 0 THEN 1 ELSE -1
       ELSE d

\* apply: the change it makes, and the rating after it
Floored(r, delta) == IF r.elo + delta < 0 THEN -r.elo ELSE delta

Apply(r, delta, score) ==
    LET elo == r.elo + Floored(r, delta)
    IN [elo |-> elo,
        peak |-> IF r.peak < elo THEN elo ELSE r.peak,
        games |-> r.games + 1,
        wins |-> IF score = Whole THEN r.wins + 1 ELSE r.wins,
        losses |-> IF score = 0 THEN r.losses + 1 ELSE r.losses,
        draws |-> IF score \in {0, Whole} THEN r.draws ELSE r.draws + 1]

Outcomes == {"aWins", "bWins", "draw"}
Score(outcome) == IF outcome = "aWins" THEN Whole ELSE IF outcome = "bWins" THEN 0 ELSE Whole \div 2

\* Settle, for a's chance e of winning and the multiplier of the margin
Settle(a, b, e, outcome, multiplier) ==
    LET result == IF outcome = "draw" THEN "drawn" ELSE "decisive"
        mult == IF outcome = "draw" THEN MinMargin ELSE multiplier
        score == Score(outcome)
        deltaA == Change(a, score - e, mult, result)
        deltaB == Change(b, (Whole - score) - (Whole - e), mult, result)
    IN [a |-> Apply(a, deltaA, score), deltaA |-> Floored(a, deltaA),
        b |-> Apply(b, deltaB, Whole - score), deltaB |-> Floored(b, deltaB)]

Stakes(me, e) ==
    [winMin |-> Change(me, Whole - e, MinMargin, "decisive"),
     winMax |-> Change(me, Whole - e, MaxMargin, "decisive"),
     loseMin |-> Floored(me, Change(me, -e, MinMargin, "decisive")),
     loseMax |-> Floored(me, Change(me, -e, MaxMargin, "decisive"))]

\* Ladder: its tiers, Iron 3 first and Master last, and where each starts
Tiers == 0..15
MinElo(tier) == IF tier = 0 THEN 0 ELSE 400 + 100 * tier

\* TierFor: the last tier that has started
TierFor(elo) ==
    CHOOSE tier \in Tiers :
        /\ elo >= MinElo(tier)
        /\ \A later \in Tiers : later > tier => elo < MinElo(later)
=============================================================================
