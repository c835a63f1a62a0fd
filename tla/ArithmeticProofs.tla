--------------------------- MODULE ArithmeticProofs ---------------------------
(***************************************************************************)
(* The two parts whose numbers matter.  The movement allowance lets nobody *)
(* speed and no honest client down; and what a ranked duel does to two     *)
(* ratings, whatever they are, whatever chance they had (neither 0 nor 1)  *)
(* and however it ended.                                                   *)
(***************************************************************************)
EXTENDS Movement, Elo, TLAPS

-----------------------------------------------------------------------------
(* Movement.                                                               *)

\* What was travelled since any moment is made up for by what is not available
\* now; and what an honest client is ahead of the server is available
MoveInv ==
    /\ TypeOK
    /\ travelled - mark.travelled + Available <= (now - mark.at) + Bank
    /\ honest => ~corrected /\ 0 <= backlog /\ backlog <= Available

LEMMA MoveInit == Init => MoveInv
<1> SUFFICES ASSUME Init PROVE MoveInv
  OBVIOUS
<1>1. budget = 500 /\ Available = 500
  BY DEF Init, Available, Bank, Start
<1>2. mark.at = now /\ mark.travelled = 0
  BY DEF Init
<1>3. TypeOK
  <2>1. corrected \in BOOLEAN /\ honest \in BOOLEAN
    BY DEF Init
  <2>2. now \in Nat /\ mark = [at |-> now, travelled |-> 0] /\ travelled = 0
    BY DEF Init
  <2>3. mark \in [at: 0..now, travelled: 0..travelled]
    BY <2>2
  <2>4. budget \in 0..Bank /\ budgetAt \in 0..now /\ backlog \in Int
    BY <1>1, <2>2 DEF Init, Bank
  <2>5. QED BY <2>1, <2>2, <2>3, <2>4 DEF TypeOK
<1>4. QED BY <1>1, <1>2, <1>3 DEF Init, MoveInv, Bank

LEMMA WalkStep ==
  ASSUME MoveInv, NEW time \in Nat, NEW dist \in Nat, Walk(time, dist)
  PROVE  MoveInv'
<1>1. Available' = (IF Available + time < Bank THEN Available + time ELSE Bank)
  BY DEF MoveInv, TypeOK, Walk, Available, Bank, budgetVars
<1>2. TypeOK'
  BY DEF MoveInv, TypeOK, Walk, Bank, budgetVars
<1>3. travelled' - mark'.travelled + Available' <= (now' - mark'.at) + Bank
  BY <1>1 DEF MoveInv, TypeOK, Walk, Available, Bank, budgetVars
<1>4. honest' => ~corrected' /\ 0 <= backlog' /\ backlog' <= Available'
  BY <1>1 DEF MoveInv, TypeOK, Walk, Available, Bank, budgetVars
<1>5. QED BY <1>2, <1>3, <1>4 DEF MoveInv

LEMMA AcceptStep ==
  ASSUME MoveInv, NEW len \in Nat, NEW dist \in Nat, NEW inside \in BOOLEAN,
         Accept(len, dist, inside)
  PROVE  MoveInv'
<1>1. Available' = Available - dist /\ Available \in 0..Bank
  BY DEF MoveInv, TypeOK, Accept, Available, Bank
<1>2. TypeOK'
  BY <1>1 DEF MoveInv, TypeOK, Accept, Bank
<1>3. travelled' - mark'.travelled + Available' <= (now' - mark'.at) + Bank
  BY <1>1 DEF MoveInv, TypeOK, Accept, Bank
<1>4. honest' => ~corrected' /\ 0 <= backlog' /\ backlog' <= Available'
  BY <1>1 DEF MoveInv, TypeOK, Accept, MayAsk, Bank
<1>5. QED BY <1>2, <1>3, <1>4 DEF MoveInv

\* Only a client that is not honest is sent back: for one that is, the distance
\* is at most its backlog, and that is available.
LEMMA CorrectStep ==
  ASSUME MoveInv, NEW len \in Nat, NEW dist \in Nat, NEW inside \in BOOLEAN,
         Correct(len, dist, inside)
  PROVE  MoveInv'
<1>1. Available' = Available /\ Available \in 0..Bank
  BY DEF MoveInv, TypeOK, Correct, Available, Bank, budgetVars
<1>2. ~honest
  BY <1>1 DEF MoveInv, TypeOK, Correct, MayAsk, Bank
<1>3. TypeOK'
  <2>1. budget' \in 0..Bank /\ budgetAt' \in 0..now /\ corrected' = TRUE
    BY <1>1 DEF MoveInv, TypeOK, Correct, budgetVars
  <2>2. UNCHANGED <<now, travelled, backlog, honest, mark>>
    BY DEF Correct, client
  <2>3. QED BY <2>1, <2>2 DEF MoveInv, TypeOK
<1>4. travelled' - mark'.travelled + Available' <= (now' - mark'.at) + Bank
  BY <1>1 DEF MoveInv, TypeOK, Correct, Bank
<1>5. QED BY <1>2, <1>3, <1>4 DEF MoveInv, Correct, client

LEMMA MarkStep ==
  ASSUME MoveInv, Mark
  PROVE  MoveInv'
<1>1. Available' = Available /\ Available <= Bank
  BY DEF MoveInv, TypeOK, Mark, Available, Bank, budgetVars
<1>2. mark'.at = now /\ mark'.travelled = travelled
  BY DEF Mark
<1>3. TypeOK'
  BY DEF MoveInv, TypeOK, Mark, Bank, budgetVars, client
<1>4. travelled' - mark'.travelled + Available' <= (now' - mark'.at) + Bank
  BY <1>1, <1>2 DEF MoveInv, TypeOK, Mark, Available, Bank, budgetVars
<1>5. QED BY <1>1, <1>3, <1>4 DEF MoveInv, Mark, client

LEMMA MoveStep == MoveInv /\ [Next]_vars => MoveInv'
<1> SUFFICES ASSUME MoveInv, [Next]_vars PROVE MoveInv'
  OBVIOUS
<1>1. ASSUME NEW time \in Nat, NEW dist \in Nat, Walk(time, dist)
      PROVE  MoveInv'
  BY <1>1, WalkStep
<1>2. ASSUME NEW len \in Nat, NEW dist \in Nat, NEW inside \in BOOLEAN,
             Accept(len, dist, inside) \/ Correct(len, dist, inside)
      PROVE  MoveInv'
  BY <1>2, AcceptStep, CorrectStep
<1>3. CASE Mark
  BY <1>3, MarkStep
<1>4. CASE UNCHANGED vars
  BY <1>4 DEF MoveInv, TypeOK, Available, vars, budgetVars, client
<1>5. QED BY <1>1, <1>2, <1>3, <1>4 DEF Next

-----------------------------------------------------------------------------

\* The allowance covers what is owed to honest clients and no more (movement.go).
THEOREM MovementInvariant == Spec => []MoveInv
  BY MoveInit, MoveStep, PTL DEF Spec

\* Sustained speeding is impossible, between any two moments (movement.go 32-41).
THEOREM NobodySpeeds == Spec => []SpeedLimit
<1>1. MoveInv => SpeedLimit
  BY DEF MoveInv, SpeedLimit, TypeOK, Available, Bank
<1>2. QED BY <1>1, MovementInvariant, PTL

\* A client at the client's own speed is never corrected (movement.go 45-60,
\* client/src/game.ts 401-417).
THEOREM HonestWalkFree == Spec => []HonestNeverCorrected
<1>1. MoveInv => HonestNeverCorrected
  BY DEF MoveInv, HonestNeverCorrected
<1>2. QED BY <1>1, MovementInvariant, PTL

-----------------------------------------------------------------------------
(* Ratings.                                                                *)

Chances == 1..(Whole - 1)
Multipliers == MinMargin..MaxMargin
Margins == [forfeit: BOOLEAN, loserOut: BOOLEAN, loserGuesses: Nat, winnerGuesses: Nat,
            winnerSeconds: Nat, loserBest: Int]

LEMMA RoundType == \A n \in Int : Round(n) \in Int
  BY DEF Round, Unit, Whole

LEMMA RoundMonotone == \A n, m \in Int : n <= m => Round(n) <= Round(m)
  BY DEF Round, Unit, Whole

LEMMA RoundOdd == \A n \in Int : Round(-n) = -Round(n)
  BY DEF Round, Unit, Whole

LEMMA RoundSign == \A n \in Int : (n >= 0 => Round(n) >= 0) /\ (n <= 0 => Round(n) <= 0)
  BY DEF Round, Unit, Whole

LEMMA RoundBounded ==
  \A n \in Int : (-84000000 <= n /\ n <= 84000000) => -84 <= Round(n) /\ Round(n) <= 84
  BY DEF Round, Unit, Whole

LEMMA ProductMonotone ==
  ASSUME NEW p \in Nat, NEW q \in Nat, p <= q, NEW s \in Int
  PROVE  /\ p * s \in Int /\ q * s \in Int
         /\ s >= 0 => p * s <= q * s /\ p * s >= 0
         /\ s <= 0 => q * s <= p * s /\ p * s <= 0
<1>1. PICK r \in Nat : q = p + r
  <2>1. q - p \in Nat /\ q = p + (q - p)
    OBVIOUS
  <2>2. QED BY <2>1
<1>2. q * s = p * s + r * s
  BY <1>1
<1>3. (s >= 0 => r * s >= 0 /\ p * s >= 0) /\ (s <= 0 => r * s <= 0 /\ p * s <= 0)
  OBVIOUS
<1>4. QED BY <1>2, <1>3

-----------------------------------------------------------------------------
(* One side's change.                                                      *)

\* A decisive change has the sign of the surprise, and grows with the margin
LEMMA ChangeGrows ==
  ASSUME NEW r, r.games \in Nat, NEW s \in Int, s # 0,
         NEW m \in Nat, NEW n \in Nat, m <= n
  PROVE  /\ Change(r, s, m, "decisive") \in Int /\ Change(r, s, n, "decisive") \in Int
         /\ s > 0 => 1 <= Change(r, s, m, "decisive") /\ Change(r, s, m, "decisive") <= Change(r, s, n, "decisive")
         /\ s < 0 => Change(r, s, n, "decisive") <= Change(r, s, m, "decisive") /\ Change(r, s, m, "decisive") <= -1
<1> DEFINE km == K(r) * m
           kn == K(r) * n
<1>1. K(r) \in {32, 48}
  BY DEF K
<1>2. km \in Nat /\ kn \in Nat /\ km <= kn
  BY <1>1
<1>3. /\ km * s \in Int /\ kn * s \in Int
      /\ s >= 0 => km * s <= kn * s /\ km * s >= 0 /\ kn * s >= 0
      /\ s <= 0 => kn * s <= km * s /\ km * s <= 0 /\ kn * s <= 0
  <2> HIDE DEF km, kn
  <2>1. QED BY <1>2, ProductMonotone
<1> DEFINE dm == Round(km * s)
           dn == Round(kn * s)
<1>4. /\ dm \in Int /\ dn \in Int
      /\ s >= 0 => 0 <= dm /\ dm <= dn
      /\ s <= 0 => dn <= dm /\ dm <= 0
  <2> HIDE DEF km, kn
  <2>1. QED BY <1>3, RoundType, RoundMonotone, RoundSign
<1>5. /\ Change(r, s, m, "decisive") = (IF dm = 0 THEN IF s > 0 THEN 1 ELSE -1 ELSE dm)
      /\ Change(r, s, n, "decisive") = (IF dn = 0 THEN IF s > 0 THEN 1 ELSE -1 ELSE dn)
  BY DEF Change
<1> DEFINE cm == Change(r, s, m, "decisive")
           cn == Change(r, s, n, "decisive")
<1>6. /\ cm \in Int /\ cn \in Int
      /\ s > 0 => 1 <= cm /\ cm <= cn
      /\ s < 0 => cn <= cm /\ cm <= -1
  <2>1. cm = (IF dm = 0 THEN IF s > 0 THEN 1 ELSE -1 ELSE dm)
    BY <1>5
  <2>2. cn = (IF dn = 0 THEN IF s > 0 THEN 1 ELSE -1 ELSE dn)
    BY <1>5
  <2> HIDE DEF dm, dn, cm, cn
  <2>3. QED BY <1>4, <2>1, <2>2
<1>7. QED BY <1>6

\* No change is larger than K times the largest margin
LEMMA ChangeBounded ==
  ASSUME NEW r, r.games \in Nat, NEW s \in Int, -Whole <= s, s <= Whole, NEW m \in 0..MaxMargin,
         NEW result
  PROVE  Change(r, s, m, result) \in Int /\ -84 <= Change(r, s, m, result)
         /\ Change(r, s, m, result) <= 84
<1> DEFINE km == K(r) * m
<1>1. km \in Nat /\ km <= 84000
  <2>1. m \in 0..1750
    BY DEF MaxMargin
  <2>2. K(r) \in Nat /\ K(r) <= 48
    BY DEF K
  <2>3. /\ km \in Int
        /\ m >= 0 => km <= 48 * m /\ km >= 0
    BY <2>1, <2>2, ProductMonotone
  <2> HIDE DEF km
  <2>4. QED BY <2>1, <2>3
<1>2. /\ s >= 0 => km * s <= 84000 * s
      /\ s <= 0 => 84000 * s <= km * s
      /\ km * s \in Int
  <2> HIDE DEF km
  <2>1. km \in Nat /\ km <= 84000 /\ s \in Int
    BY <1>1 DEF Whole
  <2>2. QED BY <2>1, ProductMonotone
<1>3. km * s >= -84000000 /\ km * s <= 84000000
  <2> HIDE DEF km
  <2>1. km \in Nat
    BY <1>1
  <2>2. /\ s >= 0 => km * s >= 0
        /\ s <= 0 => km * s <= 0
    BY <2>1, <1>1, ProductMonotone DEF Whole
  <2>3. QED BY <1>2, <2>2 DEF Whole
<1>4. Round(km * s) \in Int /\ -84 <= Round(km * s) /\ Round(km * s) <= 84
  <2> HIDE DEF km
  <2>1. QED BY <1>2, <1>3, RoundBounded, RoundType
<1>5. Change(r, s, m, result) \in {Round(km * s), 1, -1}
  BY Zenon DEF Change
<1> DEFINE change == Change(r, s, m, result)
           round == Round(km * s)
<1>6. change \in Int /\ -84 <= change /\ change <= 84
  <2> HIDE DEF change, round
  <2>1. QED BY <1>4, <1>5 DEF change, round
<1>7. QED BY <1>6

LEMMA ChangeOdd ==
  ASSUME NEW r, NEW q, r.games \in Nat, K(q) = K(r), NEW s \in Int, s # 0, NEW m \in Nat
  PROVE  Change(q, -s, m, "decisive") = -Change(r, s, m, "decisive")
<1> DEFINE km == K(r) * m
<1>1. km \in Nat
  BY DEF K
<1>2. km * (-s) = -(km * s) /\ km * s \in Int
  <2> HIDE DEF km
  <2>1. QED BY <1>1
<1>3. Round(km * (-s)) = -Round(km * s) /\ Round(km * s) \in Int
  <2> HIDE DEF km
  <2>1. QED BY <1>2, RoundOdd, RoundType
<1>4. /\ Change(r, s, m, "decisive") = (IF Round(km * s) = 0 THEN IF s > 0 THEN 1 ELSE -1 ELSE Round(km * s))
      /\ Change(q, -s, m, "decisive") =
            (IF Round(km * (-s)) = 0 THEN IF -s > 0 THEN 1 ELSE -1 ELSE Round(km * (-s)))
  BY DEF Change
<1> HIDE DEF km
<1>5. QED BY <1>3, <1>4

LEMMA ApplySound ==
  ASSUME NEW r, Sound(r), NEW delta \in Int, NEW score \in 0..Whole
  PROVE  Sound(Apply(r, delta, score)) /\ Apply(r, delta, score).elo = r.elo + Floored(r, delta)
<1>1. /\ r.elo \in Nat /\ r.peak \in Nat /\ r.games \in Nat /\ r.wins \in Nat /\ r.losses \in Nat
      /\ r.draws \in Nat /\ r.elo <= r.peak /\ r.games = r.wins + r.losses + r.draws
  BY DEF Sound, Ratings
<1>2. r.elo + Floored(r, delta) \in Nat
  BY <1>1 DEF Floored
<1> DEFINE t == Apply(r, delta, score)
<1>3. /\ t.elo = r.elo + Floored(r, delta)
      /\ t.peak = (IF r.peak < t.elo THEN t.elo ELSE r.peak)
      /\ t.games = r.games + 1
      /\ t.wins = (IF score = Whole THEN r.wins + 1 ELSE r.wins)
      /\ t.losses = (IF score = 0 THEN r.losses + 1 ELSE r.losses)
      /\ t.draws = (IF score \in {0, Whole} THEN r.draws ELSE r.draws + 1)
      /\ t = [elo |-> t.elo, peak |-> t.peak, games |-> t.games, wins |-> t.wins,
              losses |-> t.losses, draws |-> t.draws]
  BY DEF Apply
<1> HIDE DEF t
<1>4. /\ t.elo \in Nat /\ t.peak \in Nat /\ t.games \in Nat /\ t.wins \in Nat /\ t.losses \in Nat
      /\ t.draws \in Nat /\ t.elo <= t.peak /\ t.games = t.wins + t.losses + t.draws
  BY <1>1, <1>2, <1>3 DEF Whole
<1>5. t \in Ratings
  BY <1>3, <1>4 DEF Ratings
<1>6. QED BY <1>3, <1>4, <1>5 DEF Sound, t

LEMMA MarginInRange == \A m \in Margins : Multiplier(m) \in Multipliers
<1> SUFFICES ASSUME NEW m \in Margins PROVE Multiplier(m) \in Multipliers
  OBVIOUS
<1> DEFINE ahead == (1000 * (m.loserGuesses - m.winnerGuesses + 1)) \div 3
           fast == 1000 - (1000 * m.winnerSeconds) \div 180
           guessEdge == IF m.loserOut THEN 1000 ELSE Clamp(ahead, 0, 1000)
           speed == Clamp(fast, 0, 1000)
           best == Clamp(m.loserBest, 0, 1000)
           margin == MinMargin + (300 * guessEdge + 300 * (1000 - best) + 150 * speed) \div 1000
<1>1. ahead \in Int /\ fast \in Int /\ m.loserBest \in Int
  BY DEF Margins
<1>2. Multiplier(m) = IF m.forfeit THEN MaxMargin ELSE Clamp(margin, MinMargin, MaxMargin)
  BY DEF Multiplier
<1> HIDE DEF ahead, fast
<1>3. guessEdge \in Int /\ speed \in Int /\ best \in Int
  <2>1. guessEdge \in Int
    BY <1>1 DEF Clamp
  <2>2. speed \in Int
    BY <1>1 DEF Clamp
  <2>3. best \in Int
    BY <1>1 DEF Clamp
  <2> HIDE DEF guessEdge, speed, best
  <2>4. QED BY <2>1, <2>2, <2>3
<1> HIDE DEF guessEdge, speed, best
<1>4. margin \in Int
  BY <1>3 DEF MinMargin
<1> HIDE DEF margin
<1>5. Clamp(margin, MinMargin, MaxMargin) \in Multipliers
  BY <1>4 DEF Clamp, Multipliers, MinMargin, MaxMargin
<1>6. MaxMargin \in Multipliers
  BY DEF Multipliers, MinMargin, MaxMargin
<1>7. QED BY <1>2, <1>5, <1>6

-----------------------------------------------------------------------------

\* A duel leaves both players with a rating that is not negative, below its peak
\* and with every game counted once, and moves neither by more than 84 points
\* (elo.go Settle, apply).
THEOREM SettleKeepsRatings ==
  ASSUME NEW a, NEW b, Sound(a), Sound(b), NEW e \in Chances, NEW m \in Multipliers,
         NEW outcome \in Outcomes
  PROVE  LET res == Settle(a, b, e, outcome, m)
         IN /\ Sound(res.a) /\ Sound(res.b)
            /\ res.a.elo = a.elo + res.deltaA /\ res.b.elo = b.elo + res.deltaB
            /\ -84 <= res.deltaA /\ res.deltaA <= 84
            /\ -84 <= res.deltaB /\ res.deltaB <= 84
<1> DEFINE result == IF outcome = "draw" THEN "drawn" ELSE "decisive"
           mult == IF outcome = "draw" THEN MinMargin ELSE m
           score == Score(outcome)
           dA == Change(a, score - e, mult, result)
           dB == Change(b, (Whole - score) - (Whole - e), mult, result)
<1>1. score \in 0..Whole /\ Whole - score \in 0..Whole /\ mult \in 0..MaxMargin
  BY DEF Score, Whole, Multipliers, MinMargin, MaxMargin
<1>2. /\ score - e \in Int /\ -Whole <= score - e /\ score - e <= Whole
      /\ (Whole - score) - (Whole - e) \in Int
      /\ -Whole <= (Whole - score) - (Whole - e) /\ (Whole - score) - (Whole - e) <= Whole
  <2> HIDE DEF score
  <2>1. QED BY <1>1 DEF Chances, Whole
<1>3. a.games \in Nat /\ b.games \in Nat /\ a.elo \in Nat /\ b.elo \in Nat
  BY DEF Sound, Ratings
<1>4. dA \in Int /\ -84 <= dA /\ dA <= 84 /\ dB \in Int /\ -84 <= dB /\ dB <= 84
  <2> HIDE DEF score, mult, result
  <2>1. QED BY <1>1, <1>2, <1>3, ChangeBounded
<1>5. Settle(a, b, e, outcome, m) =
        [a |-> Apply(a, dA, score), deltaA |-> Floored(a, dA),
         b |-> Apply(b, dB, Whole - score), deltaB |-> Floored(b, dB)]
  BY DEF Settle
<1> HIDE DEF dA, dB, score, mult, result
<1>6. /\ Sound(Apply(a, dA, score)) /\ Apply(a, dA, score).elo = a.elo + Floored(a, dA)
      /\ Sound(Apply(b, dB, Whole - score)) /\ Apply(b, dB, Whole - score).elo = b.elo + Floored(b, dB)
  BY <1>1, <1>4, ApplySound
<1>7. /\ -84 <= Floored(a, dA) /\ Floored(a, dA) <= 84
      /\ -84 <= Floored(b, dB) /\ Floored(b, dB) <= 84
  BY <1>3, <1>4 DEF Floored
<1>8. QED BY <1>5, <1>6, <1>7

\* Between players of one K, a decisive duel moves points from the loser to the
\* winner, at least one, and "is zero-sum", unless the loser has not that many
\* (elo.go 117-118, 139).
THEOREM WinnerTakesPoints ==
  ASSUME NEW a, NEW b, Sound(a), Sound(b), K(a) = K(b), NEW e \in Chances, NEW m \in Multipliers
  PROVE  LET res == Settle(a, b, e, "aWins", m)
         IN /\ res.deltaA >= 1 /\ res.deltaB <= 0
            /\ res.deltaA <= b.elo => res.deltaA + res.deltaB = 0
            /\ res.deltaA > b.elo => res.b.elo = 0
<1> DEFINE s == Whole - e
           dA == Change(a, s, m, "decisive")
           dB == Change(b, -s, m, "decisive")
<1>1. s \in Int /\ s > 0 /\ -s = (Whole - Whole) - (Whole - e) /\ m \in Nat
  BY DEF Chances, Whole, Multipliers, MinMargin, MaxMargin
<1>2. a.games \in Nat /\ b.games \in Nat /\ a.elo \in Nat /\ b.elo \in Nat
  BY DEF Sound, Ratings
<1>3. dA \in Int /\ dA >= 1 /\ dB = -dA
  <2> HIDE DEF s
  <2>1. dA \in Int /\ dA >= 1
    BY <1>1, <1>2, ChangeGrows
  <2>2. QED BY <1>1, <1>2, <2>1, ChangeOdd
<1>4. Settle(a, b, e, "aWins", m) =
        [a |-> Apply(a, dA, Whole), deltaA |-> Floored(a, dA),
         b |-> Apply(b, dB, Whole - Whole), deltaB |-> Floored(b, dB)]
  BY <1>1 DEF Settle, Score
<1> HIDE DEF dA, dB, s
<1>5. Apply(b, dB, Whole - Whole).elo = b.elo + Floored(b, dB)
  BY DEF Apply
<1>6. Floored(a, dA) = dA /\ Floored(b, dB) = (IF dA > b.elo THEN -b.elo ELSE -dA)
  BY <1>2, <1>3 DEF Floored
<1>7. QED BY <1>2, <1>3, <1>4, <1>5, <1>6

\* However a decisive duel ends, a player's change is within the stakes shown
\* before it: "the smallest and largest margins" are the extremes (elo.go Stakes).
THEOREM StakesHold ==
  ASSUME NEW a, NEW b, Sound(a), Sound(b), NEW e \in Chances, NEW m \in Multipliers
  PROVE  LET won == Settle(a, b, e, "aWins", m).deltaA
             lost == Settle(a, b, e, "bWins", m).deltaA
             stakes == Stakes(a, e)
         IN /\ stakes.winMin <= won /\ won <= stakes.winMax
            /\ stakes.loseMax <= lost /\ lost <= stakes.loseMin
<1>1. /\ Whole - e \in Int /\ Whole - e > 0 /\ -e \in Int /\ -e < 0
      /\ m \in Nat /\ MinMargin \in Nat /\ MaxMargin \in Nat /\ MinMargin <= m /\ m <= MaxMargin
  BY DEF Chances, Whole, Multipliers, MinMargin, MaxMargin
<1>2. a.games \in Nat /\ a.elo \in Nat
  BY DEF Sound, Ratings
<1> DEFINE win(n) == Change(a, Whole - e, n, "decisive")
           lose(n) == Change(a, -e, n, "decisive")
<1>3. /\ win(MinMargin) \in Int /\ win(m) \in Int /\ win(MaxMargin) \in Int
      /\ 1 <= win(MinMargin) /\ win(MinMargin) <= win(m) /\ win(m) <= win(MaxMargin)
  <2>1. Whole - e # 0
    BY <1>1
  <2>2. /\ win(MinMargin) \in Int /\ win(m) \in Int
        /\ 1 <= win(MinMargin) /\ win(MinMargin) <= win(m)
    BY <1>1, <1>2, <2>1, ChangeGrows
  <2>3. win(MaxMargin) \in Int /\ win(m) <= win(MaxMargin)
    BY <1>1, <1>2, <2>1, ChangeGrows
  <2>4. QED BY <2>2, <2>3
<1>4. /\ lose(MinMargin) \in Int /\ lose(m) \in Int /\ lose(MaxMargin) \in Int
      /\ lose(MaxMargin) <= lose(m) /\ lose(m) <= lose(MinMargin)
  <2>1. -e # 0
    BY <1>1
  <2>2. lose(MinMargin) \in Int /\ lose(m) \in Int /\ lose(m) <= lose(MinMargin)
    BY <1>1, <1>2, <2>1, ChangeGrows
  <2>3. lose(MaxMargin) \in Int /\ lose(MaxMargin) <= lose(m)
    BY <1>1, <1>2, <2>1, ChangeGrows
  <2>4. QED BY <2>2, <2>3
<1>5. /\ Settle(a, b, e, "aWins", m).deltaA = Floored(a, win(m))
      /\ Settle(a, b, e, "bWins", m).deltaA = Floored(a, lose(m))
  <2>1. 0 - e = -e
    BY <1>1 DEF Chances
  <2>2. QED BY <2>1 DEF Settle, Score
<1>6. /\ Stakes(a, e).winMin = win(MinMargin) /\ Stakes(a, e).winMax = win(MaxMargin)
      /\ Stakes(a, e).loseMin = Floored(a, lose(MinMargin))
      /\ Stakes(a, e).loseMax = Floored(a, lose(MaxMargin))
  BY DEF Stakes
<1> HIDE DEF win, lose
<1>7. Floored(a, win(m)) = win(m)
  BY <1>2, <1>3 DEF Floored
<1>8. /\ Floored(a, lose(MaxMargin)) <= Floored(a, lose(m))
      /\ Floored(a, lose(m)) <= Floored(a, lose(MinMargin))
  BY <1>2, <1>4 DEF Floored
<1>9. QED BY <1>3, <1>5, <1>6, <1>7, <1>8

\* Every rating has one rank, and a better rating never a lower one (ladder.go).
THEOREM RanksInOrder ==
  \A x, y \in Nat : x <= y => TierFor(x) \in Tiers /\ TierFor(x) <= TierFor(y)
<1> DEFINE In(elo, tier) == /\ elo >= MinElo(tier)
                            /\ \A later \in Tiers : later > tier => elo < MinElo(later)
<1>1. ASSUME NEW elo \in Nat PROVE \E tier \in Tiers : In(elo, tier)
  <2> DEFINE best == IF elo < 500 THEN 0 ELSE IF elo >= 1900 THEN 15 ELSE (elo - 400) \div 100
  <2>1. best \in Tiers /\ In(elo, best)
    BY DEF Tiers, MinElo
  <2>2. QED BY <2>1
<1>2. ASSUME NEW elo \in Nat PROVE TierFor(elo) \in Tiers /\ In(elo, TierFor(elo))
  BY <1>1 DEF TierFor
<1>3. ASSUME NEW x \in Nat, NEW y \in Nat, x <= y PROVE TierFor(x) <= TierFor(y)
  <2>1. /\ TierFor(x) \in Tiers /\ In(x, TierFor(x))
        /\ TierFor(y) \in Tiers /\ In(y, TierFor(y))
    BY <1>2
  <2>2. ~(TierFor(x) > TierFor(y))
    <3>1. SUFFICES ASSUME TierFor(x) > TierFor(y) PROVE FALSE
      OBVIOUS
    <3>2. y < MinElo(TierFor(x)) /\ x >= MinElo(TierFor(x))
      BY <2>1, <3>1
    <3>3. QED BY <1>3, <3>2, <2>1 DEF MinElo, Tiers
  <2>3. QED BY <2>1, <2>2 DEF Tiers
<1>4. QED BY <1>2, <1>3
=============================================================================
