------------------------------ MODULE DuelProofs ------------------------------
(***************************************************************************)
(* What holds of a duel for every pair of classes, every puzzle and every  *)
(* price list.                                                             *)
(***************************************************************************)
EXTENDS Duel, Loops, FiniteSetTheorems

-----------------------------------------------------------------------------
(* The invariant.                                                           *)

\* SideType, but that a fake is never a solve
FakeSafe ==
    [word: Answers, guesses: Seq(Boards), rows: 1..MaxRows, energy: 0..MaxEnergy,
     greens: SUBSET Positions, found: SUBSET Letters,
     stunned: BOOLEAN, silenced: BOOLEAN, shield: BOOLEAN,
     destroyed: SUBSET ((1..MaxRows) \X Positions),
     eyes: Seq(((1..MaxRows) \X Positions) \union {Off}),
     missiles: 0..MaxMissiles, illusion: 0..IllusionGuesses, reshape: SUBSET Answers,
     cheat: BOOLEAN, feint: ValidPattern \union {NoPattern},
     falseNext: ValidPattern \union {NoPattern},
     keymap: BOOLEAN, scrambled: 0..ScrambleGuesses]

Fits(p) == Len(p.guesses) <= p.rows

Matches(p) == \A r \in DOMAIN p.guesses : p.guesses[r].colors = Colors(p.guesses[r].word, p.word)

Learned(p) ==
    \A r \in DOMAIN p.guesses :
        /\ Greens(p.guesses[r]) \subseteq p.greens
        /\ {p.guesses[r].word[i] : i \in Greens(p.guesses[r])} \union Yellows(p.guesses[r]) \subseteq p.found

\* Where the word is green is known with its letter, which is why a green that is
\* not new has been found
GreensFound(p) == \A i \in p.greens : p.word[i] \in p.found

\* A Wizard can give a word the opponent has guessed (ReshapeNeverSolves)
NoWizard == \A s \in Sides : Class[s] # "wizard"

Unsolved(row) == ~Solves(row.colors) /\ ~Solves(row.seen) /\ ~Solves(row.shown)
AllUnsolved(p) == \A r \in DOMAIN p.guesses : Unsolved(p.guesses[r])

BoardInv(p) == Matches(p) /\ Learned(p) /\ GreensFound(p) /\ (NoWizard => AllUnsolved(p))

SideInv(p) ==
    /\ p \in FakeSafe
    /\ Fits(p)
    /\ BoardInv(p)
    /\ p.keymap <=> p.scrambled > 0

\* p's eyes, on q's board
Watches(p, q) == \A i \in DOMAIN p.eyes : p.eyes[i] # Off => p.eyes[i] \in Visible(q)

DuelInv ==
    /\ side = [s \in Sides |-> side[s]]
    /\ deadline \in BOOLEAN
    /\ over \in {"playing", "solved", "outOfGuesses", "resigned", "timeUp"}
    /\ \A s \in Sides : SideInv(side[s])
    /\ \A s \in Sides : Watches(side[s], side[Other(s)])
    /\ \A s \in Sides : side[s].shield => Class[s] = "knight"
    /\ \E s \in Sides : ~Out(side[s])

-----------------------------------------------------------------------------
(* Records: what one helper does to a side.                                 *)

SameBoard(p, q) ==
    /\ q.word = p.word /\ q.guesses = p.guesses /\ q.destroyed = p.destroyed
    /\ q.greens = p.greens /\ q.found = p.found

\* What a missile leaves alone, and the row it may not take
Worn(p, q) ==
    /\ SameBoard(p, q)
    /\ q.eyes = p.eyes /\ q.stunned = p.stunned /\ q.silenced = p.silenced
    /\ q.missiles = p.missiles /\ q.illusion = p.illusion /\ q.reshape = p.reshape
    /\ q.falseNext = p.falseNext /\ q.keymap = p.keymap /\ q.scrambled = p.scrambled
    /\ q.shield => p.shield
    /\ Fits(q) /\ (Out(q) => Out(p))

\* What is no harm to a side, whatever becomes of its shield and its rows
Unhurt(p, q) ==
    /\ q.stunned => p.stunned
    /\ q.silenced => p.silenced
    /\ q.illusion <= p.illusion /\ q.scrambled <= p.scrambled
    /\ q.destroyed \subseteq p.destroyed
    /\ q.falseNext \in {p.falseNext, NoPattern}

LEMMA SideTyped ==
  ASSUME NEW p \in FakeSafe
  PROVE  /\ p.guesses \in Seq(Boards) /\ Len(p.guesses) \in Nat /\ DOMAIN p.guesses = 1..Len(p.guesses)
         /\ p.rows \in Nat /\ p.energy \in Nat /\ p.word \in Answers
         /\ p.missiles \in Nat /\ p.illusion \in Nat /\ p.scrambled \in Nat
  BY AmountAssumption DEF FakeSafe

\* What n missiles leave of p that has its shield up: the first one uses it up, and
\* each of the others takes energy and a row at most
Withstood(p, q, n) ==
    IF n = 0 THEN q = p
    ELSE /\ ~q.shield
         /\ q.rows >= p.rows - (n - 1)
         /\ q.energy >= p.energy - MissileEnergy * (n - 1)

LEMMA LandWears ==
  ASSUME NEW p \in FakeSafe, Fits(p)
  PROVE  /\ Land(p) \in FakeSafe /\ Worn(p, Land(p)) /\ ~Land(p).shield
         /\ p.shield => Land(p).rows = p.rows /\ Land(p).energy = p.energy
         /\ Land(p).rows >= p.rows - 1 /\ Land(p).energy >= p.energy - MissileEnergy
<1> DEFINE energy == IF p.energy < MissileEnergy THEN 0 ELSE p.energy - MissileEnergy
           rows == IF Unused(p) >= 2 THEN p.rows - 1 ELSE p.rows
           hit == [[p EXCEPT !.energy = energy] EXCEPT !.rows = rows]
           blocked == [p EXCEPT !.shield = FALSE]
<1>1. Land(p) = IF p.shield THEN blocked ELSE hit
  BY DEF Land, Struck, LoseEnergy
<1>2. energy \in 0..MaxEnergy /\ rows \in 1..MaxRows /\ Len(p.guesses) <= rows
      /\ rows >= p.rows - 1 /\ energy >= p.energy - MissileEnergy
      /\ (Len(p.guesses) >= rows => Len(p.guesses) >= p.rows)
  BY SideTyped, AmountAssumption, SMTT(30) DEF FakeSafe, Unused, Fits
<1> HIDE DEF energy, rows
<1>3. hit \in FakeSafe /\ blocked \in FakeSafe
  BY <1>2, ZenonT(60) DEF FakeSafe
<1>4. Worn(p, hit)
  BY <1>2 DEF FakeSafe, Worn, SameBoard, Fits, Out
<1>5. Worn(p, blocked)
  BY DEF FakeSafe, Worn, SameBoard, Fits, Out
<1>6. /\ hit.shield = p.shield /\ hit.rows = rows /\ hit.energy = energy
      /\ ~blocked.shield /\ blocked.rows = p.rows /\ blocked.energy = p.energy
  BY <1>2 DEF FakeSafe
<1>7. /\ p.rows \in Int /\ p.energy \in Int /\ MissileEnergy \in Nat
  BY SideTyped, AmountAssumption
<1> HIDE DEF hit, blocked
<1>8. QED BY <1>1, <1>2, <1>3, <1>4, <1>5, <1>6, <1>7

\* One more of them
LEMMA LandAgain ==
  ASSUME NEW p \in FakeSafe, p.shield, NEW n \in Nat \ {0}, NEW q \in FakeSafe, Fits(q),
         Withstood(p, q, n - 1)
  PROVE  Withstood(p, Land(q), n)
<1>1. /\ ~Land(q).shield
      /\ q.shield => Land(q).rows = q.rows /\ Land(q).energy = q.energy
      /\ Land(q).rows >= q.rows - 1 /\ Land(q).energy >= q.energy - MissileEnergy
  BY LandWears
<1>2. /\ p.rows \in Int /\ p.energy \in Int /\ q.rows \in Int /\ q.energy \in Int
      /\ Land(q).rows \in Int /\ Land(q).energy \in Int /\ MissileEnergy \in Int
  BY LandWears, SideTyped, AmountAssumption
<1>3. CASE n = 1
  <2>1. q = p
    BY <1>3 DEF Withstood
  <2>2. MissileEnergy * (n - 1) = 0
    BY <1>2, <1>3
  <2>3. QED BY <1>1, <1>2, <1>3, <2>1, <2>2 DEF Withstood
<1>4. CASE n # 1
  <2>1. q.rows >= p.rows - (n - 2) /\ q.energy >= p.energy - MissileEnergy * (n - 2)
    BY <1>4 DEF Withstood
  <2>2. MissileEnergy * (n - 1) = MissileEnergy * (n - 2) + MissileEnergy
    BY <1>2
  <2>3. MissileEnergy * (n - 2) \in Int
    BY <1>2
  <2>4. QED BY <1>1, <1>2, <1>4, <2>1, <2>2, <2>3 DEF Withstood
<1>5. QED BY <1>3, <1>4

LEMMA LandManyWears ==
  ASSUME NEW n \in Nat, NEW p \in FakeSafe, Fits(p)
  PROVE  /\ LandMany(p, n) \in FakeSafe /\ Worn(p, LandMany(p, n))
         /\ p.shield => Withstood(p, LandMany(p, n), n)
<1> DEFINE S == {q \in FakeSafe : Worn(p, q)}
           after[i \in 0..n] == IF i = 0 THEN p ELSE Land(after[i - 1])
           G == [z \in (1..n) \X S |-> Land(z[2])]
           T == [i \in 0..n |-> {q \in S : p.shield => Withstood(p, q, i)}]
<1>1. p \in S
  BY DEF Worn, SameBoard
<1>2. \A q \in S : Land(q) \in S
  <2> SUFFICES ASSUME NEW q \in S PROVE Land(q) \in S
    OBVIOUS
  <2>1. Fits(q) /\ q \in FakeSafe /\ Worn(p, q)
    BY DEF Worn
  <2>2. Land(q) \in FakeSafe /\ Worn(q, Land(q))
    BY <2>1, LandWears
  <2>3. Worn(p, Land(q))
    BY <2>1, <2>2 DEF Worn, SameBoard
  <2>4. QED BY <2>2, <2>3
<1> HIDE DEF S
<1>3. \E f : f = [i \in 0..n |-> IF i = 0 THEN p ELSE Land(f[i - 1])]
  <2>1. G \in [(1..n) \X S -> S]
    BY <1>2
  <2>2. PICK f \in [0..n -> S] : Stages(f, n, p, G)
    <3> HIDE DEF G
    <3>1. QED BY <1>1, <2>1, StagesExist
  <2>3. ASSUME NEW i \in 1..n PROVE f[i] = Land(f[i - 1])
    <3>1. i - 1 \in 0..n
      OBVIOUS
    <3>2. f[i - 1] \in S
      BY <2>2, <3>1
    <3>3. G[<<i, f[i - 1]>>] = Land(f[i - 1])
      BY <3>2
    <3>4. QED BY <2>2, <3>3 DEF Stages
  <2>4. f = [i \in 0..n |-> IF i = 0 THEN p ELSE Land(f[i - 1])]
    BY <2>2, <2>3 DEF Stages
  <2>5. QED BY <2>4
<1>4. after = [i \in 0..n |-> IF i = 0 THEN p ELSE Land(after[i - 1])]
  BY <1>3
<1> HIDE DEF after
<1>5. \A i \in 0..n : after[i] \in T[i]
  <2>1. after[0] \in T[0]
    BY <1>1, <1>4 DEF Withstood
  <2>2. ASSUME NEW i \in 1..n, NEW q \in T[i - 1]
        PROVE  Land(q) \in T[i]
    <3>1. i \in 0..n /\ i - 1 \in 0..n /\ q \in S /\ (p.shield => Withstood(p, q, i - 1))
      BY <2>2
    <3>2. Land(q) \in S
      BY <1>2, <3>1
    <3>3. ASSUME p.shield PROVE Withstood(p, Land(q), i)
      BY <3>1, <3>3, LandAgain DEF S, Worn
    <3>4. QED BY <3>1, <3>2, <3>3
  <2>3. ASSUME NEW i \in 1..n, after[i - 1] \in T[i - 1]
        PROVE  after[i] \in T[i]
    <3>1. after[i] = Land(after[i - 1])
      BY <1>4
    <3> HIDE DEF T
    <3>2. QED BY <2>2, <2>3, <3>1
  <2> HIDE DEF T
  <2>4. QED BY <2>1, <2>3, StagesHold
<1>6. after[n] \in S /\ (p.shield => Withstood(p, after[n], n))
  BY <1>5
<1>7. LandMany(p, n) = after[n]
  BY DEF LandMany, after
<1>8. QED BY <1>6, <1>7 DEF S

-----------------------------------------------------------------------------
(* Eyes.                                                                    *)

Spots == ((1..MaxRows) \X Positions) \union {Off}

LEMMA VisibleSpots ==
  ASSUME NEW p \in FakeSafe, Fits(p)
  PROVE  Visible(p) \subseteq (1..MaxRows) \X Positions
<1>1. DOMAIN p.guesses \subseteq 1..MaxRows
  <2>1. p.rows \in 1..MaxRows
    BY DEF FakeSafe
  <2>2. QED BY <2>1, SideTyped, AmountAssumption DEF Fits
<1>2. QED BY <1>1 DEF Visible, Tiles

LEMMA SpotNumbers == Spots \subseteq Int \X Int
<1>1. (1..MaxRows) \subseteq Int /\ Positions \subseteq Int
  BY DEF Positions
<1>2. Off \in Int \X Int
  BY DEF Off
<1>3. (1..MaxRows) \X Positions \subseteq Int \X Int
  BY <1>1
<1>4. QED BY <1>2, <1>3 DEF Spots

LEMMA EyesTyped ==
  ASSUME NEW p \in FakeSafe
  PROVE  /\ Len(p.eyes) \in Nat /\ DOMAIN p.eyes = 1..Len(p.eyes)
         /\ p.eyes \in [1..Len(p.eyes) -> Spots]
  BY DEF FakeSafe, Spots

LEMMA AimLooks ==
  ASSUME NEW n \in Nat, NEW eyes \in [1..n -> Spots], NEW i \in 1..n,
         NEW p \in FakeSafe, Fits(p), NEW e \in Aim(eyes, i, p)
  PROVE  /\ e \in [1..n -> Spots]
         /\ e[i] \in Visible(p) \union {Off}
         /\ \A j \in 1..n : j # i => e[j] = eyes[j]
<1>1. PICK t \in Visible(p) \union {Off} : e = [eyes EXCEPT ![i] = t]
  BY DEF Aim
<1>2. t \in Spots
  BY VisibleSpots DEF Spots
<1>3. QED BY <1>1, <1>2

\* Every eye that is aimed sees a letter or none, the others see what they saw
LEMMA AimAllLooks ==
  ASSUME NEW n \in Nat, NEW eyes \in [1..n -> Spots], Len(eyes) = n, NEW those,
         NEW p \in FakeSafe, Fits(p), NEW e \in AimAll(eyes, those, p)
  PROVE  /\ e \in [1..n -> Spots]
         /\ \A j \in 1..n : IF j \in those THEN e[j] \in Visible(p) \union {Off} ELSE e[j] = eyes[j]
<1> DEFINE E == [1..n -> Spots]
           Body(i, X) == UNION {IF i \in those THEN Aim(f, i, p) ELSE {f} : f \in X}
           upTo[i \in 0..n] == IF i = 0 THEN {eyes} ELSE Body(i, upTo[i - 1])
           G == [z \in (1..n) \X SUBSET E |-> Body(z[1], z[2])]
           Good(i, f) == \A j \in 1..n : IF j \in those /\ j <= i THEN f[j] \in Visible(p) \union {Off}
                                         ELSE f[j] = eyes[j]
           T == [i \in 0..n |-> SUBSET {f \in E : Good(i, f)}]
<1>1. \A i \in 1..n, X \in SUBSET E : Body(i, X) \in SUBSET E
  BY AimLooks
<1>2. ASSUME NEW i \in 1..n, NEW X \in T[i - 1]
      PROVE  Body(i, X) \in T[i]
  <2>1. i - 1 \in 0..n /\ i \in 0..n
    OBVIOUS
  <2>2. \A f \in X : f \in E /\ Good(i - 1, f)
    BY <2>1
  <2>3. ASSUME NEW g \in Body(i, X)
        PROVE  g \in E /\ Good(i, g)
    <3>1. PICK f \in X : g \in IF i \in those THEN Aim(f, i, p) ELSE {f}
      OBVIOUS
    <3>2. CASE i \in those
      <4>1. g \in E /\ g[i] \in Visible(p) \union {Off} /\ \A j \in 1..n : j # i => g[j] = f[j]
        BY <2>2, <3>1, <3>2, AimLooks
      <4>2. QED BY <2>2, <3>2, <4>1, SMTT(30)
    <3>3. CASE i \notin those
      BY <2>2, <3>1, <3>3
    <3>4. QED BY <3>2, <3>3
  <2> HIDE DEF Body, Good
  <2>4. QED BY <2>1, <2>3
<1>3. {eyes} \in SUBSET E /\ {eyes} \in T[0]
  OBVIOUS
<1> HIDE DEF Body, T
<1>4. \E f : f = [i \in 0..n |-> IF i = 0 THEN {eyes} ELSE Body(i, f[i - 1])]
  <2>1. G \in [(1..n) \X SUBSET E -> SUBSET E]
    BY <1>1
  <2>2. PICK f \in [0..n -> SUBSET E] : Stages(f, n, {eyes}, G)
    <3> HIDE DEF G, E
    <3>1. QED BY <1>3, <2>1, StagesExist
  <2>3. ASSUME NEW i \in 1..n PROVE f[i] = Body(i, f[i - 1])
    <3>1. i - 1 \in 0..n
      OBVIOUS
    <3>2. f[i - 1] \in SUBSET E
      BY <2>2, <3>1
    <3>3. G[<<i, f[i - 1]>>] = Body(i, f[i - 1])
      BY <3>2
    <3>4. QED BY <2>2, <3>3 DEF Stages
  <2>4. f = [i \in 0..n |-> IF i = 0 THEN {eyes} ELSE Body(i, f[i - 1])]
    BY <2>2, <2>3 DEF Stages
  <2>5. QED BY <2>4
<1>5. upTo = [i \in 0..n |-> IF i = 0 THEN {eyes} ELSE Body(i, upTo[i - 1])]
  BY <1>4
<1> HIDE DEF upTo
<1>6. \A i \in 0..n : upTo[i] \in T[i]
  <2>1. upTo[0] \in T[0]
    BY <1>3, <1>5
  <2>2. ASSUME NEW i \in 1..n PROVE upTo[i] = Body(i, upTo[i - 1])
    <3>1. i \in 0..n /\ i # 0
      OBVIOUS
    <3>2. QED BY <1>5, <3>1, Zenon
  <2>3. ASSUME NEW i \in 1..n, upTo[i - 1] \in T[i - 1]
        PROVE  upTo[i] \in T[i]
    BY <1>2, <2>2, <2>3
  <2>4. QED BY <2>1, <2>3, StagesHold
<1>7. e \in upTo[n]
  BY DEF AimAll, upTo, Body
<1>8. e \in E /\ Good(n, e)
  BY <1>6, <1>7 DEF T
<1>9. QED BY <1>8

-----------------------------------------------------------------------------
(* A guess taken back.                                                      *)

\* The rows that stay keep what they are, the later ones a row higher
MovedUp(old, new, row) ==
    \A r \in DOMAIN new : new[r] = old[IF r < row THEN r ELSE r + 1]

LEMMA TakenBackBoard ==
  ASSUME NEW p \in FakeSafe, Fits(p), NEW row \in DOMAIN p.guesses
  PROVE  LET q == TakenBack(p, row)
         IN  /\ q \in FakeSafe /\ Fits(q) /\ ~Out(q)
             /\ Len(q.guesses) = Len(p.guesses) - 1
             /\ MovedUp(p.guesses, q.guesses, row)
             /\ q = [p EXCEPT !.guesses = q.guesses, !.destroyed = q.destroyed]
<1> DEFINE q == TakenBack(p, row)
           n == Len(p.guesses)
           guesses == Without(p.guesses, row)
           destroyed == {<<IF t[1] > row THEN t[1] - 1 ELSE t[1], t[2]>> :
                             t \in {u \in p.destroyed : u[1] # row}}
<1>1. n \in Nat /\ row \in 1..n /\ p.guesses \in [1..n -> Boards]
  BY SideTyped
<1>2. /\ guesses \in [1..(n - 1) -> Boards] /\ n - 1 \in Nat
      /\ \A r \in 1..(n - 1) : guesses[r] = p.guesses[IF r < row THEN r ELSE r + 1]
  <2>1. guesses = [r \in 1..(n - 1) |-> IF r < row THEN p.guesses[r] ELSE p.guesses[r + 1]]
    BY DEF Without
  <2> HIDE DEF guesses, n
  <2>2. n - 1 \in Nat
    BY <1>1
  <2>3. ASSUME NEW r \in 1..(n - 1)
        PROVE  guesses[r] \in Boards /\ guesses[r] = p.guesses[IF r < row THEN r ELSE r + 1]
    <3>1. r \in 1..n /\ r + 1 \in 1..n
      BY <1>1
    <3>2. p.guesses[r] \in Boards /\ p.guesses[r + 1] \in Boards
      BY <1>1, <3>1
    <3>3. guesses[r] = IF r < row THEN p.guesses[r] ELSE p.guesses[r + 1]
      BY <2>1
    <3>4. QED BY <3>2, <3>3
  <2>4. guesses \in [1..(n - 1) -> Boards]
    BY <2>1, <2>3
  <2>5. QED BY <2>2, <2>3, <2>4
<1>3. guesses \in Seq(Boards) /\ Len(guesses) = n - 1 /\ DOMAIN guesses = 1..(n - 1)
  <2> HIDE DEF guesses, n
  <2>1. QED BY <1>2
<1>4. destroyed \subseteq (1..MaxRows) \X Positions
  <2> SUFFICES ASSUME NEW t \in p.destroyed, t[1] # row
               PROVE  <<IF t[1] > row THEN t[1] - 1 ELSE t[1], t[2]>> \in (1..MaxRows) \X Positions
    OBVIOUS
  <2>1. t \in (1..MaxRows) \X Positions
    BY DEF FakeSafe
  <2>2. t[1] \in 1..MaxRows /\ t[2] \in Positions
    BY <2>1
  <2>3. QED BY <1>1, <2>2, AmountAssumption
<1>5. q = [[p EXCEPT !.guesses = guesses] EXCEPT !.destroyed = destroyed]
  BY DEF TakenBack
<1> HIDE DEF guesses, destroyed
<1>6. q \in FakeSafe
  BY <1>3, <1>4, <1>5, ZenonT(60) DEF FakeSafe
<1>7. q.guesses = guesses /\ q.destroyed = destroyed /\ q.rows = p.rows
  BY <1>5 DEF FakeSafe
<1>8. n <= p.rows /\ p.rows \in Nat
  BY SideTyped DEF Fits
<1>9. Fits(q) /\ ~Out(q)
  BY <1>1, <1>3, <1>7, <1>8 DEF Fits, Out
<1>10. MovedUp(p.guesses, q.guesses, row)
  BY <1>2, <1>3, <1>7 DEF MovedUp
<1>11. q = [p EXCEPT !.guesses = q.guesses, !.destroyed = q.destroyed]
  BY <1>5, <1>7
<1> HIDE DEF q
<1>12. QED BY <1>3, <1>6, <1>7, <1>9, <1>10, <1>11 DEF q

\* A letter that could be watched still can, where its row is now
LEMMA TakenBackVisible ==
  ASSUME NEW p \in FakeSafe, Fits(p), NEW row \in DOMAIN p.guesses, NEW t \in Visible(p), t[1] # row
  PROVE  <<IF t[1] > row THEN t[1] - 1 ELSE t[1], t[2]>> \in Visible(TakenBack(p, row))
<1> DEFINE q == TakenBack(p, row)
           to(u) == IF u[1] > row THEN u[1] - 1 ELSE u[1]
<1>1. /\ DOMAIN p.guesses = 1..Len(p.guesses) /\ Len(p.guesses) \in Nat
      /\ q.guesses \in Seq(Boards) /\ DOMAIN q.guesses = 1..(Len(p.guesses) - 1)
      /\ MovedUp(p.guesses, q.guesses, row)
  <2>1. /\ q \in FakeSafe /\ Len(q.guesses) = Len(p.guesses) - 1
        /\ MovedUp(p.guesses, q.guesses, row)
    BY TakenBackBoard
  <2> HIDE DEF q
  <2>2. QED BY <2>1, SideTyped
<1>2. q.destroyed = {<<to(u), u[2]>> : u \in {v \in p.destroyed : v[1] # row}}
  BY DEF TakenBack, FakeSafe
<1>3. t[1] \in DOMAIN p.guesses /\ t[2] \in Positions /\ t = <<t[1], t[2]>>
      /\ p.guesses[t[1]].colors[t[2]] # "green" /\ t \notin p.destroyed
  BY DEF Visible, Tiles
<1>4. to(t) \in DOMAIN q.guesses /\ q.guesses[to(t)] = p.guesses[t[1]]
  <2> HIDE DEF q
  <2>1. t[1] \in 1..Len(p.guesses) /\ row \in 1..Len(p.guesses)
    BY <1>1, <1>3
  <2>2. to(t) \in 1..(Len(p.guesses) - 1) /\ (IF to(t) < row THEN to(t) ELSE to(t) + 1) = t[1]
    BY <1>1, <2>1
  <2> HIDE DEF to
  <2>3. QED BY <1>1, <2>2 DEF MovedUp
<1>5. <<to(t), t[2]>> \notin q.destroyed
  <2> SUFFICES ASSUME NEW u \in p.destroyed, u[1] # row, <<to(t), t[2]>> = <<to(u), u[2]>>
               PROVE  FALSE
    BY <1>2
  <2>1. u[1] \in Int /\ u = <<u[1], u[2]>>
    BY DEF FakeSafe
  <2>2. t[1] \in Int /\ row \in Int
    BY <1>1, <1>3
  <2>3. to(t) = to(u) /\ t[2] = u[2]
    OBVIOUS
  <2>4. t[1] = u[1]
    BY <2>1, <2>2, <2>3
  <2>5. QED BY <1>3, <2>1, <2>3, <2>4
<1> HIDE DEF q, to
<1>6. <<to(t), t[2]>> \in Visible(q)
  BY <1>3, <1>4, <1>5 DEF Visible, Tiles
<1>7. QED BY <1>6 DEF q, to

\* The opponent's eyes follow the letters that moved up
LEMMA MendEyesLook ==
  ASSUME NEW p \in FakeSafe, Fits(p), NEW row \in DOMAIN p.guesses,
         NEW n \in Nat, NEW eyes \in [1..n -> Spots], Len(eyes) = n,
         \A j \in 1..n : eyes[j] \in Visible(p) \union {Off},
         NEW e \in MendEyes(eyes, row, TakenBack(p, row))
  PROVE  e \in [1..n -> Spots] /\ \A j \in 1..n : e[j] \in Visible(TakenBack(p, row)) \union {Off}
<1> DEFINE q == TakenBack(p, row)
           E == [1..n -> Spots]
           Move(i, f) == IF f[i] = Off \/ f[i][1] < row THEN {f}
                         ELSE IF f[i][1] = row THEN Aim(f, i, q)
                         ELSE {[f EXCEPT ![i] = <<f[i][1] - 1, f[i][2]>>]}
           Body(i, X) == UNION {Move(i, f) : f \in X}
           upTo[i \in 0..n] == IF i = 0 THEN {eyes} ELSE Body(i, upTo[i - 1])
           Good(i, f) == \A j \in 1..n : IF j <= i THEN f[j] \in Visible(q) \union {Off}
                                         ELSE f[j] = eyes[j]
           F == [1..n -> Int \X Int]
           S == SUBSET F
           G == [z \in (1..n) \X S |-> Body(z[1], z[2])]
           T == [i \in 0..n |-> SUBSET {f \in E : Good(i, f)}]
<1>1. /\ q \in FakeSafe /\ Fits(q) /\ row \in Nat
      /\ Visible(p) \subseteq (1..MaxRows) \X Positions
      /\ Visible(q) \subseteq (1..MaxRows) \X Positions
  <2>1. q \in FakeSafe /\ Fits(q)
    BY TakenBackBoard
  <2> HIDE DEF q
  <2>2. row \in Nat
    BY SideTyped
  <2>3. QED BY <2>1, <2>2, VisibleSpots
<1>2. ASSUME NEW i \in 1..n, NEW f \in E, f[i] \in Visible(p) \union {Off}, NEW g \in Move(i, f)
      PROVE  g \in E /\ g[i] \in Visible(q) \union {Off} /\ \A j \in 1..n : j # i => g[j] = f[j]
  <2>1. CASE f[i] = Off
    BY <1>2, <2>1
  <2>2. CASE f[i] # Off /\ f[i][1] < row
    <3>1. f[i] \in Visible(p) /\ f[i] = <<f[i][1], f[i][2]>> /\ f[i][1] \in Int
      BY <1>1, <1>2, <2>2
    <3>2. f[i] \in Visible(q)
      <4> DEFINE t == f[i]
      <4>1. t \in Visible(p) /\ t[1] # row /\ ~(t[1] > row) /\ t = <<t[1], t[2]>>
        BY <1>1, <2>2, <3>1
      <4> HIDE DEF t
      <4>2. t \in Visible(q)
        BY <4>1, TakenBackVisible
      <4>3. QED BY <4>2 DEF t
    <3>3. g = f
      BY <2>2
    <3>4. QED BY <3>2, <3>3
  <2>3. CASE f[i] # Off /\ f[i][1] = row
    <3>1. g \in Aim(f, i, q)
      BY <1>1, <2>3
    <3> HIDE DEF q
    <3>2. QED BY <1>1, <3>1, AimLooks
  <2>4. CASE f[i] # Off /\ f[i][1] > row
    <3> DEFINE t == f[i]
    <3>1. t \in Visible(p) /\ t[1] # row /\ t[1] > row
      BY <1>1, <1>2, <2>4
    <3>2. g = [f EXCEPT ![i] = <<t[1] - 1, t[2]>>]
      <4>1. f[i][1] \in Int /\ ~(f[i][1] < row) /\ f[i][1] # row
        BY <1>1, <2>4, <3>1
      <4>2. QED BY <2>4, <4>1
    <3> HIDE DEF t
    <3>3. <<t[1] - 1, t[2]>> \in Visible(q)
      BY <3>1, TakenBackVisible
    <3>4. <<t[1] - 1, t[2]>> \in Spots
      BY <1>1, <3>3 DEF Spots
    <3>5. QED BY <3>2, <3>3, <3>4
  <2>5. f[i] = Off \/ f[i][1] \in Int
    BY <1>1, <1>2
  <2>6. QED BY <1>1, <2>1, <2>2, <2>3, <2>4, <2>5
<1>3. ASSUME NEW i \in 1..n, NEW X \in T[i - 1]
      PROVE  Body(i, X) \in T[i]
  <2>1. i - 1 \in 0..n /\ i \in 0..n
    OBVIOUS
  <2>2. \A f \in X : f \in E /\ Good(i - 1, f)
    BY <2>1
  <2>3. ASSUME NEW g \in Body(i, X)
        PROVE  g \in E /\ Good(i, g)
    <3>1. PICK f \in X : g \in Move(i, f)
      OBVIOUS
    <3>2. f \in E /\ Good(i - 1, f) /\ f[i] \in Visible(p) \union {Off}
      <4> HIDE DEF q
      <4>1. QED BY <2>2
    <3> HIDE DEF Move
    <3>3. g \in E /\ g[i] \in Visible(q) \union {Off} /\ \A j \in 1..n : j # i => g[j] = f[j]
      BY <1>2, <3>1, <3>2
    <3> HIDE DEF q
    <3>4. QED BY <3>2, <3>3
  <2> HIDE DEF Body, Good
  <2>4. QED BY <2>1, <2>3
<1>4. ASSUME NEW i \in 1..n, NEW X \in S PROVE Body(i, X) \in S
  <2> SUFFICES ASSUME NEW f \in F, NEW g \in Move(i, f) PROVE g \in F
    <3> HIDE DEF Move, F
    <3>1. QED OBVIOUS
  <2>1. \A t \in Int \X Int : [f EXCEPT ![i] = t] \in F
    OBVIOUS
  <2>2. f[i][1] \in Int /\ f[i][2] \in Int
    OBVIOUS
  <2>3. Visible(q) \subseteq Spots /\ Off \in Spots
    <3> HIDE DEF q
    <3>1. QED BY <1>1 DEF Spots
  <2>4. Visible(q) \union {Off} \subseteq Int \X Int
    BY <2>3, SpotNumbers
  <2>5. CASE g \in Aim(f, i, q)
    <3> HIDE DEF q
    <3>1. PICK t \in Visible(q) \union {Off} : g = [f EXCEPT ![i] = t]
      BY <2>5 DEF Aim
    <3>2. QED BY <2>1, <2>4, <3>1
  <2>6. CASE g \in {f, [f EXCEPT ![i] = <<f[i][1] - 1, f[i][2]>>]}
    BY <2>1, <2>2, <2>6, SMTT(30)
  <2>7. QED BY <2>5, <2>6
<1>5. {eyes} \in S /\ {eyes} \in T[0]
  <2>1. eyes \in F
    BY SpotNumbers
  <2>2. QED BY <2>1
<1> HIDE DEF Body, T, S
<1>6. \E f : f = [i \in 0..n |-> IF i = 0 THEN {eyes} ELSE Body(i, f[i - 1])]
  <2>1. G \in [(1..n) \X S -> S]
    BY <1>4
  <2>2. PICK f \in [0..n -> S] : Stages(f, n, {eyes}, G)
    <3> HIDE DEF G
    <3>1. QED BY <1>5, <2>1, StagesExist
  <2>3. ASSUME NEW i \in 1..n PROVE f[i] = Body(i, f[i - 1])
    <3>1. i - 1 \in 0..n
      OBVIOUS
    <3>2. f[i - 1] \in S
      BY <2>2, <3>1
    <3>3. G[<<i, f[i - 1]>>] = Body(i, f[i - 1])
      BY <3>2
    <3>4. QED BY <2>2, <3>3 DEF Stages
  <2>4. f = [i \in 0..n |-> IF i = 0 THEN {eyes} ELSE Body(i, f[i - 1])]
    BY <2>2, <2>3 DEF Stages
  <2>5. QED BY <2>4
<1>7. upTo = [i \in 0..n |-> IF i = 0 THEN {eyes} ELSE Body(i, upTo[i - 1])]
  BY <1>6
<1> HIDE DEF upTo
<1>8. \A i \in 0..n : upTo[i] \in T[i]
  <2>1. upTo[0] \in T[0]
    BY <1>5, <1>7
  <2>2. ASSUME NEW i \in 1..n PROVE upTo[i] = Body(i, upTo[i - 1])
    <3>1. i \in 0..n /\ i # 0
      OBVIOUS
    <3>2. QED BY <1>7, <3>1, Zenon
  <2>3. ASSUME NEW i \in 1..n, upTo[i - 1] \in T[i - 1]
        PROVE  upTo[i] \in T[i]
    BY <1>3, <2>2, <2>3
  <2>4. QED BY <2>1, <2>3, StagesHold
<1>9. e \in upTo[n]
  BY DEF MendEyes, upTo, Body
<1>10. e \in E /\ Good(n, e)
  BY <1>8, <1>9 DEF T
<1>11. QED BY <1>10

-----------------------------------------------------------------------------
(* Steps.                                                                   *)

\* The body of FoundStaysFound
FoundKept ==
    \A s \in Sides : over' = "playing" /\ ~GivenAnew(s) =>
        side[s].greens \subseteq side'[s].greens /\ side[s].found \subseteq side'[s].found

Sound == DuelInv' /\ FoundKept

Keeps(p, q) == p.greens \subseteq q.greens /\ p.found \subseteq q.found

LEMMA SidesAre ==
  ASSUME NEW s \in Sides
  PROVE  /\ Other(s) \in Sides /\ Other(s) # s /\ Other(Other(s)) = s
         /\ \A t \in Sides : t = s \/ t = Other(s)
  BY DEF Sides, Other

\* s becomes me and its opponent becomes them, in a duel that goes on
Becomes(s, me, them) ==
    /\ side' = [t \in Sides |-> IF t = s THEN me ELSE them]
    /\ deadline' \in BOOLEAN
    /\ over' = over

LEMMA PutBecomes ==
  ASSUME DuelInv, NEW s, NEW me, NEW them, Put(s, me, them)
  PROVE  Becomes(s, me, them)
  BY DEF Put, Becomes, DuelInv

LEMMA BecomesStep ==
  ASSUME DuelInv, NEW s \in Sides, NEW me, NEW them, Becomes(s, me, them),
         SideInv(me), SideInv(them), Watches(me, them), Watches(them, me),
         me.shield => Class[s] = "knight", them.shield => Class[Other(s)] = "knight",
         ~Out(me) \/ ~Out(them),
         Keeps(side[s], me) \/ GivenAnew(s),
         Keeps(side[Other(s)], them) \/ GivenAnew(Other(s))
  PROVE  Sound
<1> DEFINE o == Other(s)
<1>1. o \in Sides /\ o # s /\ Other(o) = s /\ \A t \in Sides : t = s \/ t = o
  BY SidesAre
<1>2. /\ side'[s] = me /\ side'[o] = them /\ side' = [t \in Sides |-> side'[t]]
      /\ deadline' \in BOOLEAN /\ over' = over
  BY <1>1 DEF Becomes
<1> HIDE DEF o
<1>3. \A t \in Sides : SideInv(side'[t])
  BY <1>1, <1>2
<1>4. \A t \in Sides : Watches(side'[t], side'[Other(t)])
  BY <1>1, <1>2 DEF o
<1>5. \A t \in Sides : side'[t].shield => Class[t] = "knight"
  BY <1>1, <1>2 DEF o
<1>6. \E t \in Sides : ~Out(side'[t])
  BY <1>1, <1>2
<1>7. DuelInv'
  BY <1>2, <1>3, <1>4, <1>5, <1>6 DEF DuelInv
<1>8. FoundKept
  BY <1>1, <1>2 DEF FoundKept, Keeps, o
<1>9. QED BY <1>7, <1>8 DEF Sound

\* What changes no board and takes nobody's last row
Calm(p, q) ==
    /\ q \in FakeSafe
    /\ SameBoard(p, q)
    /\ q.eyes \in {p.eyes, <<>>}
    /\ Fits(q) /\ (Out(q) => Out(p))
    /\ q.keymap <=> q.scrambled > 0

LEMMA CalmKeeps ==
  ASSUME NEW p, SideInv(p), NEW q, Calm(p, q)
  PROVE  SideInv(q) /\ Visible(q) = Visible(p) /\ Keeps(p, q)
<1>1. SameBoard(p, q)
  BY DEF Calm
<1>2. Visible(q) = Visible(p)
  BY <1>1 DEF SameBoard, Visible, Tiles
<1>3. BoardInv(q)
  BY <1>1 DEF SideInv, BoardInv, SameBoard, Matches, Learned, GreensFound, AllUnsolved
<1>4. Keeps(p, q)
  BY <1>1 DEF SameBoard, Keeps
<1>5. QED BY <1>2, <1>3, <1>4 DEF Calm, SideInv

LEMMA CalmStep ==
  ASSUME DuelInv, NEW s \in Sides, NEW me, NEW them, Becomes(s, me, them),
         Calm(side[s], me), Calm(side[Other(s)], them),
         me.shield => side[s].shield \/ Class[s] = "knight",
         them.shield => side[Other(s)].shield
  PROVE  Sound
<1>1. /\ SideInv(side[s]) /\ SideInv(side[Other(s)]) /\ (~Out(side[s]) \/ ~Out(side[Other(s)]))
      /\ Watches(side[s], side[Other(s)]) /\ Watches(side[Other(s)], side[s])
      /\ side[s].shield => Class[s] = "knight"
      /\ side[Other(s)].shield => Class[Other(s)] = "knight"
  BY SidesAre DEF DuelInv
<1>2. /\ SideInv(me) /\ Visible(me) = Visible(side[s]) /\ Keeps(side[s], me)
      /\ SideInv(them) /\ Visible(them) = Visible(side[Other(s)]) /\ Keeps(side[Other(s)], them)
  BY <1>1, CalmKeeps
<1>3. Watches(me, them) /\ Watches(them, me)
  BY <1>1, <1>2 DEF Calm, Watches
<1>4. ~Out(me) \/ ~Out(them)
  BY <1>1 DEF Calm
<1>5. QED BY <1>1, <1>2, <1>3, <1>4, BecomesStep

LEMMA CalmItself ==
  ASSUME NEW p, SideInv(p)
  PROVE  Calm(p, p)
  BY DEF SideInv, Calm, SameBoard

\* What a hostile ability may do to a side, its shield apart
Hit(p, q) ==
    /\ q \in FakeSafe
    /\ SameBoard(p, q)
    /\ q.eyes = p.eyes /\ q.shield = p.shield
    /\ Fits(q) /\ (Out(q) => Out(p))
    /\ q.keymap <=> q.scrambled > 0

LEMMA StruckCalm ==
  ASSUME NEW p, SideInv(p), NEW q, Hit(p, q)
  PROVE  Calm(p, Struck(p, q)) /\ (Struck(p, q).shield => p.shield)
<1> DEFINE blocked == [p EXCEPT !.shield = FALSE]
<1>1. p \in FakeSafe /\ p.rows \in Int /\ p.illusion \in Int /\ p.scrambled \in Int
  BY SideTyped DEF SideInv
<1>2. CASE p.shield
  <2>1. Struck(p, q) = blocked
    BY <1>2 DEF Struck
  <2>2. blocked \in FakeSafe
    BY <1>1, ZenonT(60) DEF FakeSafe
  <2>3. SameBoard(p, blocked)
    BY <1>1 DEF FakeSafe, SameBoard
  <2>4. Calm(p, blocked)
    BY <2>2, <2>3, <1>1 DEF Calm, SideInv, FakeSafe, Fits, Out
  <2>5. QED BY <1>2, <2>1, <2>4
<1>3. CASE ~p.shield
  BY <1>3 DEF Struck, Hit, Calm
<1>4. QED BY <1>2, <1>3

\* The price of an ability can be paid
LEMMA Price ==
  ASSUME DuelInv, NEW s \in Sides, NEW a, a \in Kit[Class[s]], side[s].energy >= Cost[a]
  PROVE  side[s].energy - Cost[a] \in 0..MaxEnergy
<1>1. a \in Abilities
  BY ClassAssumption DEF Abilities
<1>2. Cost[a] \in Nat /\ side[s].energy \in 0..MaxEnergy
  BY <1>1, CostAssumption DEF DuelInv, SideInv, FakeSafe
<1>3. QED BY <1>2, AmountAssumption

LEMMA PaidHit ==
  ASSUME DuelInv, NEW s \in Sides, NEW a, a \in Kit[Class[s]], side[s].energy >= Cost[a]
  PROVE  Hit(side[s], Paid(s, a)) /\ Calm(side[s], Paid(s, a)) /\ SideInv(Paid(s, a))
         /\ Paid(s, a).shield = side[s].shield /\ Paid(s, a).missiles = side[s].missiles
         /\ Paid(s, a) \in FakeSafe
<1> DEFINE p == side[s]
           energy == p.energy - Cost[a]
           q == [p EXCEPT !.energy = energy]
<1>1. SideInv(p) /\ p \in FakeSafe /\ energy \in 0..MaxEnergy
      /\ p.rows \in Int /\ p.illusion \in Int /\ p.scrambled \in Int
  <2>1. SideInv(p) /\ p \in FakeSafe
    BY DEF DuelInv, SideInv
  <2>2. energy \in 0..MaxEnergy
    BY Price
  <2> HIDE DEF p, energy
  <2>3. p.rows \in Int /\ p.illusion \in Int /\ p.scrambled \in Int
    BY <2>1, SideTyped
  <2>4. QED BY <2>1, <2>2, <2>3
<1>2. Paid(s, a) = q
  BY DEF Paid
<1> HIDE DEF p, energy
<1>3. q \in FakeSafe
  BY <1>1 DEF FakeSafe
<1>4. SameBoard(p, q) /\ q.eyes = p.eyes /\ q.shield = p.shield /\ q.rows = p.rows
      /\ q.keymap = p.keymap /\ q.scrambled = p.scrambled /\ q.missiles = p.missiles
  BY <1>1 DEF FakeSafe, SameBoard
<1> HIDE DEF q
<1>5. Hit(p, q)
  BY <1>1, <1>3, <1>4 DEF Hit, SideInv, Fits, Out, SameBoard
<1>6. Calm(p, q)
  BY <1>4, <1>5 DEF Calm, Hit
<1>7. SideInv(q)
  BY <1>1, <1>6, CalmKeeps
<1>8. QED BY <1>2, <1>3, <1>4, <1>5, <1>6, <1>7 DEF p

LEMMA StrikeStep ==
  ASSUME DuelInv, NEW s \in Sides, NEW a, NEW hit, Strike(s, a, hit), Hit(side[Other(s)], hit)
  PROVE  Sound
<1>1. Put(s, Paid(s, a), Struck(side[Other(s)], hit)) /\ a \in Kit[Class[s]] /\ side[s].energy >= Cost[a]
  BY DEF Strike, Affords
<1>2. Calm(side[s], Paid(s, a)) /\ Paid(s, a).shield = side[s].shield
  BY <1>1, PaidHit
<1>3. SideInv(side[Other(s)])
  BY SidesAre DEF DuelInv
<1>4. Calm(side[Other(s)], Struck(side[Other(s)], hit))
      /\ (Struck(side[Other(s)], hit).shield => side[Other(s)].shield)
  BY <1>3, StruckCalm
<1>5. QED BY <1>1, <1>2, <1>4, PutBecomes, CalmStep

LEMMA SelfStep ==
  ASSUME DuelInv, NEW s \in Sides, NEW me, Put(s, me, side[Other(s)]), Calm(side[s], me),
         me.shield => side[s].shield \/ Class[s] = "knight"
  PROVE  Sound
<1>1. Calm(side[Other(s)], side[Other(s)])
  BY SidesAre, CalmItself DEF DuelInv
<1>2. QED BY <1>1, PutBecomes, CalmStep

LEMMA CalmWhen ==
  ASSUME NEW p, SideInv(p), NEW q, q \in FakeSafe, SameBoard(p, q), q.eyes \in {p.eyes, <<>>},
         q.rows >= p.rows, q.keymap <=> q.scrambled > 0
  PROVE  Calm(p, q)
<1>1. Len(p.guesses) \in Int /\ p.rows \in Int /\ q.rows \in Int
  BY SideTyped DEF SideInv
<1>2. Fits(q) /\ (Out(q) => Out(p))
  BY <1>1 DEF SideInv, Fits, Out, SameBoard
<1>3. QED BY <1>2 DEF Calm

LEMMA CalmTwice ==
  ASSUME NEW p, SideInv(p), NEW q, SideInv(q), Calm(p, q), NEW r, Calm(q, r),
         q.shield = p.shield, q.missiles = p.missiles
  PROVE  Calm(p, r)
  BY DEF Calm, SameBoard

LEMMA PaidThen ==
  ASSUME DuelInv, NEW s \in Sides, NEW a, a \in Kit[Class[s]], side[s].energy >= Cost[a],
         NEW r, Calm(Paid(s, a), r)
  PROVE  Calm(side[s], r)
<1>1. SideInv(side[s])
  BY DEF DuelInv
<1>2. /\ Calm(side[s], Paid(s, a)) /\ SideInv(Paid(s, a))
      /\ Paid(s, a).shield = side[s].shield /\ Paid(s, a).missiles = side[s].missiles
  BY PaidHit
<1>3. QED BY <1>1, <1>2, CalmTwice

LEMMA ShieldOwner ==
  ASSUME NEW s \in Sides, "shieldsUp" \in Kit[Class[s]]
  PROVE  Class[s] = "knight"
  BY ClassAssumption DEF Kit

(* The Knight                                                               *)

LEMMA ShieldsUpStep ==
  ASSUME DuelInv, NEW s \in Sides, ShieldsUp(s)
  PROVE  Sound
<1> DEFINE q == Paid(s, "shieldsUp")
           r == [q EXCEPT !.shield = TRUE]
<1>1. "shieldsUp" \in Kit[Class[s]] /\ side[s].energy >= Cost["shieldsUp"] /\ Put(s, r, side[Other(s)])
  BY DEF ShieldsUp, Self, Affords
<1>2. SideInv(q) /\ q \in FakeSafe /\ q.rows \in Int /\ q.illusion \in Int /\ q.scrambled \in Int
  BY <1>1, PaidHit, SideTyped
<1>3. Calm(q, r)
  <2> HIDE DEF q
  <2>1. r \in FakeSafe
    BY <1>2 DEF FakeSafe
  <2>2. /\ SameBoard(q, r) /\ r.eyes = q.eyes /\ r.rows = q.rows
        /\ r.keymap = q.keymap /\ r.scrambled = q.scrambled
    BY <1>2 DEF FakeSafe, SameBoard
  <2> HIDE DEF r
  <2>3. QED BY <1>2, <2>1, <2>2, CalmWhen DEF SideInv
<1>4. Calm(side[s], r) /\ Class[s] = "knight"
  <2> HIDE DEF r
  <2>1. QED BY <1>1, <1>3, PaidThen, ShieldOwner
<1> HIDE DEF r
<1>5. QED BY <1>1, <1>4, SelfStep

LEMMA DeterminationStep ==
  ASSUME DuelInv, NEW s \in Sides, Determination(s)
  PROVE  Sound
<1> DEFINE q == Paid(s, "determination")
           r == [q EXCEPT !.rows = q.rows + 1]
<1>1. /\ "determination" \in Kit[Class[s]] /\ side[s].energy >= Cost["determination"]
      /\ Put(s, r, side[Other(s)]) /\ side[s].rows < MaxRows
  BY DEF Determination, Self, Affords
<1>2. SideInv(q) /\ q \in FakeSafe /\ q.rows \in Int /\ q.illusion \in Int /\ q.scrambled \in Int
  BY <1>1, PaidHit, SideTyped
<1>3. q.rows = side[s].rows /\ q.shield = side[s].shield
  BY DEF Paid, DuelInv, SideInv, FakeSafe
<1>4. Calm(q, r) /\ r.shield = q.shield
  <2> HIDE DEF q
  <2>1. q.rows + 1 \in 1..MaxRows
    <3>1. q.rows \in 1..MaxRows
      BY <1>2 DEF FakeSafe
    <3>2. QED BY <1>1, <1>3, <3>1, AmountAssumption
  <2>2. r \in FakeSafe
    BY <1>2, <2>1 DEF FakeSafe
  <2>3. /\ SameBoard(q, r) /\ r.eyes = q.eyes /\ r.rows = q.rows + 1
        /\ r.keymap = q.keymap /\ r.scrambled = q.scrambled /\ r.shield = q.shield
    BY <1>2 DEF FakeSafe, SameBoard
  <2> HIDE DEF r
  <2>4. QED BY <1>2, <2>2, <2>3, CalmWhen DEF SideInv
<1>5. Calm(side[s], r)
  <2> HIDE DEF r
  <2>1. QED BY <1>1, <1>4, PaidThen
<1>6. QED BY <1>1, <1>3, <1>4, <1>5, SelfStep

LEMMA PommelStrikeStep ==
  ASSUME DuelInv, NEW s \in Sides, PommelStrike(s)
  PROVE  Sound
<1> DEFINE p == side[Other(s)]
           hit == [p EXCEPT !.stunned = TRUE]
<1>1. SideInv(p)
  BY SidesAre DEF DuelInv
<1> HIDE DEF p
<1>2. Hit(p, hit)
  BY <1>1 DEF SideInv, Hit, FakeSafe, SameBoard, Fits, Out
<1>3. QED BY <1>2, StrikeStep DEF PommelStrike, p

LEMMA CrippleStep ==
  ASSUME DuelInv, NEW s \in Sides, Cripple(s)
  PROVE  Sound
<1> DEFINE p == side[Other(s)]
           hit == [p EXCEPT !.rows = p.rows - 1]
<1>1. SideInv(p) /\ Unused(p) >= 2 /\ Strike(s, "cripple", hit)
  BY SidesAre DEF DuelInv, Cripple
<1> HIDE DEF p
<1>2. p \in FakeSafe /\ p.rows \in Nat /\ p.rows <= MaxRows /\ Len(p.guesses) \in Nat
      /\ p.rows - Len(p.guesses) >= 2
  <2>1. p \in FakeSafe /\ p.rows - Len(p.guesses) >= 2
    BY <1>1 DEF SideInv, Unused
  <2>2. p.rows \in 1..MaxRows
    BY <2>1 DEF FakeSafe
  <2>3. QED BY <2>1, <2>2, SideTyped, AmountAssumption
<1>3. p.rows - 1 \in 1..MaxRows
  BY <1>2, AmountAssumption
<1>4. hit \in FakeSafe
  BY <1>2, <1>3 DEF FakeSafe
<1>5. /\ SameBoard(p, hit) /\ hit.eyes = p.eyes /\ hit.shield = p.shield /\ hit.rows = p.rows - 1
      /\ hit.keymap = p.keymap /\ hit.scrambled = p.scrambled
  BY <1>2 DEF FakeSafe, SameBoard
<1> HIDE DEF hit
<1>6. Fits(hit) /\ ~Out(hit)
  BY <1>2, <1>5 DEF Fits, Out, SameBoard
<1>7. Hit(p, hit)
  BY <1>1, <1>4, <1>5, <1>6 DEF Hit, SideInv
<1>8. QED BY <1>1, <1>7, StrikeStep DEF p

(* The Wizard                                                               *)

LEMMA PaidStep ==
  ASSUME DuelInv, NEW s \in Sides, NEW a, Self(s, a, Paid(s, a))
  PROVE  Sound
<1>1. a \in Kit[Class[s]] /\ side[s].energy >= Cost[a] /\ Put(s, Paid(s, a), side[Other(s)])
  BY DEF Self, Affords
<1>2. Calm(side[s], Paid(s, a)) /\ Paid(s, a).shield = side[s].shield
  BY <1>1, PaidHit
<1>3. QED BY <1>1, <1>2, SelfStep

LEMMA MagicMissileStep ==
  ASSUME DuelInv, NEW s \in Sides, MagicMissile(s)
  PROVE  Sound
<1> DEFINE p == side[Other(s)]
           q == [p EXCEPT !.missiles = p.missiles + 1]
<1>1. /\ SideInv(p) /\ p.missiles < MaxMissiles /\ Put(s, Paid(s, "magicMissile"), q)
      /\ "magicMissile" \in Kit[Class[s]] /\ side[s].energy >= Cost["magicMissile"]
  BY SidesAre DEF DuelInv, MagicMissile, Affords
<1>2. Calm(side[s], Paid(s, "magicMissile")) /\ Paid(s, "magicMissile").shield = side[s].shield
  BY <1>1, PaidHit
<1>3. Calm(p, q) /\ q.shield = p.shield
  <2> HIDE DEF p
  <2>1. p \in FakeSafe /\ p.rows \in Int /\ p.illusion \in Int /\ p.scrambled \in Int
    BY <1>1, SideTyped DEF SideInv
  <2>2. p.missiles + 1 \in 0..MaxMissiles
    BY <1>1, <2>1, SideTyped, AmountAssumption, SMTT(30)
  <2>3. q \in FakeSafe
    BY <2>1, <2>2 DEF FakeSafe
  <2>4. /\ SameBoard(p, q) /\ q.eyes = p.eyes /\ q.rows = p.rows
        /\ q.keymap = p.keymap /\ q.scrambled = p.scrambled /\ q.shield = p.shield
    BY <2>1 DEF FakeSafe, SameBoard
  <2> HIDE DEF q
  <2>5. QED BY <1>1, <2>1, <2>3, <2>4, CalmWhen DEF SideInv
<1> HIDE DEF q
<1>4. QED BY <1>1, <1>2, <1>3, PutBecomes, CalmStep DEF p

LEMMA IllusionStep ==
  ASSUME DuelInv, NEW s \in Sides, Illusion(s)
  PROVE  Sound
<1> DEFINE p == side[Other(s)]
           hit == [p EXCEPT !.illusion = IllusionGuesses]
<1>1. SideInv(p) /\ p \in FakeSafe
  BY SidesAre DEF DuelInv, SideInv
<1> HIDE DEF p
<1>2. hit \in FakeSafe
  <2>1. IllusionGuesses \in 0..IllusionGuesses
    BY AmountAssumption
  <2>2. QED BY <1>1, <2>1 DEF FakeSafe
<1>3. /\ SameBoard(p, hit) /\ hit.eyes = p.eyes /\ hit.shield = p.shield /\ hit.rows = p.rows
      /\ hit.keymap = p.keymap /\ hit.scrambled = p.scrambled
  BY <1>1 DEF FakeSafe, SameBoard
<1>4. Hit(p, hit)
  <2> HIDE DEF hit
  <2>1. QED BY <1>1, <1>2, <1>3 DEF Hit, SideInv, Fits, Out, SameBoard
<1>5. QED BY <1>4, StrikeStep DEF Illusion, p

LEMMA OfferReshapeStep ==
  ASSUME DuelInv, NEW s \in Sides, OfferReshape(s)
  PROVE  Sound
<1> DEFINE p == side[s]
<1>1. PICK words \in Offers(side[Other(s)]) : Put(s, [p EXCEPT !.reshape = words], side[Other(s)])
  BY DEF OfferReshape
<1> DEFINE q == [p EXCEPT !.reshape = words]
<1>2. SideInv(p) /\ p \in FakeSafe /\ words \subseteq Answers
  BY DEF DuelInv, SideInv, Offers
<1>3. Calm(p, q) /\ q.shield = p.shield
  <2> HIDE DEF p
  <2>1. p.rows \in Int /\ p.illusion \in Int /\ p.scrambled \in Int
    BY <1>2, SideTyped
  <2>2. q \in FakeSafe
    BY <1>2 DEF FakeSafe
  <2>3. /\ SameBoard(p, q) /\ q.eyes = p.eyes /\ q.rows = p.rows
        /\ q.keymap = p.keymap /\ q.scrambled = p.scrambled /\ q.shield = p.shield
    BY <1>2, <2>1 DEF FakeSafe, SameBoard
  <2> HIDE DEF q
  <2>4. QED BY <1>2, <2>1, <2>2, <2>3, CalmWhen DEF SideInv
<1> HIDE DEF q
<1>4. QED BY <1>1, <1>3, SelfStep DEF q

(* The Rogue                                                                *)

LEMMA PickpocketStep ==
  ASSUME DuelInv, NEW s \in Sides, NEW t, Pickpocket(s, t)
  PROVE  Sound
<1>1. SideInv(side[Other(s)])
  BY SidesAre DEF DuelInv
<1>2. Hit(side[Other(s)], side[Other(s)])
  BY <1>1 DEF SideInv, Hit, SameBoard
<1>3. QED BY <1>2, StrikeStep DEF Pickpocket

LEMMA CheatStep ==
  ASSUME DuelInv, NEW s \in Sides, Cheat(s)
  PROVE  Sound
<1> DEFINE q == Paid(s, "cheat")
           r == [q EXCEPT !.cheat = TRUE]
<1>1. "cheat" \in Kit[Class[s]] /\ side[s].energy >= Cost["cheat"] /\ Put(s, r, side[Other(s)])
  BY DEF Cheat, Self, Affords
<1>2. /\ SideInv(q) /\ q \in FakeSafe /\ q.rows \in Int /\ q.illusion \in Int /\ q.scrambled \in Int
      /\ q.shield = side[s].shield
  BY <1>1, PaidHit, SideTyped
<1>3. Calm(q, r) /\ r.shield = q.shield
  <2> HIDE DEF q
  <2>1. r \in FakeSafe
    BY <1>2 DEF FakeSafe
  <2>2. /\ SameBoard(q, r) /\ r.eyes = q.eyes /\ r.rows = q.rows
        /\ r.keymap = q.keymap /\ r.scrambled = q.scrambled /\ r.shield = q.shield
    BY <1>2 DEF FakeSafe, SameBoard
  <2> HIDE DEF r
  <2>3. QED BY <1>2, <2>1, <2>2, CalmWhen DEF SideInv
<1> HIDE DEF r
<1>4. Calm(side[s], r)
  BY <1>1, <1>3, PaidThen
<1>5. QED BY <1>1, <1>2, <1>3, <1>4, SelfStep

LEMMA FeintStep ==
  ASSUME DuelInv, NEW s \in Sides, NEW colors, Feint(s, colors)
  PROVE  Sound
<1> DEFINE q == Paid(s, "feint")
           r == [q EXCEPT !.feint = colors]
<1>1. /\ "feint" \in Kit[Class[s]] /\ side[s].energy >= Cost["feint"] /\ Put(s, r, side[Other(s)])
      /\ colors \in ValidPattern
  BY DEF Feint, Self, Affords
<1>2. /\ SideInv(q) /\ q \in FakeSafe /\ q.rows \in Int /\ q.illusion \in Int /\ q.scrambled \in Int
      /\ q.shield = side[s].shield
  BY <1>1, PaidHit, SideTyped
<1>3. Calm(q, r) /\ r.shield = q.shield
  <2> HIDE DEF q
  <2>1. r \in FakeSafe
    BY <1>1, <1>2 DEF FakeSafe
  <2>2. /\ SameBoard(q, r) /\ r.eyes = q.eyes /\ r.rows = q.rows
        /\ r.keymap = q.keymap /\ r.scrambled = q.scrambled /\ r.shield = q.shield
    BY <1>2 DEF FakeSafe, SameBoard
  <2> HIDE DEF r
  <2>3. QED BY <1>2, <2>1, <2>2, CalmWhen DEF SideInv
<1> HIDE DEF r
<1>4. Calm(side[s], r)
  BY <1>1, <1>3, PaidThen
<1>5. QED BY <1>1, <1>2, <1>3, <1>4, SelfStep

LEMMA UnderTheirNoseStep ==
  ASSUME DuelInv, NEW s \in Sides, NEW colors, UnderTheirNose(s, colors)
  PROVE  Sound
<1> DEFINE p == side[Other(s)]
           hit == [p EXCEPT !.falseNext = colors]
<1>1. SideInv(p) /\ p \in FakeSafe /\ colors \in ValidPattern
  BY SidesAre DEF DuelInv, SideInv, UnderTheirNose
<1> HIDE DEF p
<1>2. hit \in FakeSafe
  BY <1>1 DEF FakeSafe
<1>3. /\ SameBoard(p, hit) /\ hit.eyes = p.eyes /\ hit.shield = p.shield /\ hit.rows = p.rows
      /\ hit.keymap = p.keymap /\ hit.scrambled = p.scrambled
  BY <1>1 DEF FakeSafe, SameBoard
<1>4. Hit(p, hit)
  <2> HIDE DEF hit
  <2>1. QED BY <1>1, <1>2, <1>3 DEF Hit, SideInv, Fits, Out, SameBoard
<1>5. QED BY <1>4, StrikeStep DEF UnderTheirNose, p

\* A scramble that says for how many guesses
LEMMA ScrambleHit ==
  ASSUME NEW p, SideInv(p)
  PROVE  Hit(p, Scramble(p)) /\ Scramble(p).missiles = p.missiles
<1> DEFINE hit == [[p EXCEPT !.keymap = TRUE] EXCEPT !.scrambled = ScrambleGuesses]
<1>1. p \in FakeSafe /\ ScrambleGuesses \in 0..ScrambleGuesses /\ ScrambleGuesses > 0
      /\ Scramble(p) = hit
  BY AmountAssumption DEF SideInv, Scramble
<1>2. hit \in FakeSafe
  BY <1>1 DEF FakeSafe
<1>3. /\ SameBoard(p, hit) /\ hit.eyes = p.eyes /\ hit.shield = p.shield /\ hit.rows = p.rows
      /\ hit.keymap = TRUE /\ hit.scrambled = ScrambleGuesses /\ hit.missiles = p.missiles
  BY <1>1 DEF FakeSafe, SameBoard
<1> HIDE DEF hit
<1>4. QED BY <1>1, <1>2, <1>3 DEF Hit, SideInv, Fits, Out, SameBoard

LEMMA ConfuseStep ==
  ASSUME DuelInv, NEW s \in Sides, Confuse(s)
  PROVE  Sound
<1>1. SideInv(side[Other(s)])
  BY SidesAre DEF DuelInv
<1>2. Hit(side[Other(s)], Scramble(side[Other(s)]))
  BY <1>1, ScrambleHit
<1>3. QED BY <1>2, StrikeStep DEF Confuse

(* The Cleric                                                               *)

LEMMA PurifyStep ==
  ASSUME DuelInv, NEW s \in Sides, Purify(s)
  PROVE  Sound
<1> DEFINE q == Paid(s, "purify")
           r == [q EXCEPT !.stunned = FALSE, !.silenced = FALSE,
                          !.keymap = FALSE, !.scrambled = 0, !.falseNext = NoPattern,
                          !.missiles = 0, !.illusion = 0]
           p == side[Other(s)]
           blind == [p EXCEPT !.eyes = <<>>]
<1>1. "purify" \in Kit[Class[s]] /\ side[s].energy >= Cost["purify"] /\ Put(s, r, blind)
  BY DEF Purify, Affords
<1>2. /\ SideInv(q) /\ q \in FakeSafe /\ q.rows \in Int /\ q.illusion \in Nat /\ q.scrambled \in Nat
      /\ q.shield = side[s].shield
  BY <1>1, PaidHit, SideTyped
<1>3. SideInv(p) /\ p \in FakeSafe /\ p.rows \in Int /\ p.illusion \in Int /\ p.scrambled \in Int
  BY SidesAre, SideTyped DEF DuelInv, SideInv
<1>4. Calm(q, r) /\ r.shield = q.shield
  <2> HIDE DEF q
  <2>1. /\ 0 \in 0..ScrambleGuesses /\ 0 \in 0..MaxMissiles /\ 0 \in 0..IllusionGuesses
    BY AmountAssumption
  <2>2. r \in FakeSafe
    BY <1>2, <2>1, ZenonT(60) DEF FakeSafe
  <2>3. /\ SameBoard(q, r) /\ r.eyes = q.eyes /\ r.rows = q.rows
        /\ r.keymap = FALSE /\ r.scrambled = 0 /\ r.shield = q.shield
    BY <1>2 DEF FakeSafe, SameBoard
  <2> HIDE DEF r
  <2>4. QED BY <1>2, <2>2, <2>3, CalmWhen DEF SideInv
<1>5. Calm(p, blind) /\ blind.shield = p.shield
  <2> HIDE DEF p
  <2>1. blind \in FakeSafe
    <3>1. <<>> \in Seq(((1..MaxRows) \X Positions) \union {Off})
      OBVIOUS
    <3>2. QED BY <1>3, <3>1 DEF FakeSafe
  <2>2. /\ SameBoard(p, blind) /\ blind.eyes = <<>> /\ blind.rows = p.rows
        /\ blind.keymap = p.keymap /\ blind.scrambled = p.scrambled /\ blind.shield = p.shield
    BY <1>3 DEF FakeSafe, SameBoard
  <2> HIDE DEF blind
  <2>3. QED BY <1>3, <2>1, <2>2, CalmWhen DEF SideInv
<1> HIDE DEF r, blind
<1>6. Calm(side[s], r)
  BY <1>1, <1>4, PaidThen
<1>7. QED BY <1>1, <1>2, <1>4, <1>5, <1>6, PutBecomes, CalmStep

LEMMA FortuneStep ==
  ASSUME DuelInv, NEW s \in Sides, Fortune(s)
  PROVE  Sound
<1> DEFINE q == Paid(s, "divineIntervention")
           p == side[Other(s)]
           me == [q EXCEPT !.energy = p.energy]
           them == [p EXCEPT !.energy = q.energy]
<1>1. /\ "divineIntervention" \in Kit[Class[s]] /\ side[s].energy >= Cost["divineIntervention"]
      /\ Put(s, me, them)
  BY DEF Fortune, Affords
<1>2. /\ SideInv(q) /\ q \in FakeSafe /\ q.rows \in Int /\ q.illusion \in Int /\ q.scrambled \in Int
      /\ q.shield = side[s].shield
  BY <1>1, PaidHit, SideTyped
<1>3. SideInv(p) /\ p \in FakeSafe /\ p.rows \in Int /\ p.illusion \in Int /\ p.scrambled \in Int
  BY SidesAre, SideTyped DEF DuelInv, SideInv
<1> HIDE DEF p, q
<1>4. p.energy \in 0..MaxEnergy /\ q.energy \in 0..MaxEnergy
  BY <1>2, <1>3 DEF FakeSafe
<1>5. Calm(q, me) /\ me.shield = q.shield
  <2>1. me \in FakeSafe
    BY <1>2, <1>4 DEF FakeSafe
  <2>2. /\ SameBoard(q, me) /\ me.eyes = q.eyes /\ me.rows = q.rows
        /\ me.keymap = q.keymap /\ me.scrambled = q.scrambled /\ me.shield = q.shield
    BY <1>2 DEF FakeSafe, SameBoard
  <2> HIDE DEF me
  <2>3. QED BY <1>2, <2>1, <2>2, CalmWhen DEF SideInv
<1>6. Calm(p, them) /\ them.shield = p.shield
  <2>1. them \in FakeSafe
    BY <1>3, <1>4 DEF FakeSafe
  <2>2. /\ SameBoard(p, them) /\ them.eyes = p.eyes /\ them.rows = p.rows
        /\ them.keymap = p.keymap /\ them.scrambled = p.scrambled /\ them.shield = p.shield
    BY <1>3 DEF FakeSafe, SameBoard
  <2> HIDE DEF them
  <2>3. QED BY <1>3, <2>1, <2>2, CalmWhen DEF SideInv
<1> HIDE DEF me, them
<1>7. Calm(side[s], me)
  BY <1>1, <1>5, PaidThen DEF q
<1>8. QED BY <1>1, <1>2, <1>5, <1>6, <1>7, PutBecomes, CalmStep DEF p

LEMMA SuddenDeathStep ==
  ASSUME DuelInv, NEW s \in Sides, SuddenDeath(s)
  PROVE  Sound
<1> DEFINE q == Paid(s, "divineIntervention")
           p == side[Other(s)]
<1>1. /\ "divineIntervention" \in Kit[Class[s]] /\ side[s].energy >= Cost["divineIntervention"]
      /\ Becomes(s, q, p)
  <2>1. side = [t \in Sides |-> side[t]] /\ Other(s) \in Sides /\ Other(s) # s
        /\ \A t \in Sides : t = s \/ t = Other(s)
    BY SidesAre DEF DuelInv
  <2>2. side' = [side EXCEPT ![s] = q] /\ deadline' = TRUE /\ over' = over
    BY DEF SuddenDeath
  <2> HIDE DEF q
  <2>3. Becomes(s, q, p)
    BY <2>1, <2>2 DEF Becomes
  <2>4. QED BY <2>3 DEF SuddenDeath, Affords
<1>2. Calm(side[s], q) /\ q.shield = side[s].shield
  BY <1>1, PaidHit
<1>3. Calm(p, p)
  BY SidesAre, CalmItself DEF DuelInv
<1> HIDE DEF p, q
<1>4. QED BY <1>1, <1>2, <1>3, CalmStep DEF p

(* The end of a duel, and a start over                                      *)

LEMMA FreshInv ==
  ASSUME NEW w \in Answers
  PROVE  LET p == Fresh(w)
         IN  SideInv(p) /\ ~Out(p) /\ p.eyes = <<>> /\ ~p.shield
<1> DEFINE p == Fresh(w)
<1>1. /\ p.guesses = <<>> /\ p.rows = MaxGuesses /\ p.greens = {} /\ p.eyes = <<>>
      /\ p.shield = FALSE /\ p.keymap = FALSE /\ p.scrambled = 0
  BY DEF Fresh
<1>2. p \in FakeSafe
  <2>1. /\ MaxGuesses \in 1..MaxRows /\ 0 \in 0..MaxEnergy /\ 0 \in 0..MaxMissiles
        /\ 0 \in 0..IllusionGuesses /\ 0 \in 0..ScrambleGuesses
    BY AmountAssumption
  <2>2. <<>> \in Seq(Boards) /\ <<>> \in Seq(((1..MaxRows) \X Positions) \union {Off})
    OBVIOUS
  <2>3. QED BY <2>1, <2>2 DEF Fresh, FakeSafe
<1> HIDE DEF p
<1>3. Len(p.guesses) = 0 /\ DOMAIN p.guesses = {} /\ MaxGuesses \in Nat /\ MaxGuesses > 0
  BY <1>1, AmountAssumption
<1>4. Fits(p) /\ ~Out(p)
  BY <1>1, <1>3 DEF Fits, Out
<1>5. BoardInv(p)
  BY <1>1, <1>3 DEF BoardInv, Matches, Learned, GreensFound, AllUnsolved
<1>6. SideInv(p)
  BY <1>1, <1>2, <1>4, <1>5 DEF SideInv
<1>7. QED BY <1>1, <1>4, <1>6 DEF p

\* Both sides made anew
LEMMA FreshSides ==
  ASSUME NEW word \in [Sides -> Answers], side' = [t \in Sides |-> Fresh(word[t])],
         deadline' \in BOOLEAN, over' \in {"playing", "solved", "outOfGuesses", "resigned", "timeUp"}
  PROVE  DuelInv'
<1>1. \A t \in Sides : /\ SideInv(side'[t]) /\ ~Out(side'[t]) /\ side'[t].eyes = <<>>
                       /\ ~side'[t].shield
  BY FreshInv
<1>2. side' = [t \in Sides |-> side'[t]]
  OBVIOUS
<1>3. 0 \in Sides
  BY DEF Sides
<1>4. \A t \in Sides : Watches(side'[t], side'[Other(t)])
  BY <1>1 DEF Watches
<1>5. QED BY <1>1, <1>2, <1>3, <1>4 DEF DuelInv

LEMMA EndStep ==
  ASSUME NEW reason \in {"solved", "outOfGuesses", "resigned", "timeUp"}, End(reason)
  PROVE  Sound
<1> DEFINE w == CHOOSE v \in Answers : TRUE
<1>1. w \in Answers
  BY WordsAssumption
<1>2. side' = [t \in Sides |-> Fresh(w)] /\ deadline' = FALSE /\ over' = reason
  BY DEF End
<1> HIDE DEF w
<1>3. [t \in Sides |-> w] \in [Sides -> Answers]
      /\ side' = [t \in Sides |-> Fresh([u \in Sides |-> w][t])]
  BY <1>1, <1>2
<1>4. DuelInv'
  BY <1>2, <1>3, FreshSides
<1>5. QED BY <1>2, <1>4 DEF Sound, FoundKept

LEMMA CleanSlateStep ==
  ASSUME DuelInv, NEW s \in Sides, CleanSlate(s)
  PROVE  Sound
<1> DEFINE word == [t \in Sides |-> side[t].word]
<1>1. word \in [Sides -> Answers]
  BY SideTyped DEF DuelInv, SideInv
<1>2. side' = [t \in Sides |-> Fresh(word[t])] /\ deadline' = FALSE /\ over' = over
  BY DEF CleanSlate
<1>3. DuelInv'
  BY <1>1, <1>2, FreshSides DEF DuelInv
<1>4. StartOver
  BY <1>2 DEF StartOver
<1>5. QED BY <1>3, <1>4 DEF Sound, FoundKept, GivenAnew

(* Guesses in an illusion                                                   *)

LEMMA IllusionGuessStep ==
  ASSUME DuelInv, NEW s \in Sides, NEW right, IllusionGuess(s, right)
  PROVE  Sound
<1> DEFINE p == side[s]
           left == IF right THEN 0 ELSE p.illusion - 1
           freed == [p EXCEPT !.illusion = left]
           rest == IF freed.energy < IllusionEnergy THEN 0 ELSE freed.energy - IllusionEnergy
           drained == [freed EXCEPT !.energy = rest]
<1>1. /\ SideInv(p) /\ p \in FakeSafe /\ p.illusion > 0 /\ p.rows \in Int /\ p.scrambled \in Int
      /\ p.illusion \in 0..IllusionGuesses /\ p.energy \in 0..MaxEnergy
  <2>1. SideInv(p) /\ p \in FakeSafe /\ p.illusion > 0
    BY DEF DuelInv, SideInv, IllusionGuess
  <2> HIDE DEF p
  <2>2. QED BY <2>1, SideTyped DEF FakeSafe
<1>2. \E q \in {freed, drained} : Put(s, q, side[Other(s)])
  BY DEF IllusionGuess, LoseEnergy
<1> HIDE DEF p
<1>3. left \in 0..IllusionGuesses /\ left < p.illusion
  BY <1>1, AmountAssumption
<1> HIDE DEF left
<1>4. freed \in FakeSafe /\ freed.energy = p.energy
  BY <1>1, <1>3 DEF FakeSafe
<1>5. /\ SameBoard(p, freed) /\ freed.eyes = p.eyes /\ freed.rows = p.rows
      /\ freed.keymap = p.keymap /\ freed.scrambled = p.scrambled /\ freed.shield = p.shield
      /\ freed.illusion = left
      /\ freed.stunned = p.stunned /\ freed.silenced = p.silenced /\ freed.falseNext = p.falseNext
  BY <1>1 DEF FakeSafe, SameBoard
<1> HIDE DEF freed
<1>6. rest \in 0..MaxEnergy
  BY <1>1, <1>4, AmountAssumption
<1> HIDE DEF rest
<1>7. drained \in FakeSafe
  BY <1>4, <1>6 DEF FakeSafe
<1>8. /\ SameBoard(freed, drained) /\ drained.eyes = freed.eyes /\ drained.rows = freed.rows
      /\ drained.keymap = freed.keymap /\ drained.scrambled = freed.scrambled
      /\ drained.shield = freed.shield /\ drained.illusion = freed.illusion
      /\ drained.stunned = freed.stunned /\ drained.silenced = freed.silenced
      /\ drained.falseNext = freed.falseNext
  BY <1>4 DEF FakeSafe, SameBoard
<1> HIDE DEF drained
<1>9. SameBoard(p, drained)
  BY <1>5, <1>8 DEF SameBoard
<1>10. \A q \in {freed, drained} : Calm(p, q) /\ q.shield = p.shield
  BY <1>1, <1>4, <1>5, <1>7, <1>8, <1>9, CalmWhen DEF SideInv
<1>11. QED BY <1>2, <1>10, SelfStep DEF p

(* Eyes that move                                                           *)

\* The same side, looking elsewhere
Turned(p, q) ==
    /\ SideInv(q) /\ SameBoard(p, q) /\ Visible(q) = Visible(p)
    /\ q.shield = p.shield /\ q.rows = p.rows /\ q.missiles = p.missiles /\ q.reshape = p.reshape
    /\ q.stunned = p.stunned /\ q.silenced = p.silenced /\ q.illusion = p.illusion
    /\ q.scrambled = p.scrambled /\ q.falseNext = p.falseNext
    /\ Out(q) <=> Out(p)

LEMMA TurnedEyes ==
  ASSUME NEW p, SideInv(p), NEW n \in Nat, NEW e \in [1..n -> Spots], NEW target,
         \A j \in 1..n : e[j] \in Visible(target) \union {Off}
  PROVE  Turned(p, [p EXCEPT !.eyes = e]) /\ Watches([p EXCEPT !.eyes = e], target)
<1> DEFINE q == [p EXCEPT !.eyes = e]
<1>1. p \in FakeSafe
  BY DEF SideInv
<1>2. e \in Seq(((1..MaxRows) \X Positions) \union {Off}) /\ DOMAIN e = 1..n
  BY DEF Spots
<1>3. q \in FakeSafe /\ q.eyes = e
  BY <1>1, <1>2 DEF FakeSafe
<1>4. /\ SameBoard(p, q)
      /\ q.shield = p.shield /\ q.rows = p.rows /\ q.missiles = p.missiles /\ q.reshape = p.reshape
      /\ q.stunned = p.stunned /\ q.silenced = p.silenced /\ q.illusion = p.illusion
      /\ q.scrambled = p.scrambled /\ q.falseNext = p.falseNext /\ q.keymap = p.keymap
  BY <1>1 DEF FakeSafe, SameBoard
<1> HIDE DEF q
<1>5. Visible(q) = Visible(p) /\ (Out(q) <=> Out(p)) /\ Fits(q)
  BY <1>4 DEF SameBoard, Visible, Tiles, Out, Fits, SideInv
<1>6. BoardInv(q)
  BY <1>4 DEF SideInv, BoardInv, SameBoard, Matches, Learned, GreensFound, AllUnsolved
<1>7. SideInv(q)
  BY <1>3, <1>4, <1>5, <1>6 DEF SideInv
<1>8. Watches(q, target)
  BY <1>2, <1>3 DEF Watches
<1>9. QED BY <1>4, <1>5, <1>7, <1>8 DEF Turned, q

\* reaimEyes: they all watch a letter that is there, or none
LEMMA ReaimLooks ==
  ASSUME NEW p \in FakeSafe, NEW q \in FakeSafe, Fits(q), NEW e \in Reaim(p.eyes, q)
  PROVE  \E n \in Nat : e \in [1..n -> Spots] /\ \A j \in 1..n : e[j] \in Visible(q) \union {Off}
<1> DEFINE n == Len(p.eyes)
           those == {i \in DOMAIN p.eyes : p.eyes[i] # Off /\ p.eyes[i] \notin Visible(q)}
<1>1. n \in Nat /\ p.eyes \in [1..n -> Spots] /\ DOMAIN p.eyes = 1..n
  BY EyesTyped
<1>2. e \in AimAll(p.eyes, those, q)
  BY DEF Reaim
<1>3. \A j \in 1..n : j \notin those => p.eyes[j] \in Visible(q) \union {Off}
  BY <1>1
<1> HIDE DEF those
<1>4. /\ e \in [1..n -> Spots]
      /\ \A j \in 1..n : IF j \in those THEN e[j] \in Visible(q) \union {Off} ELSE e[j] = p.eyes[j]
  BY <1>1, <1>2, AimAllLooks
<1>5. QED BY <1>1, <1>3, <1>4

\* A step after which both look where there is something to see
LEMMA TurnedStep ==
  ASSUME DuelInv, NEW s \in Sides, NEW me, NEW them, Becomes(s, me, them),
         NEW p, NEW q, Turned(p, me), Turned(q, them), Watches(me, q), Watches(them, p),
         p.shield => Class[s] = "knight", q.shield => Class[Other(s)] = "knight",
         ~Out(p) \/ ~Out(q),
         Keeps(side[s], p) \/ GivenAnew(s), Keeps(side[Other(s)], q) \/ GivenAnew(Other(s))
  PROVE  Sound
<1>1. SideInv(me) /\ SideInv(them) /\ Visible(me) = Visible(p) /\ Visible(them) = Visible(q)
  BY DEF Turned
<1>2. Watches(me, them) /\ Watches(them, me)
  BY <1>1 DEF Watches
<1>3. (Keeps(side[s], me) \/ GivenAnew(s)) /\ (Keeps(side[Other(s)], them) \/ GivenAnew(Other(s)))
  BY DEF Turned, SameBoard, Keeps
<1>4. /\ me.shield => Class[s] = "knight"
      /\ them.shield => Class[Other(s)] = "knight"
      /\ ~Out(me) \/ ~Out(them)
  BY DEF Turned
<1>5. QED BY <1>1, <1>2, <1>3, <1>4, BecomesStep

LEMMA TurnedItself ==
  ASSUME NEW p, SideInv(p)
  PROVE  Turned(p, p) /\ Keeps(p, p)
<1>1. Calm(p, p)
  BY CalmItself
<1>2. QED BY <1>1 DEF Turned, SameBoard, Keeps, Calm

\* What the invariant says of s and its opponent
LEMMA TwoSides ==
  ASSUME DuelInv, NEW s \in Sides
  PROVE  /\ SideInv(side[s]) /\ side[s] \in FakeSafe /\ Fits(side[s])
         /\ SideInv(side[Other(s)]) /\ side[Other(s)] \in FakeSafe /\ Fits(side[Other(s)])
         /\ Watches(side[s], side[Other(s)]) /\ Watches(side[Other(s)], side[s])
         /\ side[s].shield => Class[s] = "knight"
         /\ side[Other(s)].shield => Class[Other(s)] = "knight"
         /\ ~Out(side[s]) \/ ~Out(side[Other(s)])
  BY SidesAre DEF DuelInv, SideInv

LEMMA SlashStep ==
  ASSUME DuelInv, NEW s \in Sides, NEW t \in (1..MaxRows) \X Positions, Slash(s, t)
  PROVE  Sound
<1> DEFINE q == Paid(s, "slash")
           p == side[Other(s)]
           cut == [p EXCEPT !.destroyed = p.destroyed \union {t}]
           hit == Struck(p, cut)
<1>1. /\ "slash" \in Kit[Class[s]] /\ side[s].energy >= Cost["slash"]
      /\ \E e \in Reaim(q.eyes, hit) : Put(s, [q EXCEPT !.eyes = e], hit)
  BY DEF Slash, Affords
<1>2. PICK e \in Reaim(q.eyes, hit) : Put(s, [q EXCEPT !.eyes = e], hit)
  BY <1>1
<1>3. /\ SideInv(q) /\ q \in FakeSafe /\ Calm(side[s], q) /\ q.shield = side[s].shield
  BY <1>1, PaidHit
<1>4. /\ SideInv(p) /\ p \in FakeSafe /\ Fits(p) /\ Watches(p, side[s])
      /\ p.shield => Class[Other(s)] = "knight"
      /\ side[s].shield => Class[s] = "knight"
      /\ SideInv(side[s]) /\ (~Out(side[s]) \/ ~Out(p))
  BY TwoSides
<1> HIDE DEF p, q
<1>5. /\ SideInv(hit) /\ hit.eyes = p.eyes /\ Keeps(p, hit)
      /\ (hit.shield => p.shield) /\ (Out(hit) => Out(p))
  <2>1. CASE p.shield
    <3>1. hit = Struck(p, p)
      BY <2>1 DEF Struck
    <3>2. Hit(p, p)
      BY <1>4 DEF SideInv, Hit, SameBoard
    <3>3. Calm(p, hit) /\ (hit.shield => p.shield)
      BY <1>4, <3>1, <3>2, StruckCalm
    <3>4. hit.eyes = p.eyes
      BY <1>4, <2>1 DEF Struck, FakeSafe
    <3> HIDE DEF hit
    <3>5. SideInv(hit) /\ Keeps(p, hit)
      BY <1>4, <3>3, CalmKeeps
    <3>6. QED BY <3>3, <3>4, <3>5 DEF Calm
  <2>2. CASE ~p.shield
    <3>1. hit = cut
      BY <2>2 DEF Struck
    <3> HIDE DEF hit
    <3>2. cut \in FakeSafe
      BY <1>4 DEF FakeSafe
    <3>3. /\ cut.word = p.word /\ cut.guesses = p.guesses /\ cut.greens = p.greens
          /\ cut.found = p.found /\ cut.eyes = p.eyes /\ cut.shield = p.shield /\ cut.rows = p.rows
          /\ cut.keymap = p.keymap /\ cut.scrambled = p.scrambled
      BY <1>4 DEF FakeSafe
    <3> HIDE DEF cut
    <3>4. BoardInv(cut)
      BY <1>4, <3>3 DEF SideInv, BoardInv, Matches, Learned, GreensFound, AllUnsolved
    <3>5. SideInv(cut)
      BY <1>4, <3>2, <3>3, <3>4 DEF SideInv, Fits
    <3>6. QED BY <2>2, <3>1, <3>3, <3>5 DEF Keeps, Out
  <2>3. QED BY <2>1, <2>2
<1> HIDE DEF hit
<1>6. Turned(q, [q EXCEPT !.eyes = e]) /\ Watches([q EXCEPT !.eyes = e], hit)
  <2>1. hit \in FakeSafe /\ Fits(hit)
    BY <1>5 DEF SideInv
  <2>2. PICK n \in Nat : e \in [1..n -> Spots] /\ \A j \in 1..n : e[j] \in Visible(hit) \union {Off}
    BY <1>2, <1>3, <2>1, ReaimLooks
  <2>3. QED BY <1>3, <2>2, TurnedEyes
<1>7. Turned(hit, hit)
  BY <1>5, TurnedItself
<1>8. Visible(q) = Visible(side[s]) /\ Keeps(side[s], q) /\ (Out(q) => Out(side[s]))
  BY <1>3, <1>4, CalmKeeps DEF Calm
<1>9. Watches(hit, q)
  BY <1>4, <1>5, <1>8 DEF Watches
<1>10. Becomes(s, [q EXCEPT !.eyes = e], hit)
  BY <1>2, PutBecomes
<1>11. QED BY <1>3, <1>4, <1>5, <1>6, <1>7, <1>8, <1>9, <1>10, TurnedStep DEF p

LEMMA SeeingEyeStep ==
  ASSUME DuelInv, NEW s \in Sides, SeeingEye(s)
  PROVE  Sound
<1> DEFINE q == Paid(s, "seeingEye")
           p == side[Other(s)]
           n == Len(q.eyes)
           more == Append(q.eyes, Off)
<1>1. /\ "seeingEye" \in Kit[Class[s]] /\ side[s].energy >= Cost["seeingEye"]
      /\ \E e \in Aim(more, n + 1, p) :
            Put(s, IF p.shield THEN q ELSE [q EXCEPT !.eyes = e], Struck(p, p))
  BY DEF SeeingEye, Affords
<1>2. PICK e \in Aim(more, n + 1, p) :
            Put(s, IF p.shield THEN q ELSE [q EXCEPT !.eyes = e], Struck(p, p))
  BY <1>1
<1>3. /\ SideInv(q) /\ q \in FakeSafe /\ Calm(side[s], q) /\ q.shield = side[s].shield
  BY <1>1, PaidHit
<1>4. /\ SideInv(p) /\ p \in FakeSafe /\ Fits(p) /\ Watches(p, side[s]) /\ Watches(side[s], p)
      /\ p.shield => Class[Other(s)] = "knight"
      /\ side[s].shield => Class[s] = "knight"
      /\ SideInv(side[s]) /\ (~Out(side[s]) \/ ~Out(p))
  BY TwoSides
<1>5. /\ Visible(q) = Visible(side[s]) /\ Keeps(side[s], q)
      /\ (Out(q) => Out(side[s])) /\ Watches(q, p)
  BY <1>3, <1>4, CalmKeeps DEF Calm, Watches
<1> DEFINE me == IF p.shield THEN q ELSE [q EXCEPT !.eyes = e]
           them == Struck(p, p)
<1>6. Becomes(s, me, them)
  <2> HIDE DEF p, q
  <2>1. Put(s, me, them)
    BY <1>2
  <2> HIDE DEF me, them
  <2>2. QED BY <2>1, PutBecomes
<1> HIDE DEF p, q
<1>7. Calm(p, them) /\ (them.shield => p.shield) /\ them.eyes = p.eyes
  <2>1. Hit(p, p)
    BY <1>4 DEF SideInv, Hit, SameBoard
  <2>2. them.eyes = p.eyes
    BY <1>4 DEF Struck, FakeSafe
  <2>3. QED BY <1>4, <2>1, <2>2, StruckCalm
<1> HIDE DEF them
<1>8. SideInv(them) /\ Visible(them) = Visible(p) /\ Keeps(p, them)
      /\ (Out(them) => Out(p))
  BY <1>4, <1>7, CalmKeeps DEF Calm
<1>9. Turned(q, me) /\ Watches(me, p)
  <2>1. CASE p.shield
    BY <1>3, <1>5, <2>1, TurnedItself
  <2>2. CASE ~p.shield
    <3>1. /\ n \in Nat /\ q.eyes \in [1..n -> Spots] /\ DOMAIN q.eyes = 1..n
      BY <1>3, EyesTyped
    <3>2. /\ n + 1 \in Nat /\ n + 1 \in 1..(n + 1)
          /\ more \in [1..(n + 1) -> Spots]
          /\ \A j \in 1..(n + 1) : j # n + 1 => more[j] = q.eyes[j] /\ j \in 1..n
      <4>1. q.eyes \in Seq(Spots) /\ Off \in Spots
        BY <1>3 DEF FakeSafe, Spots
      <4> HIDE DEF n
      <4>2. more \in Seq(Spots) /\ Len(more) = n + 1
        BY <4>1 DEF n
      <4>3. \A j \in 1..(n + 1) : j # n + 1 => more[j] = q.eyes[j] /\ j \in 1..n
        BY <3>1, <4>1 DEF n
      <4> HIDE DEF more
      <4>4. QED BY <3>1, <4>2, <4>3
    <3> HIDE DEF more
    <3>3. /\ e \in [1..(n + 1) -> Spots] /\ e[n + 1] \in Visible(p) \union {Off}
          /\ \A j \in 1..(n + 1) : j # n + 1 => e[j] = more[j]
      BY <1>2, <1>4, <3>2, AimLooks
    <3>4. \A j \in 1..n : q.eyes[j] \in Visible(p) \union {Off}
      BY <1>5, <3>1 DEF Watches
    <3>5. \A j \in 1..(n + 1) : e[j] \in Visible(p) \union {Off}
      BY <3>2, <3>3, <3>4
    <3> HIDE DEF n
    <3>6. Turned(q, [q EXCEPT !.eyes = e]) /\ Watches([q EXCEPT !.eyes = e], p)
      BY <1>3, <3>2, <3>3, <3>5, TurnedEyes
    <3>7. QED BY <2>2, <3>6
  <2>3. QED BY <2>1, <2>2
<1> HIDE DEF me
<1>10. Turned(them, them)
  BY <1>8, TurnedItself
<1>11. Watches(me, them) /\ Watches(them, q)
  BY <1>4, <1>5, <1>7, <1>8, <1>9 DEF Watches
<1>12. QED BY <1>3, <1>4, <1>5, <1>6, <1>7, <1>8, <1>9, <1>10, <1>11, TurnedStep DEF p

\* A guess taken back leaves a sound board
LEMMA TakenBackInv ==
  ASSUME NEW p, SideInv(p), NEW row \in DOMAIN p.guesses
  PROVE  LET q == TakenBack(p, row)
         IN  /\ SideInv(q) /\ ~Out(q) /\ Keeps(p, q) /\ q.eyes = p.eyes /\ q.shield = p.shield
<1> DEFINE q == TakenBack(p, row)
           n == Len(p.guesses)
<1>1. p \in FakeSafe /\ Fits(p) /\ BoardInv(p) /\ (p.keymap <=> p.scrambled > 0)
  BY DEF SideInv
<1>2. /\ q \in FakeSafe /\ Fits(q) /\ ~Out(q) /\ Len(q.guesses) = n - 1
      /\ MovedUp(p.guesses, q.guesses, row)
      /\ q = [p EXCEPT !.guesses = q.guesses, !.destroyed = q.destroyed]
  BY <1>1, TakenBackBoard
<1> HIDE DEF q
<1>3. n \in Nat /\ row \in 1..n /\ DOMAIN p.guesses = 1..n /\ DOMAIN q.guesses = 1..(n - 1)
  BY <1>1, <1>2, SideTyped
<1>4. /\ q.word = p.word /\ q.greens = p.greens /\ q.found = p.found /\ q.eyes = p.eyes
      /\ q.keymap = p.keymap /\ q.scrambled = p.scrambled /\ q.shield = p.shield
  BY <1>1, <1>2 DEF FakeSafe
<1>5. \A r \in DOMAIN q.guesses : \E k \in DOMAIN p.guesses : q.guesses[r] = p.guesses[k]
  <2> SUFFICES ASSUME NEW r \in DOMAIN q.guesses
               PROVE  \E k \in DOMAIN p.guesses : q.guesses[r] = p.guesses[k]
    OBVIOUS
  <2> HIDE DEF n
  <2>1. q.guesses[r] = p.guesses[IF r < row THEN r ELSE r + 1]
    BY <1>2 DEF MovedUp
  <2>2. (IF r < row THEN r ELSE r + 1) \in 1..n
    BY <1>3
  <2>3. QED BY <1>3, <2>1, <2>2
<1>6. BoardInv(q)
  BY <1>1, <1>4, <1>5 DEF BoardInv, Matches, Learned, GreensFound, AllUnsolved
<1>7. QED BY <1>1, <1>2, <1>4, <1>6 DEF SideInv, Keeps, q

LEMMA MendStep ==
  ASSUME DuelInv, NEW s \in Sides, NEW row, Mend(s, row)
  PROVE  Sound
<1> DEFINE q == Paid(s, "mend")
           me == TakenBack(q, row)
           p == side[Other(s)]
<1>1. /\ "mend" \in Kit[Class[s]] /\ side[s].energy >= Cost["mend"]
      /\ row \in DOMAIN side[s].guesses
      /\ \E e \in MendEyes(p.eyes, row, me) : Put(s, me, [p EXCEPT !.eyes = e])
  BY DEF Mend, Affords
<1>2. PICK e \in MendEyes(p.eyes, row, me) : Put(s, me, [p EXCEPT !.eyes = e])
  BY <1>1
<1>3. /\ SideInv(q) /\ q \in FakeSafe /\ Fits(q) /\ Calm(side[s], q) /\ q.shield = side[s].shield
  BY <1>1, PaidHit DEF SideInv
<1>4. /\ SideInv(p) /\ p \in FakeSafe /\ Fits(p) /\ Watches(p, side[s]) /\ Watches(side[s], p)
      /\ p.shield => Class[Other(s)] = "knight"
      /\ SideInv(side[s])
  BY TwoSides
<1>5. ~side[s].shield
  <2>1. side[s].shield => Class[s] = "knight"
    BY TwoSides
  <2>2. QED BY <1>1, <2>1 DEF Kit
<1> HIDE DEF p, q
<1>6. Visible(q) = Visible(side[s]) /\ Keeps(side[s], q) /\ SameBoard(side[s], q) /\ q.eyes \in {side[s].eyes, <<>>}
  BY <1>3, <1>4, CalmKeeps DEF Calm
<1>7. row \in DOMAIN q.guesses
  BY <1>1, <1>6 DEF SameBoard
<1>8. /\ SideInv(me) /\ ~Out(me) /\ Keeps(q, me) /\ me.eyes = q.eyes /\ me.shield = q.shield
  BY <1>3, <1>7, TakenBackInv
<1>9. Turned(p, [p EXCEPT !.eyes = e]) /\ Watches([p EXCEPT !.eyes = e], me)
  <2> DEFINE n == Len(p.eyes)
  <2>1. n \in Nat /\ p.eyes \in [1..n -> Spots] /\ DOMAIN p.eyes = 1..n
    BY <1>4, EyesTyped
  <2>2. \A j \in 1..n : p.eyes[j] \in Visible(q) \union {Off}
    BY <1>4, <1>6, <2>1 DEF Watches
  <2>3. e \in [1..n -> Spots] /\ \A j \in 1..n : e[j] \in Visible(me) \union {Off}
    BY <1>2, <1>3, <1>7, <2>1, <2>2, MendEyesLook
  <2> HIDE DEF n, me
  <2>4. QED BY <1>4, <2>1, <2>3, TurnedEyes
<1> HIDE DEF me
<1>10. Turned(me, me) /\ Keeps(side[s], me) /\ Watches(me, p)
  BY <1>4, <1>5, <1>6, <1>8, TurnedItself DEF Keeps, Watches
<1>11. Keeps(p, p)
  BY <1>4, TurnedItself
<1>12. Becomes(s, me, [p EXCEPT !.eyes = e])
  BY <1>2, PutBecomes
<1>13. QED BY <1>3, <1>4, <1>5, <1>8, <1>9, <1>10, <1>11, <1>12, TurnedStep DEF p

-----------------------------------------------------------------------------
(* Colors.                                                                  *)

LEMMA ColorsPattern == \A guess, word : Colors(guess, word) \in Patterns
  BY DEF Colors, Patterns

\* A letter is green exactly where the word has it
LEMMA ColorsGreen ==
  ASSUME NEW guess, NEW word, NEW i \in Positions
  PROVE  Colors(guess, word)[i] = "green" <=> guess[i] = word[i]
  BY DEF Colors

\* No other guess looks like the word
LEMMA OnlyTheWordSolves ==
  ASSUME NEW guess \in Strings, NEW word \in Strings, Solves(Colors(guess, word))
  PROVE  guess = word
<1>1. \A i \in Positions : guess[i] = word[i]
  BY ColorsGreen DEF Solves
<1>2. QED BY <1>1 DEF Strings

LEMMA AnswerStrings == Answers \subseteq Strings
  BY WordsAssumption

LEMMA RowBoards ==
  ASSUME NEW guess \in Strings, NEW colors \in Patterns
  PROVE  Row(guess, colors) \in Boards
  BY DEF Row, Boards

\* The board under another word
LEMMA RescoreInv ==
  ASSUME NEW p, SideInv(p), NEW word \in Answers, NoWizard => word \notin Guesses(p)
  PROVE  LET q == Rescore(p, word)
         IN  /\ SideInv(q) /\ (Out(q) <=> Out(p)) /\ q.word = word
             /\ q.eyes = p.eyes /\ q.shield = p.shield
<1> DEFINE q == Rescore(p, word)
           n == Len(p.guesses)
           guesses == [r \in DOMAIN p.guesses |->
                         Row(p.guesses[r].word, Colors(p.guesses[r].word, word))]
           rows == {guesses[r] : r \in DOMAIN guesses}
           greens == UNION {Greens(row) : row \in rows}
           found == UNION {{row.word[i] : i \in Greens(row)} \union Yellows(row) : row \in rows}
           scored == [[p EXCEPT !.word = word] EXCEPT !.guesses = guesses]
           known == [[scored EXCEPT !.greens = greens] EXCEPT !.found = found]
<1>1. p \in FakeSafe /\ Fits(p) /\ (p.keymap <=> p.scrambled > 0)
      /\ n \in Nat /\ DOMAIN p.guesses = 1..n /\ p.guesses \in [1..n -> Boards]
      /\ p.rows \in Int /\ p.illusion \in Int /\ p.scrambled \in Int
  BY SideTyped DEF SideInv
<1>2. scored.guesses = guesses
  BY <1>1 DEF FakeSafe
<1>3. q = known
  BY <1>2 DEF Rescore, Relearn
<1>4. ASSUME NEW r \in 1..n
      PROVE  \E guess \in Strings :
                 /\ p.guesses[r].word = guess
                 /\ guesses[r] \in Boards /\ guesses[r].word = guess
                 /\ guesses[r].colors = Colors(guess, word) /\ guesses[r].seen = Colors(guess, word)
                 /\ guesses[r].shown = Colors(guess, word)
  <2>1. PICK guess \in Strings : p.guesses[r].word = guess
    BY <1>1 DEF Boards
  <2>2. guesses[r] = Row(guess, Colors(guess, word))
    BY <1>1, <2>1
  <2>3. guesses[r] \in Boards
    BY <2>2, ColorsPattern, RowBoards
  <2> HIDE DEF guesses
  <2>4. QED BY <2>1, <2>2, <2>3 DEF Row
<1>5. guesses \in [1..n -> Boards] /\ DOMAIN guesses = 1..n
  BY <1>1, <1>4
<1> HIDE DEF guesses
<1>6. guesses \in Seq(Boards) /\ Len(guesses) = n
  <2> HIDE DEF n
  <2>1. QED BY <1>1, <1>5
<1>7. \A row \in rows : row \in Boards
  BY <1>5
<1>8. greens \subseteq Positions /\ found \subseteq Letters
  <2> SUFFICES ASSUME NEW row \in rows
               PROVE  Greens(row) \subseteq Positions
                      /\ {row.word[i] : i \in Greens(row)} \union Yellows(row) \subseteq Letters
    OBVIOUS
  <2>1. row.word \in [Positions -> Letters]
    BY <1>7 DEF Boards, Strings
  <2>2. QED BY <2>1 DEF Greens, Yellows
<1>9. \A r \in 1..n : /\ Greens(guesses[r]) \subseteq greens
                      /\ {guesses[r].word[i] : i \in Greens(guesses[r])} \union Yellows(guesses[r]) \subseteq found
  BY <1>5
<1>10. \A i \in greens : word[i] \in found
  <2> SUFFICES ASSUME NEW r \in 1..n, NEW i \in Greens(guesses[r])
               PROVE  word[i] \in found
    BY <1>5
  <2>1. guesses[r].word[i] \in found
    BY <1>9
  <2>2. PICK guess \in Strings : guesses[r].word = guess /\ guesses[r].colors = Colors(guess, word)
    BY <1>4
  <2>3. i \in Positions /\ Colors(guess, word)[i] = "green"
    BY <2>2 DEF Greens
  <2>4. guess[i] = word[i]
    BY <2>3, ColorsGreen
  <2>5. QED BY <2>1, <2>2, <2>4
<1>11. greens \in SUBSET Positions /\ found \in SUBSET Letters
  BY <1>8
<1> HIDE DEF rows, greens, found
<1>12. scored \in FakeSafe
  BY <1>1, <1>6 DEF FakeSafe
<1>13. q \in FakeSafe
  <2> HIDE DEF scored
  <2>1. QED BY <1>3, <1>11, <1>12, ZenonT(60) DEF FakeSafe
<1>14. /\ scored.word = word /\ scored.eyes = p.eyes /\ scored.shield = p.shield /\ scored.rows = p.rows
       /\ scored.destroyed = p.destroyed
       /\ scored.stunned = p.stunned /\ scored.silenced = p.silenced /\ scored.illusion = p.illusion
       /\ scored.scrambled = p.scrambled /\ scored.falseNext = p.falseNext /\ scored.keymap = p.keymap
  BY <1>1 DEF FakeSafe
<1> HIDE DEF scored
<1>15. /\ q.word = scored.word /\ q.guesses = scored.guesses /\ q.greens = greens /\ q.found = found
       /\ q.eyes = scored.eyes /\ q.shield = scored.shield /\ q.rows = scored.rows
       /\ q.destroyed = scored.destroyed
       /\ q.stunned = scored.stunned /\ q.silenced = scored.silenced /\ q.illusion = scored.illusion
       /\ q.scrambled = scored.scrambled /\ q.falseNext = scored.falseNext /\ q.keymap = scored.keymap
  BY <1>3, <1>12 DEF FakeSafe
<1> HIDE DEF q
<1>16. Matches(q) /\ Learned(q) /\ GreensFound(q)
  <2>1. \A r \in 1..n : guesses[r].colors = Colors(guesses[r].word, word)
    BY <1>4
  <2>2. q.word = word /\ q.guesses = guesses /\ q.greens = greens /\ q.found = found
    BY <1>2, <1>14, <1>15
  <2>3. QED BY <1>5, <1>9, <1>10, <2>1, <2>2 DEF Matches, Learned, GreensFound
<1>17. NoWizard => AllUnsolved(q)
  <2> SUFFICES ASSUME NoWizard, NEW r \in 1..n
               PROVE  Unsolved(guesses[r])
    BY <1>2, <1>5, <1>15 DEF AllUnsolved
  <2>1. PICK guess \in Strings :
            /\ p.guesses[r].word = guess
            /\ guesses[r].colors = Colors(guess, word) /\ guesses[r].seen = Colors(guess, word)
            /\ guesses[r].shown = Colors(guess, word)
    BY <1>4
  <2>2. guess # word /\ word \in Strings
    BY <1>1, <2>1, AnswerStrings DEF Guesses
  <2>3. ~Solves(Colors(guess, word))
    BY <2>2, OnlyTheWordSolves
  <2>4. QED BY <2>1, <2>3 DEF Unsolved
<1>18. (Out(q) <=> Out(p)) /\ Fits(q)
  BY <1>1, <1>2, <1>6, <1>14, <1>15 DEF Out, Fits
<1>19. SideInv(q)
  BY <1>1, <1>13, <1>14, <1>15, <1>16, <1>17, <1>18 DEF SideInv, BoardInv
<1>20. QED BY <1>14, <1>15, <1>18, <1>19 DEF q

(* Words given anew                                                         *)

\* A hostile that changes the board, stopped by a shield or not
LEMMA StruckInv ==
  ASSUME NEW p, SideInv(p), NEW h, SideInv(h), h.eyes = p.eyes, h.shield = p.shield, Out(h) => Out(p)
  PROVE  LET q == Struck(p, h)
         IN  /\ SideInv(q) /\ q.eyes = p.eyes /\ (q.shield => p.shield)
             /\ (Out(q) => Out(p)) /\ (p.shield => Keeps(p, q))
<1> DEFINE q == Struck(p, h)
<1>1. CASE p.shield
  <2>1. q = Struck(p, p)
    BY <1>1 DEF Struck
  <2>2. Hit(p, p)
    BY DEF SideInv, Hit, SameBoard
  <2>3. Calm(p, q) /\ (q.shield => p.shield)
    BY <2>1, <2>2, StruckCalm
  <2>4. q.eyes = p.eyes
    BY <1>1 DEF Struck, SideInv, FakeSafe
  <2> HIDE DEF q
  <2>5. SideInv(q) /\ Keeps(p, q)
    BY <2>3, CalmKeeps
  <2>6. QED BY <2>3, <2>4, <2>5 DEF Calm, q
<1>2. CASE ~p.shield
  BY <1>2 DEF Struck
<1>3. QED BY <1>1, <1>2

LEMMA ReshapeRealityStep ==
  ASSUME DuelInv, NEW s \in Sides, NEW word, ReshapeReality(s, word)
  PROVE  Sound
<1> DEFINE q == Paid(s, "reshapeReality")
           me == [q EXCEPT !.reshape = {}]
           p == side[Other(s)]
           hit == Struck(p, Rescore(p, word))
<1>1. /\ "reshapeReality" \in Kit[Class[s]] /\ side[s].energy >= Cost["reshapeReality"]
      /\ word \in side[s].reshape
      /\ \E e \in Reaim(me.eyes, hit) : Put(s, [me EXCEPT !.eyes = e], hit)
  BY DEF ReshapeReality
<1>2. PICK e \in Reaim(me.eyes, hit) : Put(s, [me EXCEPT !.eyes = e], hit)
  BY <1>1
<1>3. /\ SideInv(q) /\ q \in FakeSafe /\ Calm(side[s], q) /\ q.shield = side[s].shield
      /\ q.rows \in Int /\ q.illusion \in Int /\ q.scrambled \in Int
  BY <1>1, PaidHit, SideTyped
<1>4. /\ SideInv(p) /\ p \in FakeSafe /\ Fits(p) /\ Watches(p, side[s])
      /\ p.shield => Class[Other(s)] = "knight"
      /\ side[s].shield => Class[s] = "knight"
      /\ SideInv(side[s]) /\ side[s] \in FakeSafe /\ (~Out(side[s]) \/ ~Out(p))
  BY TwoSides
<1>5. word \in Answers /\ ~NoWizard
  <2>1. word \in Answers
    BY <1>1, <1>4 DEF FakeSafe
  <2>2. Class[s] = "wizard"
    BY <1>1, ClassAssumption DEF Kit
  <2>3. QED BY <2>1, <2>2 DEF NoWizard
<1> HIDE DEF p, q
<1>6. Calm(q, me) /\ me.shield = q.shield /\ me.reshape = {}
  <2>1. me \in FakeSafe
    BY <1>3 DEF FakeSafe
  <2>2. /\ SameBoard(q, me) /\ me.eyes = q.eyes /\ me.rows = q.rows
        /\ me.keymap = q.keymap /\ me.scrambled = q.scrambled /\ me.shield = q.shield
        /\ me.reshape = {}
    BY <1>3 DEF FakeSafe, SameBoard
  <2> HIDE DEF me
  <2>3. QED BY <1>3, <2>1, <2>2, CalmWhen DEF SideInv
<1> HIDE DEF me
<1>7. Calm(side[s], me)
  BY <1>1, <1>6, PaidThen DEF q
<1>8. /\ SideInv(me) /\ me \in FakeSafe /\ Visible(me) = Visible(side[s]) /\ Keeps(side[s], me)
      /\ (Out(me) => Out(side[s]))
  BY <1>4, <1>7, CalmKeeps DEF Calm
<1>9. /\ SideInv(hit) /\ hit.eyes = p.eyes /\ (hit.shield => p.shield)
      /\ (Out(hit) => Out(p))
  BY <1>4, <1>5, RescoreInv, StruckInv
<1> HIDE DEF hit
<1>10. Turned(me, [me EXCEPT !.eyes = e]) /\ Watches([me EXCEPT !.eyes = e], hit)
  <2>1. hit \in FakeSafe /\ Fits(hit)
    BY <1>9 DEF SideInv
  <2>2. PICK n \in Nat : e \in [1..n -> Spots] /\ \A j \in 1..n : e[j] \in Visible(hit) \union {Off}
    BY <1>2, <1>8, <2>1, ReaimLooks
  <2>3. QED BY <1>8, <2>2, TurnedEyes
<1> DEFINE looking == [me EXCEPT !.eyes = e]
<1>11. Becomes(s, looking, hit)
  BY <1>2, PutBecomes
<1>12. GivenAnew(Other(s))
  <2>1. looking.reshape = {}
    BY <1>6, <1>10 DEF Turned
  <2> HIDE DEF looking
  <2>2. side'[s].reshape = {} /\ Other(Other(s)) = s
    BY <1>11, <2>1, SidesAre DEF Becomes
  <2>3. QED BY <1>1, <2>2 DEF GivenAnew
<1> HIDE DEF looking
<1>13. Turned(hit, hit) /\ Watches(hit, me)
  BY <1>4, <1>8, <1>9, TurnedItself DEF Watches
<1>14. QED BY <1>3, <1>4, <1>6, <1>8, <1>9, <1>10, <1>11, <1>12, <1>13, TurnedStep DEF p, looking

LEMMA NewWordStep ==
  ASSUME DuelInv, NEW s \in Sides, NEW word \in Answers, NewWord(s, word)
  PROVE  Sound
<1> DEFINE q == Paid(s, "divineIntervention")
           p == side[Other(s)]
           me == Rescore(q, word)
           them == Rescore(p, word)
<1>1. /\ "divineIntervention" \in Kit[Class[s]] /\ side[s].energy >= Cost["divineIntervention"]
      /\ \A t \in Sides : word \notin {side[t].word} \union Guesses(side[t])
      /\ \E e \in Reaim(me.eyes, them), f \in Reaim(them.eyes, me) :
            Put(s, [me EXCEPT !.eyes = e], [them EXCEPT !.eyes = f])
  BY DEF NewWord, Affords
<1>2. PICK e \in Reaim(me.eyes, them), f \in Reaim(them.eyes, me) :
            Put(s, [me EXCEPT !.eyes = e], [them EXCEPT !.eyes = f])
  BY <1>1
<1>3. /\ SideInv(q) /\ q \in FakeSafe /\ Calm(side[s], q) /\ q.shield = side[s].shield
  BY <1>1, PaidHit
<1>4. /\ SideInv(p) /\ p \in FakeSafe /\ Fits(p)
      /\ p.shield => Class[Other(s)] = "knight"
      /\ SideInv(side[s]) /\ side[s] \in FakeSafe /\ (~Out(side[s]) \/ ~Out(p))
  BY TwoSides
<1>5. ~side[s].shield
  <2>1. side[s].shield => Class[s] = "knight"
    BY TwoSides
  <2>2. QED BY <1>1, <2>1 DEF Kit
<1>6. /\ word \notin Guesses(q) /\ word \notin Guesses(p) /\ side[s].word # word /\ p.word # word
  <2>1. q.guesses = side[s].guesses
    BY <1>3 DEF Calm, SameBoard
  <2> HIDE DEF q
  <2>2. QED BY <1>1, <2>1, SidesAre DEF Guesses
<1> HIDE DEF p, q
<1>7. /\ SideInv(me) /\ (Out(me) <=> Out(q)) /\ me.word = word /\ me.shield = q.shield
      /\ SideInv(them) /\ (Out(them) <=> Out(p)) /\ them.word = word
      /\ them.shield = p.shield
  BY <1>3, <1>4, <1>6, RescoreInv
<1> HIDE DEF me, them
<1>8. Turned(me, [me EXCEPT !.eyes = e]) /\ Watches([me EXCEPT !.eyes = e], them)
  <2>1. me \in FakeSafe /\ them \in FakeSafe /\ Fits(them)
    BY <1>7 DEF SideInv
  <2>2. PICK n \in Nat : e \in [1..n -> Spots] /\ \A j \in 1..n : e[j] \in Visible(them) \union {Off}
    BY <1>2, <2>1, ReaimLooks
  <2>3. QED BY <1>7, <2>2, TurnedEyes
<1>9. Turned(them, [them EXCEPT !.eyes = f]) /\ Watches([them EXCEPT !.eyes = f], me)
  <2>1. me \in FakeSafe /\ them \in FakeSafe /\ Fits(me)
    BY <1>7 DEF SideInv
  <2>2. PICK n \in Nat : f \in [1..n -> Spots] /\ \A j \in 1..n : f[j] \in Visible(me) \union {Off}
    BY <1>2, <2>1, ReaimLooks
  <2>3. QED BY <1>7, <2>2, TurnedEyes
<1> DEFINE i == [me EXCEPT !.eyes = e]
           u == [them EXCEPT !.eyes = f]
<1>10. Becomes(s, i, u)
  BY <1>2, PutBecomes
<1> HIDE DEF i, u
<1>11. GivenAnew(s) /\ GivenAnew(Other(s))
  <2>1. i.word = word /\ u.word = word
    BY <1>7, <1>8, <1>9 DEF Turned, SameBoard, i, u
  <2>2. side'[s].word = word /\ side'[Other(s)].word = word
    BY <1>10, <2>1, SidesAre DEF Becomes
  <2>3. QED BY <1>6, <2>2 DEF GivenAnew, p
<1>12. (Out(q) => Out(side[s]))
  BY <1>3, <1>5 DEF Calm
<1>13. QED BY <1>3, <1>4, <1>5, <1>7, <1>8, <1>9, <1>10, <1>11, <1>12, TurnedStep DEF p, i, u

-----------------------------------------------------------------------------
(* The tick.                                                                *)

\* What a tick leaves of p that n missiles land on: nothing harms it, and of the
\* missiles a shield stops one
Ticked(p, q, n) ==
    /\ q \in FakeSafe /\ Unhurt(p, q) /\ q.word = p.word /\ Len(q.eyes) = Len(p.eyes)
    /\ q.missiles = p.missiles - n
    /\ p.shield => IF n = 0 THEN q.shield /\ q.rows = p.rows
                   ELSE /\ ~q.shield
                        /\ q.rows >= p.rows - (n - 1)
                        /\ q.energy >= p.energy - MissileEnergy * (n - 1)

\* One side's tick wears it, and turns its eyes
LEMMA TickSideTurns ==
  ASSUME NEW p, SideInv(p), NEW o, SideInv(o), Watches(p, o),
         NEW gain \in {0, 1}, p.energy + gain <= MaxEnergy,
         NEW stunOver \in BOOLEAN, NEW silenceOver \in BOOLEAN,
         NEW landing \in 0..MaxMissiles, landing <= p.missiles, NEW moving,
         NEW q \in TickSide(p, o, gain, stunOver, silenceOver, landing, moving)
  PROVE  /\ \E hit : Calm(p, hit) /\ (hit.shield => p.shield) /\ SideInv(hit) /\ Turned(hit, q) /\ Watches(q, o)
         /\ Ticked(p, q, landing)
<1> DEFINE energy == p.energy + gain
           stunned == p.stunned /\ ~stunOver
           silenced == p.silenced /\ ~silenceOver
           worn == [p EXCEPT !.energy = energy, !.stunned = stunned, !.silenced = silenced]
           landed == LandMany(worn, landing)
           missiles == landed.missiles - landing
           hit == [landed EXCEPT !.missiles = missiles]
<1>1. PICK e \in AimAll(p.eyes, moving, o) : q = [hit EXCEPT !.eyes = e]
  BY DEF TickSide
<1>2. /\ p \in FakeSafe /\ Fits(p) /\ p.rows \in Int /\ p.illusion \in Int /\ p.scrambled \in Int
      /\ p.missiles \in 0..MaxMissiles /\ p.energy \in Nat /\ (p.keymap <=> p.scrambled > 0)
      /\ p.stunned \in BOOLEAN /\ p.silenced \in BOOLEAN /\ p.shield \in BOOLEAN
      /\ Len(p.guesses) \in Int
  BY SideTyped, SMTT(30) DEF SideInv, FakeSafe
<1>3. energy \in 0..MaxEnergy /\ stunned \in BOOLEAN /\ silenced \in BOOLEAN
      /\ (stunned => p.stunned) /\ (silenced => p.silenced)
      /\ energy >= p.energy
  BY <1>2, AmountAssumption
<1> HIDE DEF energy, stunned, silenced
<1>4. worn \in FakeSafe
  BY <1>2, <1>3, ZenonT(60) DEF FakeSafe
<1>5. /\ SameBoard(p, worn) /\ worn.eyes = p.eyes /\ worn.shield = p.shield /\ worn.rows = p.rows
      /\ worn.missiles = p.missiles /\ worn.illusion = p.illusion /\ worn.falseNext = p.falseNext
      /\ worn.scrambled = p.scrambled /\ worn.keymap = p.keymap
      /\ worn.stunned = stunned /\ worn.silenced = silenced /\ worn.energy = energy
  BY <1>2 DEF FakeSafe, SameBoard
<1> HIDE DEF worn
<1>6. Fits(worn) /\ (Out(worn) <=> Out(p))
  BY <1>2, <1>5 DEF Fits, Out, SameBoard
<1>7. /\ landed \in FakeSafe /\ Worn(worn, landed)
      /\ worn.shield => Withstood(worn, landed, landing)
  BY <1>4, <1>6, LandManyWears, AmountAssumption
<1>8. landing \in Nat /\ landed.missiles = p.missiles /\ missiles \in 0..MaxMissiles
  BY <1>2, <1>5, <1>7, AmountAssumption DEF Worn
<1> HIDE DEF landed
<1>9. missiles = p.missiles - landing
  BY <1>8
<1> HIDE DEF missiles
<1>10. hit \in FakeSafe
  BY <1>7, <1>8 DEF FakeSafe
<1>11. /\ SameBoard(landed, hit) /\ hit.eyes = landed.eyes /\ hit.shield = landed.shield
       /\ hit.rows = landed.rows /\ hit.missiles = missiles /\ hit.illusion = landed.illusion
       /\ hit.falseNext = landed.falseNext
       /\ hit.scrambled = landed.scrambled /\ hit.keymap = landed.keymap
       /\ hit.stunned = landed.stunned /\ hit.silenced = landed.silenced
       /\ hit.energy = landed.energy
  BY <1>7 DEF FakeSafe, SameBoard
<1> HIDE DEF hit
<1>12. Fits(hit) /\ (Out(hit) => Out(p))
  BY <1>6, <1>7, <1>11 DEF Worn, SameBoard, Fits, Out
<1>13. SameBoard(p, hit) /\ hit.eyes = p.eyes /\ (hit.keymap <=> hit.scrambled > 0)
       /\ (hit.shield => p.shield)
  BY <1>2, <1>5, <1>7, <1>11 DEF Worn, SameBoard
<1>14. Calm(p, hit) /\ SideInv(hit)
  <2>1. Calm(p, hit)
    BY <1>10, <1>12, <1>13 DEF Calm
  <2>2. QED BY <2>1, CalmKeeps
<1>15. Turned(hit, q) /\ Watches(q, o)
  <2> DEFINE n == Len(p.eyes)
  <2>1. n \in Nat /\ p.eyes \in [1..n -> Spots] /\ DOMAIN p.eyes = 1..n
    BY <1>2, EyesTyped
  <2>2. \A j \in 1..n : p.eyes[j] \in Visible(o) \union {Off}
    BY <2>1 DEF Watches
  <2>3. o \in FakeSafe /\ Fits(o)
    BY DEF SideInv
  <2>4. /\ e \in [1..n -> Spots]
        /\ \A j \in 1..n : IF j \in moving THEN e[j] \in Visible(o) \union {Off} ELSE e[j] = p.eyes[j]
    BY <1>1, <2>1, <2>3, AimAllLooks
  <2>5. \A j \in 1..n : e[j] \in Visible(o) \union {Off}
    BY <2>2, <2>4
  <2> HIDE DEF n
  <2>6. QED BY <1>1, <1>14, <2>1, <2>4, <2>5, TurnedEyes
<1>16. Ticked(p, q, landing)
  <2>1. /\ q.word = hit.word /\ q.rows = hit.rows /\ q.shield = hit.shield /\ q.energy = hit.energy
        /\ q.missiles = hit.missiles /\ q.stunned = hit.stunned /\ q.silenced = hit.silenced
        /\ q.illusion = hit.illusion /\ q.scrambled = hit.scrambled
        /\ q.destroyed = hit.destroyed /\ q.falseNext = hit.falseNext
    BY <1>1, <1>10 DEF FakeSafe
  <2>2. q \in FakeSafe
    BY <1>15 DEF Turned, SideInv
  <2>3. Len(q.eyes) = Len(p.eyes)
    <3>1. o \in FakeSafe /\ Fits(o)
      BY DEF SideInv
    <3>2. Len(p.eyes) \in Nat /\ p.eyes \in [1..Len(p.eyes) -> Spots]
      BY <1>2, EyesTyped
    <3>3. e \in [1..Len(p.eyes) -> Spots]
      BY <1>1, <3>1, <3>2, AimAllLooks
    <3>4. q.eyes = e
      BY <1>1, <1>10 DEF FakeSafe
    <3>5. QED BY <3>2, <3>3, <3>4
  <2>4. Unhurt(p, q) /\ q.word = p.word
    BY <1>2, <1>3, <1>5, <1>7, <1>11, <2>1 DEF Worn, SameBoard, Unhurt
  <2>5. q.missiles = p.missiles - landing
    BY <1>9, <1>11, <2>1
  <2>6. ASSUME p.shield
        PROVE  IF landing = 0 THEN q.shield /\ q.rows = p.rows
               ELSE /\ ~q.shield
                    /\ q.rows >= p.rows - (landing - 1)
                    /\ q.energy >= p.energy - MissileEnergy * (landing - 1)
    <3>1. Withstood(worn, landed, landing)
      BY <1>5, <1>7, <2>6
    <3>2. CASE landing = 0
      BY <1>5, <1>11, <2>1, <2>6, <3>1, <3>2 DEF Withstood
    <3>3. CASE landing # 0
      <4>1. /\ ~q.shield /\ q.rows >= p.rows - (landing - 1)
            /\ q.energy >= energy - MissileEnergy * (landing - 1)
        BY <1>5, <1>11, <2>1, <3>1, <3>3 DEF Withstood
      <4>2. /\ MissileEnergy * (landing - 1) \in Int /\ energy \in Int /\ p.energy \in Int
            /\ q.energy \in Int
        BY <1>2, <1>3, <1>8, <2>2, SideTyped, AmountAssumption
      <4>3. QED BY <1>3, <3>3, <4>1, <4>2
    <3>4. QED BY <3>2, <3>3
  <2>7. QED BY <2>2, <2>3, <2>4, <2>5, <2>6 DEF Ticked
<1>17. QED BY <1>13, <1>14, <1>15, <1>16

LEMMA TickStep ==
  ASSUME DuelInv, Tick
  PROVE  Sound
<1>1. PICK gain \in {0, 1},
           stunOver \in SUBSET {s \in Sides : side[s].stunned},
           silenceOver \in SUBSET {s \in Sides : side[s].silenced},
           landing \in {n \in [Sides -> 0..MaxMissiles] : \A s \in Sides : n[s] <= side[s].missiles},
           moving \in {m \in [Sides -> SUBSET (1..MaxEyes)] :
                         \A s \in Sides : m[s] \subseteq DOMAIN side[s].eyes} :
         /\ \A s \in Sides : side[s].energy + gain <= MaxEnergy
         /\ \E p \in TickSide(side[0], side[1], gain, 0 \in stunOver, 0 \in silenceOver,
                              landing[0], moving[0]),
               q \in TickSide(side[1], side[0], gain, 1 \in stunOver, 1 \in silenceOver,
                              landing[1], moving[1]) :
               Put(0, p, q)
  BY DEF Tick
<1>2. PICK p \in TickSide(side[0], side[1], gain, 0 \in stunOver, 0 \in silenceOver,
                          landing[0], moving[0]),
           q \in TickSide(side[1], side[0], gain, 1 \in stunOver, 1 \in silenceOver,
                          landing[1], moving[1]) :
           Put(0, p, q)
  BY <1>1
<1>3. 0 \in Sides /\ 1 \in Sides /\ Other(0) = 1
  BY DEF Sides, Other
<1>4. /\ SideInv(side[0]) /\ SideInv(side[1]) /\ Watches(side[0], side[1]) /\ Watches(side[1], side[0])
      /\ side[0].shield => Class[0] = "knight"
      /\ side[1].shield => Class[1] = "knight"
      /\ ~Out(side[0]) \/ ~Out(side[1])
  BY <1>3, TwoSides
<1>5. /\ landing[0] \in 0..MaxMissiles /\ landing[0] <= side[0].missiles
      /\ landing[1] \in 0..MaxMissiles /\ landing[1] <= side[1].missiles
      /\ side[0].energy + gain <= MaxEnergy /\ side[1].energy + gain <= MaxEnergy
      /\ (0 \in stunOver) \in BOOLEAN /\ (0 \in silenceOver) \in BOOLEAN
      /\ (1 \in stunOver) \in BOOLEAN /\ (1 \in silenceOver) \in BOOLEAN
  BY <1>1, <1>3
<1>6. PICK h : Calm(side[0], h) /\ (h.shield => side[0].shield) /\ SideInv(h) /\ Turned(h, p)
               /\ Watches(p, side[1])
  BY <1>2, <1>4, <1>5, TickSideTurns, Zenon
<1>7. PICK k : Calm(side[1], k) /\ (k.shield => side[1].shield) /\ SideInv(k) /\ Turned(k, q)
               /\ Watches(q, side[0])
  BY <1>2, <1>4, <1>5, TickSideTurns, Zenon
<1>8. /\ Visible(h) = Visible(side[0]) /\ Keeps(side[0], h)
      /\ Visible(k) = Visible(side[1]) /\ Keeps(side[1], k)
  BY <1>4, <1>6, <1>7, CalmKeeps
<1>9. Watches(p, k) /\ Watches(q, h)
  BY <1>6, <1>7, <1>8 DEF Watches
<1>10. Becomes(0, p, q)
  BY <1>2, PutBecomes
<1>11. /\ (Out(h) => Out(side[0]))
       /\ (Out(k) => Out(side[1]))
  BY <1>6, <1>7 DEF Calm
<1>12. QED BY <1>3, <1>4, <1>6, <1>7, <1>8, <1>9, <1>10, <1>11, TurnedStep

-----------------------------------------------------------------------------
(* Guesses.                                                                 *)

LEMMA PositionsFinite == \A S \in SUBSET Positions : IsFiniteSet(S) /\ Cardinality(S) \in Nat
<1> DEFINE n == Len(CHOOSE w \in Words : TRUE)
<1>1. (CHOOSE w \in Words : TRUE) \in Seq(Letters)
  BY WordsAssumption
<1>2. n \in Nat
  BY <1>1
<1> HIDE DEF n
<1>3. IsFiniteSet(1..n)
  BY <1>2, FS_Interval
<1>4. Positions = 1..n
  BY DEF Positions, n
<1>5. QED BY <1>3, <1>4, FS_Subset, FS_CardinalityType

\* learn takes in all that the row shows
LEMMA LearnTakes ==
  ASSUME NEW g \in FakeSafe, NEW row \in Boards
  PROVE  \E greens \in SUBSET Positions, found \in SUBSET Letters, energy \in Nat :
             /\ [Learn(g, row) EXCEPT !.missiles = 0] =
                  [g EXCEPT !.greens = greens, !.found = found, !.energy = energy, !.missiles = 0]
             /\ greens = g.greens \union Greens(row)
             /\ g.found \subseteq found /\ Yellows(row) \subseteq found
             /\ \A i \in Greens(row) \ g.greens : row.word[i] \in found
<1> DEFINE newGreens == Greens(row) \ g.greens
           first == g.found \union {row.word[i] : i \in newGreens}
           newYellows == Yellows(row) \ first
           greens == g.greens \union newGreens
           found == first \union Yellows(row)
           energy == g.energy + GreenEnergy * Cardinality(newGreens)
                              + YellowEnergy * Cardinality(newYellows)
<1>1. /\ row.word \in [Positions -> Letters] /\ g.greens \subseteq Positions /\ g.found \subseteq Letters
      /\ g.energy \in Nat
  BY SideTyped DEF FakeSafe, Boards, Strings
<1>2. Greens(row) \subseteq Positions /\ Yellows(row) \subseteq Letters
      /\ {row.word[i] : i \in newGreens} \subseteq Letters
  BY <1>1 DEF Greens, Yellows
<1>3. Cardinality(newGreens) \in Nat
  <2>1. newGreens \in SUBSET Positions
    BY <1>2
  <2> HIDE DEF newGreens
  <2>2. QED BY <2>1, PositionsFinite
<1>4. Cardinality(newYellows) \in Nat
  <2> DEFINE T == {i \in Positions : row.colors[i] = "yellow"}
  <2>1. T \in SUBSET Positions
    OBVIOUS
  <2>2. Yellows(row) = {row.word[i] : i \in T}
    BY DEF Yellows
  <2> HIDE DEF T
  <2>3. IsFiniteSet(T)
    BY <2>1, PositionsFinite
  <2> DEFINE f == [i \in T |-> row.word[i]]
  <2>4. f \in Surjection(T, Yellows(row))
    BY <2>2 DEF Surjection
  <2> HIDE DEF f
  <2>5. IsFiniteSet(Yellows(row))
    BY <2>3, <2>4, FS_Surjection
  <2>6. newYellows \subseteq Yellows(row)
    OBVIOUS
  <2> HIDE DEF newYellows
  <2>7. QED BY <2>5, <2>6, FS_Subset, FS_CardinalityType
<1>5. energy \in Nat
  <2> HIDE DEF newGreens, newYellows
  <2>1. QED BY <1>1, <1>3, <1>4, AmountAssumption
<1>6. Learn(g, row) = [g EXCEPT !.greens = greens, !.found = found, !.energy = energy]
  BY DEF Learn
<1>7. greens \in SUBSET Positions /\ found \in SUBSET Letters /\ greens = g.greens \union Greens(row)
      /\ g.found \subseteq found /\ Yellows(row) \subseteq found
      /\ \A i \in newGreens : row.word[i] \in found
  BY <1>1, <1>2
<1> HIDE DEF greens, found, energy
<1>8. [Learn(g, row) EXCEPT !.missiles = 0] =
        [g EXCEPT !.greens = greens, !.found = found, !.energy = energy, !.missiles = 0]
  BY <1>6
<1>9. QED BY <1>5, <1>7, <1>8

\* What the guess's row shows: the real colors, or a fake that is no solve
LEMMA FakedRowShows ==
  ASSUME NEW p \in FakeSafe, NEW guess \in Strings, NEW colors \in Patterns
  PROVE  LET row == FakedRow(p, guess, colors)
         IN  /\ row \in Boards /\ row.word = guess /\ row.colors = colors
             /\ ~Solves(colors) => Unsolved(row)
<1> DEFINE seen == IF p.falseNext = NoPattern THEN colors ELSE p.falseNext
           shown == IF p.feint = NoPattern THEN colors ELSE p.feint
           row == FakedRow(p, guess, colors)
<1>1. /\ seen \in Patterns /\ shown \in Patterns
      /\ ~Solves(colors) => ~Solves(seen) /\ ~Solves(shown)
  BY FakesAssumption DEF FakeSafe, ValidPattern
<1>2. row = [word |-> guess, colors |-> colors, seen |-> seen, shown |-> shown]
  <2> DEFINE plain == Row(guess, colors)
             feinted == [plain EXCEPT !.shown = IF p.feint = NoPattern THEN plain.shown ELSE p.feint]
  <2>1. row = [feinted EXCEPT !.seen = IF p.falseNext = NoPattern THEN feinted.seen ELSE p.falseNext]
    BY DEF FakedRow
  <2>2. feinted = [word |-> guess, colors |-> colors, seen |-> colors, shown |-> shown]
    BY DEF Row
  <2> HIDE DEF plain, feinted, shown
  <2>3. QED BY <2>1, <2>2
<1> HIDE DEF seen, shown, row
<1>3. row \in Boards /\ row.word = guess /\ row.colors = colors /\ row.seen = seen /\ row.shown = shown
  BY <1>1, <1>2 DEF Boards
<1>4. QED BY <1>1, <1>3 DEF Unsolved, row

\* The side after the append
LEMMA GuessedIs ==
  ASSUME NEW p, SideInv(p), ~Out(p), NEW guess \in Strings
  PROVE  LET g == Guessed(p, guess)
             row == FakedRow(p, guess, Colors(guess, p.word))
             n == Len(p.guesses)
         IN  /\ g \in FakeSafe /\ Fits(g) /\ DOMAIN g.guesses = 1..(n + 1) /\ Len(g.guesses) = n + 1
             /\ g.guesses[n + 1] = row /\ (\A r \in 1..n : g.guesses[r] = p.guesses[r])
             /\ g.word = p.word /\ g.greens = p.greens /\ g.found = p.found
             /\ g.destroyed = p.destroyed /\ g.eyes = p.eyes /\ g.shield = p.shield /\ g.rows = p.rows
             /\ g.stunned = p.stunned /\ g.silenced = p.silenced /\ g.illusion = p.illusion
             /\ g.missiles = p.missiles /\ g.falseNext = NoPattern
             /\ g.scrambled <= p.scrambled /\ (g.keymap <=> g.scrambled > 0)
<1> DEFINE row == FakedRow(p, guess, Colors(guess, p.word))
           n == Len(p.guesses)
           guesses == Append(p.guesses, row)
           left == IF p.scrambled > 0 THEN p.scrambled - 1 ELSE p.scrambled
           kept == p.keymap /\ p.scrambled # 1
           g == Guessed(p, guess)
<1>1. /\ p \in FakeSafe /\ Fits(p) /\ (p.keymap <=> p.scrambled > 0) /\ p.guesses \in Seq(Boards)
      /\ n \in Nat /\ DOMAIN p.guesses = 1..n /\ p.rows \in Int /\ p.scrambled \in 0..ScrambleGuesses
      /\ p.keymap \in BOOLEAN
  BY SideTyped DEF SideInv, FakeSafe
<1>2. row \in Boards
  BY <1>1, ColorsPattern, FakedRowShows
<1>3. g = [p EXCEPT !.cheat = FALSE, !.feint = NoPattern, !.falseNext = NoPattern,
                    !.scrambled = left, !.keymap = kept, !.guesses = guesses]
  BY DEF Guessed
<1> HIDE DEF row
<1>4. /\ guesses \in Seq(Boards) /\ Len(guesses) = n + 1 /\ DOMAIN guesses = 1..(n + 1)
      /\ guesses[n + 1] = row /\ \A r \in 1..n : guesses[r] = p.guesses[r]
  BY <1>1, <1>2
<1>5. left \in 0..ScrambleGuesses /\ left <= p.scrambled /\ kept \in BOOLEAN /\ (kept <=> left > 0)
  BY <1>1, AmountAssumption
<1> HIDE DEF guesses, left, kept, g
<1>6. g \in FakeSafe
  BY <1>1, <1>3, <1>4, <1>5, ZenonT(60) DEF FakeSafe
<1>7. /\ g.guesses = guesses /\ g.word = p.word /\ g.greens = p.greens /\ g.found = p.found
      /\ g.destroyed = p.destroyed /\ g.eyes = p.eyes /\ g.shield = p.shield /\ g.rows = p.rows
      /\ g.stunned = p.stunned /\ g.silenced = p.silenced /\ g.illusion = p.illusion
      /\ g.missiles = p.missiles /\ g.falseNext = NoPattern /\ g.scrambled = left /\ g.keymap = kept
  BY <1>1, <1>3 DEF FakeSafe
<1>8. Fits(g)
  BY <1>1, <1>4, <1>7 DEF Fits, Out
<1>9. QED BY <1>4, <1>5, <1>6, <1>7, <1>8 DEF row, g

\* afterGuess's first part: the row is learned, the missiles are beaten
LearnedSide(g) == [Learn(g, g.guesses[Len(g.guesses)]) EXCEPT !.missiles = 0]

LEMMA LearnedInv ==
  ASSUME NEW p, SideInv(p), ~Out(p), NEW guess \in Strings, ~Solves(Colors(guess, p.word)),
         LearnedSide(Guessed(p, guess)).energy <= MaxEnergy
  PROVE  LET q == LearnedSide(Guessed(p, guess))
         IN  /\ SideInv(q) /\ Keeps(p, q) /\ q.eyes = p.eyes /\ q.shield = p.shield
             /\ q.rows = p.rows /\ q.word = p.word /\ Unhurt(p, q)
             /\ Visible(p) \subseteq Visible(q) /\ (Out(q) <=> Out(Guessed(p, guess)))
<1> DEFINE g == Guessed(p, guess)
           row == FakedRow(p, guess, Colors(guess, p.word))
           n == Len(p.guesses)
           q == LearnedSide(g)
<1>1. /\ p \in FakeSafe /\ BoardInv(p) /\ n \in Nat /\ DOMAIN p.guesses = 1..n
      /\ p.rows \in Int /\ p.illusion \in Int /\ p.scrambled \in Int
  BY SideTyped DEF SideInv
<1>2. row \in Boards /\ row.word = guess /\ row.colors = Colors(guess, p.word) /\ Unsolved(row)
  BY <1>1, ColorsPattern, FakedRowShows
<1>3. /\ g \in FakeSafe /\ Fits(g) /\ DOMAIN g.guesses = 1..(n + 1) /\ Len(g.guesses) = n + 1
      /\ g.guesses[n + 1] = row /\ (\A r \in 1..n : g.guesses[r] = p.guesses[r])
      /\ g.word = p.word /\ g.greens = p.greens /\ g.found = p.found
      /\ g.destroyed = p.destroyed /\ g.eyes = p.eyes /\ g.shield = p.shield /\ g.rows = p.rows
      /\ g.stunned = p.stunned /\ g.silenced = p.silenced /\ g.illusion = p.illusion
      /\ g.missiles = p.missiles /\ g.falseNext = NoPattern
      /\ g.scrambled <= p.scrambled /\ (g.keymap <=> g.scrambled > 0)
  BY GuessedIs
<1> HIDE DEF g, row, n
<1>4. PICK greens \in SUBSET Positions, found \in SUBSET Letters, energy \in Nat :
             /\ q = [g EXCEPT !.greens = greens, !.found = found, !.energy = energy, !.missiles = 0]
             /\ greens = g.greens \union Greens(row)
             /\ g.found \subseteq found /\ Yellows(row) \subseteq found
             /\ \A i \in Greens(row) \ g.greens : row.word[i] \in found
  <2>1. g.guesses[Len(g.guesses)] = row
    BY <1>3
  <2>2. q = [Learn(g, row) EXCEPT !.missiles = 0]
    BY <2>1 DEF LearnedSide
  <2> HIDE DEF q
  <2>3. g \in FakeSafe /\ row \in Boards
    BY <1>2, <1>3
  <2>4. PICK greens \in SUBSET Positions, found \in SUBSET Letters, energy \in Nat :
             /\ [Learn(g, row) EXCEPT !.missiles = 0] =
                  [g EXCEPT !.greens = greens, !.found = found, !.energy = energy, !.missiles = 0]
             /\ greens = g.greens \union Greens(row)
             /\ g.found \subseteq found /\ Yellows(row) \subseteq found
             /\ \A i \in Greens(row) \ g.greens : row.word[i] \in found
    BY <2>3, LearnTakes, Zenon
  <2>5. QED BY <2>2, <2>4
<1>5. /\ q.energy = energy /\ q.missiles = 0 /\ q.greens = greens /\ q.found = found
      /\ q.guesses = g.guesses /\ q.word = g.word
      /\ q.destroyed = g.destroyed /\ q.eyes = g.eyes /\ q.shield = g.shield /\ q.rows = g.rows
      /\ q.stunned = g.stunned /\ q.silenced = g.silenced /\ q.illusion = g.illusion
      /\ q.falseNext = g.falseNext /\ q.scrambled = g.scrambled /\ q.keymap = g.keymap
  <2> HIDE DEF q
  <2>1. QED BY <1>3, <1>4 DEF FakeSafe
<1>6. energy \in 0..MaxEnergy /\ 0 \in 0..MaxMissiles
  BY <1>5, AmountAssumption DEF g
<1> HIDE DEF q
<1>7. q \in FakeSafe
  BY <1>3, <1>4, <1>6, ZenonT(60) DEF FakeSafe
<1>8. Fits(q) /\ (Out(q) <=> Out(g))
  BY <1>3, <1>5 DEF Fits, Out
<1>9. \A i \in Greens(row) : i \in Positions /\ row.word[i] = p.word[i]
  BY <1>2, ColorsGreen DEF Greens
<1>10. Matches(q)
  <2>1. \A r \in 1..n : p.guesses[r].colors = Colors(p.guesses[r].word, p.word)
    BY <1>1 DEF BoardInv, Matches
  <2>2. \A r \in 1..(n + 1) : r \in 1..n \/ r = n + 1
    BY <1>1
  <2>3. QED BY <1>2, <1>3, <1>5, <2>1, <2>2 DEF Matches
<1>11. Keeps(p, q)
  BY <1>3, <1>4, <1>5 DEF Keeps
<1>12. GreensFound(q)
  <2> SUFFICES ASSUME NEW i \in greens PROVE p.word[i] \in found
    BY <1>3, <1>5 DEF GreensFound
  <2>1. CASE i \in p.greens
    BY <1>1, <1>3, <1>4, <2>1 DEF BoardInv, GreensFound
  <2>2. CASE i \in Greens(row) \ p.greens
    BY <1>3, <1>4, <1>9, <2>2
  <2>3. QED BY <1>3, <1>4, <2>1, <2>2
<1>13. Learned(q)
  <2> SUFFICES ASSUME NEW r \in 1..(n + 1)
               PROVE  /\ Greens(g.guesses[r]) \subseteq greens
                      /\ {g.guesses[r].word[i] : i \in Greens(g.guesses[r])}
                            \union Yellows(g.guesses[r]) \subseteq found
    BY <1>3, <1>5 DEF Learned
  <2>1. CASE r \in 1..n
    BY <1>1, <1>3, <1>4, <2>1 DEF BoardInv, Learned
  <2>2. CASE r = n + 1
    <3>1. \A i \in Greens(row) : row.word[i] \in found
      BY <1>3, <1>4, <1>5, <1>9, <1>12 DEF GreensFound
    <3>2. QED BY <1>3, <1>4, <2>2, <3>1
  <2>3. QED BY <1>1, <2>1, <2>2
<1>14. NoWizard => AllUnsolved(q)
  <2>1. \A r \in 1..(n + 1) : r \in 1..n \/ r = n + 1
    BY <1>1
  <2>2. QED BY <1>1, <1>2, <1>3, <1>5, <2>1 DEF BoardInv, AllUnsolved
<1>15. SideInv(q)
  BY <1>3, <1>5, <1>7, <1>8, <1>10, <1>12, <1>13, <1>14 DEF SideInv, BoardInv
<1>16. Visible(p) \subseteq Visible(q)
  <2> SUFFICES ASSUME NEW t \in Visible(p) PROVE t \in Visible(q)
    OBVIOUS
  <2>1. t \in Tiles(p) /\ p.guesses[t[1]].colors[t[2]] # "green" /\ t \notin p.destroyed
    BY DEF Visible
  <2>2. t[1] \in 1..n /\ t[2] \in Positions /\ t = <<t[1], t[2]>>
    BY <1>1, <2>1 DEF Tiles
  <2>3. t[1] \in 1..(n + 1)
    BY <1>1, <2>2
  <2>4. t \in Tiles(q)
    BY <1>3, <1>5, <2>2, <2>3 DEF Tiles
  <2>5. q.guesses[t[1]] = p.guesses[t[1]]
    BY <1>3, <1>5, <2>2
  <2>6. QED BY <1>3, <1>5, <2>1, <2>4, <2>5 DEF Visible
<1>17. Unhurt(p, q)
  <2>1. g.scrambled \in Int
    BY <1>3, SideTyped
  <2>2. QED BY <1>1, <1>3, <1>5, <2>1 DEF Unhurt
<1>18. QED BY <1>3, <1>5, <1>8, <1>11, <1>15, <1>16, <1>17 DEF g, q

\* The passive is a hostile that hits them, or turns one's own eyes
LEMMA PassiveTurns ==
  ASSUME NEW class \in DOMAIN Kit, NEW me, SideInv(me), NEW them, SideInv(them), Watches(me, them),
         NEW k \in Passive(class, me, them) \union {<<me, them>>}
  PROVE  /\ Turned(me, k[1]) /\ Watches(k[1], them)
         /\ Calm(them, k[2]) /\ (k[2].shield => them.shield)
<1>1. Turned(me, me) /\ Calm(them, them)
  BY TurnedItself, CalmItself
<1>2. CASE k = <<me, them>>
  BY <1>1, <1>2
<1>3. ASSUME NEW hit, Hit(them, hit), k = <<me, Struck(them, hit)>>
      PROVE  /\ Turned(me, k[1]) /\ Watches(k[1], them)
             /\ Calm(them, k[2]) /\ (k[2].shield => them.shield)
  BY <1>1, <1>3, StruckCalm
<1>4. CASE class = "knight" /\ k \in Passive(class, me, them)
  <2> DEFINE hit == [them EXCEPT !.stunned = TRUE]
  <2>1. k = <<me, Struck(them, hit)>>
    BY <1>4 DEF Passive
  <2>2. Hit(them, hit)
    BY ZenonT(60) DEF SideInv, Hit, FakeSafe, SameBoard, Fits, Out
  <2> HIDE DEF hit
  <2>3. QED BY <1>3, <2>1, <2>2
<1>5. CASE class = "cleric" /\ k \in Passive(class, me, them)
  <2> DEFINE hit == [them EXCEPT !.silenced = TRUE]
  <2>1. k = <<me, Struck(them, hit)>>
    BY <1>5 DEF Passive
  <2>2. Hit(them, hit)
    BY ZenonT(60) DEF SideInv, Hit, FakeSafe, SameBoard, Fits, Out
  <2> HIDE DEF hit
  <2>3. QED BY <1>3, <2>1, <2>2
<1>6. CASE class = "rogue" /\ k \in Passive(class, me, them)
  <2>1. k = <<me, Struck(them, Scramble(them))>>
    BY <1>6 DEF Passive
  <2>2. Hit(them, Scramble(them))
    BY ScrambleHit
  <2>3. QED BY <1>3, <2>1, <2>2
<1>7. CASE class = "wizard" /\ k \in Passive(class, me, them)
  <2> DEFINE n == Len(me.eyes)
  <2>1. PICK e \in AimAll(me.eyes, DOMAIN me.eyes, them) : k = <<[me EXCEPT !.eyes = e], them>>
    BY <1>7 DEF Passive
  <2>2. me \in FakeSafe /\ them \in FakeSafe /\ Fits(them)
    BY DEF SideInv
  <2>3. n \in Nat /\ me.eyes \in [1..n -> Spots] /\ DOMAIN me.eyes = 1..n
    BY <2>2, EyesTyped
  <2>4. /\ e \in [1..n -> Spots]
        /\ \A j \in 1..n : IF j \in DOMAIN me.eyes THEN e[j] \in Visible(them) \union {Off}
                           ELSE e[j] = me.eyes[j]
    BY <2>1, <2>2, <2>3, AimAllLooks
  <2>5. \A j \in 1..n : e[j] \in Visible(them) \union {Off}
    BY <2>3, <2>4
  <2> HIDE DEF n
  <2>6. Turned(me, [me EXCEPT !.eyes = e]) /\ Watches([me EXCEPT !.eyes = e], them)
    BY <2>3, <2>4, <2>5, TurnedEyes
  <2>7. QED BY <1>1, <2>1, <2>6
<1>8. QED BY <1>2, <1>4, <1>5, <1>6, <1>7 DEF Kit

\* A new green sets the passive off
SetOff(class, q, g, them) ==
    IF q.greens # g.greens THEN Passive(class, q, them) ELSE {<<q, them>>}

\* The two parts of afterGuess: the passive, and then their idle eyes
InTwoParts(class, q, g, them, h) ==
    \E k \in SetOff(class, q, g, them) :
    \E e \in AimAll(k[2].eyes, {i \in DOMAIN k[2].eyes : k[2].eyes[i] = Off}, k[1]) :
        h = <<k[1], [k[2] EXCEPT !.eyes = e]>>

LEMMA AfterGuessParts ==
  ASSUME NEW class, NEW g, NEW them, NEW h \in AfterGuess(class, g, them)
  PROVE  InTwoParts(class, LearnedSide(g), g, them, h)
<1> DEFINE learned == LearnedSide(g)
           hit == SetOff(class, learned, g, them)
           Idle(q) == {i \in DOMAIN q.eyes : q.eyes[i] = Off}
<1>1. h \in UNION {{<<k[1], [k[2] EXCEPT !.eyes = e]>> : e \in AimAll(k[2].eyes, Idle(k[2]), k[1])} :
                     k \in hit}
  BY DEF AfterGuess, LearnedSide, SetOff
<1> HIDE DEF learned
<1>2. PICK k \in hit : h \in {<<k[1], [k[2] EXCEPT !.eyes = e]>> : e \in AimAll(k[2].eyes, Idle(k[2]), k[1])}
  BY <1>1
<1>3. QED BY <1>2 DEF InTwoParts, learned

\* The energy that the bound looks at is what was learned
LEMMA AfterGuessEnergy ==
  ASSUME NEW class \in DOMAIN Kit, NEW p, SideInv(p), ~Out(p), NEW guess \in Strings, NEW them,
         NEW k \in Passive(class, LearnedSide(Guessed(p, guess)), them)
                     \union {<<LearnedSide(Guessed(p, guess)), them>>}
  PROVE  k[1].energy = LearnedSide(Guessed(p, guess)).energy
<1> DEFINE g == Guessed(p, guess)
           q == LearnedSide(g)
           row == g.guesses[Len(g.guesses)]
<1>1. g \in FakeSafe /\ row \in Boards
  <2>1. p \in FakeSafe
    BY DEF SideInv
  <2>2. FakedRow(p, guess, Colors(guess, p.word)) \in Boards
    BY <2>1, ColorsPattern, FakedRowShows
  <2>3. g \in FakeSafe /\ row = FakedRow(p, guess, Colors(guess, p.word))
    BY GuessedIs
  <2>4. QED BY <2>2, <2>3
<1> HIDE DEF g
<1>2. PICK greens \in SUBSET Positions, found \in SUBSET Letters, energy \in Nat :
          /\ [Learn(g, row) EXCEPT !.missiles = 0] =
               [g EXCEPT !.greens = greens, !.found = found, !.energy = energy, !.missiles = 0]
          /\ greens = g.greens \union Greens(row)
          /\ g.found \subseteq found /\ Yellows(row) \subseteq found
          /\ \A i \in Greens(row) \ g.greens : row.word[i] \in found
  <2> HIDE DEF row
  <2>1. QED BY <1>1, LearnTakes, Zenon
<1>3. q = [g EXCEPT !.greens = greens, !.found = found, !.energy = energy, !.missiles = 0]
  BY <1>2 DEF LearnedSide
<1> HIDE DEF q, row
<1>4. \A e : [q EXCEPT !.eyes = e].energy = q.energy
  BY <1>1, <1>3 DEF FakeSafe
<1>5. k[1] = q \/ \E e : k[1] = [q EXCEPT !.eyes = e]
  <2>1. k \in Passive(class, q, them) \union {<<q, them>>}
    BY DEF q, g
  <2>2. class \in {"knight", "wizard", "rogue", "cleric"}
    BY DEF Kit
  <2>3. CASE class = "wizard" /\ k # <<q, them>>
    <3>1. PICK e \in AimAll(q.eyes, DOMAIN q.eyes, them) : k = <<[q EXCEPT !.eyes = e], them>>
      BY <2>1, <2>3 DEF Passive
    <3>2. k[1] = [q EXCEPT !.eyes = e]
      BY <3>1
    <3>3. QED BY <3>2
  <2>4. CASE class # "wizard"
    BY <2>1, <2>2, <2>4 DEF Passive
  <2>5. CASE k = <<q, them>>
    BY <2>5
  <2>6. QED BY <2>3, <2>4, <2>5
<1>6. QED BY <1>4, <1>5 DEF q, g

\* What a guess that does not end the duel does: q is the side that has learned,
\* k the sides after the passive, e the opponent's eyes at the end
Parts(s, q, k, e) ==
    LET p == side[s]  o == side[Other(s)] IN
    /\ SideInv(q) /\ Keeps(p, q) /\ q.eyes = p.eyes /\ q.shield = p.shield
    /\ q.rows = p.rows /\ q.word = p.word /\ Unhurt(p, q)
    /\ Visible(p) \subseteq Visible(q) /\ (~Out(q) \/ ~Out(o))
    /\ k \in SetOff(Class[s], q, p, o)
    /\ e \in AimAll(k[2].eyes, {i \in DOMAIN k[2].eyes : k[2].eyes[i] = Off}, k[1])
    /\ Put(s, k[1], [k[2] EXCEPT !.eyes = e])

LEMMA GuessParts ==
  ASSUME DuelInv, NEW s \in Sides, NEW guess \in Strings, DuelGuess(s, guess)
  PROVE  \/ End("solved") \/ End("outOfGuesses")
         \/ \E q, k, e : Parts(s, q, k, e)
<1> DEFINE p == side[s]
           o == side[Other(s)]
           g == Guessed(p, guess)
           q == LearnedSide(g)
<1>1. CASE Solves(Colors(guess, p.word))
  BY <1>1 DEF DuelGuess
<1>2. CASE ~Solves(Colors(guess, p.word)) /\ Out(g) /\ Out(o)
  BY <1>2 DEF DuelGuess
<1>3. CASE ~Solves(Colors(guess, p.word)) /\ ~(Out(g) /\ Out(o))
  <2>1. PICK h \in AfterGuess(Class[s], g, o) : h[1].energy <= MaxEnergy /\ Put(s, h[1], h[2])
    BY <1>3 DEF DuelGuess
  <2>2. /\ SideInv(p) /\ ~Out(p) /\ Class[s] \in DOMAIN Kit
    BY TwoSides, ClassAssumption DEF DuelGuess
  <2>3. g.greens = p.greens
    BY <2>2, GuessedIs
  <2> HIDE DEF p, o, q
  <2>4. PICK k \in SetOff(Class[s], q, g, o) :
        \E e \in AimAll(k[2].eyes, {i \in DOMAIN k[2].eyes : k[2].eyes[i] = Off}, k[1]) :
            h = <<k[1], [k[2] EXCEPT !.eyes = e]>>
    <3>1. InTwoParts(Class[s], q, g, o, h)
      BY <2>1, AfterGuessParts DEF q
    <3> HIDE DEF g
    <3>2. QED BY <3>1 DEF InTwoParts
  <2>5. PICK e \in AimAll(k[2].eyes, {i \in DOMAIN k[2].eyes : k[2].eyes[i] = Off}, k[1]) :
            h = <<k[1], [k[2] EXCEPT !.eyes = e]>>
    BY <2>4
  <2>6. q.energy <= MaxEnergy
    <3>1. k \in Passive(Class[s], q, o) \union {<<q, o>>}
      BY <2>4 DEF SetOff
    <3>2. k[1].energy = q.energy
      BY <2>2, <3>1, AfterGuessEnergy DEF q
    <3>3. QED BY <2>1, <2>5, <3>2
  <2>7. /\ SideInv(q) /\ Keeps(p, q) /\ q.eyes = p.eyes /\ q.shield = p.shield
        /\ q.rows = p.rows /\ q.word = p.word /\ Unhurt(p, q)
        /\ Visible(p) \subseteq Visible(q) /\ (Out(q) <=> Out(g))
    BY <1>3, <2>2, <2>6, LearnedInv DEF q
  <2> HIDE DEF g
  <2>8. Put(s, k[1], [k[2] EXCEPT !.eyes = e])
    BY <2>1, <2>5
  <2>9. Parts(s, q, k, e)
    BY <1>3, <2>3, <2>4, <2>5, <2>7, <2>8 DEF Parts, SetOff, p, o
  <2>10. QED BY <2>9
<1>4. QED BY <1>1, <1>2, <1>3

LEMMA DuelGuessStep ==
  ASSUME DuelInv, NEW s \in Sides, NEW guess \in Strings, DuelGuess(s, guess)
  PROVE  Sound
<1> DEFINE p == side[s]
           o == side[Other(s)]
<1>1. CASE End("solved") \/ End("outOfGuesses")
  BY <1>1, EndStep
<1>2. ASSUME NEW q, NEW k, NEW e, Parts(s, q, k, e)
      PROVE  Sound
  <2>1. /\ SideInv(p) /\ SideInv(o) /\ Watches(p, o) /\ Watches(o, p)
        /\ p.shield => Class[s] = "knight"
        /\ o.shield => Class[Other(s)] = "knight"
    BY TwoSides
  <2>2. Class[s] \in DOMAIN Kit
    BY ClassAssumption
  <2>3. /\ SideInv(q) /\ Keeps(p, q) /\ q.eyes = p.eyes /\ q.shield = p.shield
        /\ Visible(p) \subseteq Visible(q) /\ (~Out(q) \/ ~Out(o))
        /\ k \in SetOff(Class[s], q, p, o)
        /\ e \in AimAll(k[2].eyes, {i \in DOMAIN k[2].eyes : k[2].eyes[i] = Off}, k[1])
        /\ Put(s, k[1], [k[2] EXCEPT !.eyes = e])
    BY <1>2 DEF Parts
  <2> HIDE DEF p, o
  <2>4. k \in Passive(Class[s], q, o) \union {<<q, o>>}
    BY <2>3 DEF SetOff
  <2>5. Watches(q, o)
    BY <2>1, <2>3 DEF Watches
  <2>6. /\ Turned(q, k[1]) /\ Watches(k[1], o) /\ Calm(o, k[2]) /\ (k[2].shield => o.shield)
    BY <2>1, <2>2, <2>3, <2>4, <2>5, PassiveTurns
  <2> DEFINE me == k[1]
             hit == k[2]
  <2> HIDE DEF me, hit
  <2>7. /\ SideInv(hit) /\ Visible(hit) = Visible(o) /\ Keeps(o, hit)
         /\ (Out(hit) => Out(o)) /\ hit.eyes \in {o.eyes, <<>>}
    BY <2>1, <2>6, CalmKeeps DEF Calm, hit
  <2>8. Visible(me) = Visible(q) /\ SideInv(me)
    BY <2>6 DEF Turned, me
  <2>9. Turned(hit, [hit EXCEPT !.eyes = e]) /\ Watches([hit EXCEPT !.eyes = e], q)
    <3> DEFINE n == Len(hit.eyes)
               those == {i \in DOMAIN hit.eyes : hit.eyes[i] = Off}
    <3>1. hit \in FakeSafe /\ me \in FakeSafe /\ Fits(me)
      BY <2>7, <2>8 DEF SideInv
    <3>2. n \in Nat /\ hit.eyes \in [1..n -> Spots] /\ DOMAIN hit.eyes = 1..n
      BY <3>1, EyesTyped
    <3>3. Watches(hit, q)
      BY <2>1, <2>3, <2>7 DEF Watches
    <3>4. \A j \in 1..n : hit.eyes[j] \in Visible(q) \union {Off}
      BY <3>2, <3>3 DEF Watches
    <3>5. e \in AimAll(hit.eyes, those, me)
      BY <2>3 DEF me, hit
    <3> HIDE DEF those
    <3>6. /\ e \in [1..n -> Spots]
          /\ \A j \in 1..n : IF j \in those THEN e[j] \in Visible(me) \union {Off}
                             ELSE e[j] = hit.eyes[j]
      BY <3>1, <3>2, <3>5, AimAllLooks
    <3>7. \A j \in 1..n : e[j] \in Visible(q) \union {Off}
      BY <2>8, <3>4, <3>6
    <3> HIDE DEF n
    <3>8. QED BY <2>7, <3>2, <3>6, <3>7, TurnedEyes
  <2>10. Watches(me, hit)
    BY <2>6, <2>7 DEF Watches, me
  <2>11. ~Out(q) \/ ~Out(hit)
    BY <2>3, <2>7
  <2>12. Becomes(s, me, [hit EXCEPT !.eyes = e])
    <3>1. Put(s, me, [hit EXCEPT !.eyes = e])
      BY <2>3 DEF me, hit
    <3>2. QED BY <3>1, PutBecomes
  <2>13. /\ Turned(q, me) /\ (q.shield => Class[s] = "knight")
         /\ (hit.shield => Class[Other(s)] = "knight")
    BY <2>1, <2>3, <2>6 DEF me, hit
  <2>14. QED BY <2>3, <2>7, <2>9, <2>10, <2>11, <2>12, <2>13, TurnedStep DEF p, o
<1>3. QED BY <1>1, <1>2, GuessParts

-----------------------------------------------------------------------------
(* The shield.                                                              *)

\* A shield that stays up, and what it stays up for
Kept(s) == side'[s].shield /\ ~Harmed(s) /\ side'[s].rows >= side[s].rows

LEMMA NotHarmed ==
  ASSUME DuelInv, NEW s \in Sides, side'[s] \in FakeSafe, Unhurt(side[s], side'[s]),
         side'[s].word = side[s].word \/ side'[Other(s)].word # side[Other(s)].word,
         Len(side'[Other(s)].eyes) = Len(side[Other(s)].eyes)
  PROVE  ~Harmed(s)
<1>1. side[s] \in FakeSafe /\ side[Other(s)] \in FakeSafe
  BY TwoSides
<1>2. /\ side[s].illusion \in Int /\ side[s].scrambled \in Int
      /\ side'[s].illusion \in Int /\ side'[s].scrambled \in Int
      /\ Len(side[Other(s)].eyes) \in Int
  BY <1>1, SideTyped, EyesTyped
<1>3. QED BY <1>2 DEF Harmed, Unhurt

LEMMA ReaimLength ==
  ASSUME NEW n \in Nat, NEW eyes \in [1..n -> Spots], Len(eyes) = n, NEW those,
         NEW q \in FakeSafe, Fits(q), NEW e \in AimAll(eyes, those, q)
  PROVE  Len(e) = n /\ e \in Seq(Spots)
<1>1. e \in [1..n -> Spots]
  BY AimAllLooks
<1>2. QED BY <1>1

\* The eyes of a side that looks elsewhere
LEMMA LooksElsewhere ==
  ASSUME NEW p \in FakeSafe, NEW those, NEW q \in FakeSafe, Fits(q), NEW e \in AimAll(p.eyes, those, q)
  PROVE  /\ Len([p EXCEPT !.eyes = e].eyes) = Len(p.eyes)
         /\ [p EXCEPT !.eyes = e] \in FakeSafe
<1>1. Len(p.eyes) \in Nat /\ p.eyes \in [1..Len(p.eyes) -> Spots]
  BY EyesTyped
<1>2. Len(e) = Len(p.eyes) /\ e \in Seq(Spots)
  BY <1>1, ReaimLength
<1>3. QED BY <1>2, ZenonT(60) DEF FakeSafe, Spots

LEMMA ReaimKeeps ==
  ASSUME NEW p \in FakeSafe, NEW q \in FakeSafe, Fits(q), NEW e \in Reaim(p.eyes, q)
  PROVE  /\ Len([p EXCEPT !.eyes = e].eyes) = Len(p.eyes)
         /\ [p EXCEPT !.eyes = e] \in FakeSafe
<1> DEFINE those == {i \in DOMAIN p.eyes : p.eyes[i] # Off /\ p.eyes[i] \notin Visible(q)}
<1>1. e \in AimAll(p.eyes, those, q)
  BY DEF Reaim
<1> HIDE DEF those
<1>2. QED BY <1>1, LooksElsewhere

\* A shield that is used up, and nothing else but that the eyes may look elsewhere
LEMMA BlockedIs ==
  ASSUME NEW p \in FakeSafe, p.shield, NEW hit, NEW e
  PROVE  /\ Struck(p, hit) = [p EXCEPT !.shield = FALSE]
         /\ Struck(p, hit) = [p EXCEPT !.shield = FALSE, !.eyes = p.eyes]
         /\ [Struck(p, hit) EXCEPT !.eyes = e] = [p EXCEPT !.shield = FALSE, !.eyes = e]
         /\ Struck(p, hit).eyes = p.eyes /\ Struck(p, hit) \in FakeSafe
<1> DEFINE blocked == [p EXCEPT !.shield = FALSE]
<1>1. Struck(p, hit) = blocked
  BY DEF Struck
<1>2. blocked = [p EXCEPT !.shield = FALSE, !.eyes = p.eyes] /\ blocked.eyes = p.eyes
  BY DEF FakeSafe
<1>3. blocked \in FakeSafe
  BY ZenonT(60) DEF FakeSafe
<1>4. [blocked EXCEPT !.eyes = e] = [p EXCEPT !.shield = FALSE, !.eyes = e]
  BY DEF FakeSafe
<1>5. QED BY <1>1, <1>2, <1>3, <1>4

LEMMA StoppedWhen ==
  ASSUME DuelInv, NEW s \in Sides, NEW me, NEW e, e \in Seq(Spots),
         Put(Other(s), me, [side[s] EXCEPT !.shield = FALSE, !.eyes = e]),
         Len(me.eyes) = Len(side[Other(s)].eyes)
  PROVE  Stopped(s)
<1> DEFINE p == side[s]
           q == [p EXCEPT !.shield = FALSE, !.eyes = e]
<1>1. side'[s] = q /\ side'[Other(s)] = me
  BY SidesAre DEF Put
<1>2. p \in FakeSafe
  BY TwoSides
<1>3. p.illusion \in Int /\ p.scrambled \in Int
  BY <1>2, SideTyped
<1> HIDE DEF p
<1>4. q \in FakeSafe
  BY <1>2, ZenonT(60) DEF FakeSafe, Spots
<1>5. Unhurt(p, q) /\ q.word = p.word /\ q.eyes = e
  BY <1>2, <1>3 DEF FakeSafe, Unhurt
<1> DEFINE r == [p EXCEPT !.shield = FALSE, !.eyes = q.eyes]
<1>6. q = r
  BY <1>5
<1> HIDE DEF q
<1>7. ~Harmed(s)
  BY <1>1, <1>4, <1>5, NotHarmed DEF p
<1>8. QED BY <1>1, <1>6, <1>7 DEF Stopped, p

\* A hostile ability against a shield that is up
LEMMA StruckStops ==
  ASSUME DuelInv, NEW s \in Sides, side[s].shield, NEW me, NEW hit,
         Put(Other(s), me, Struck(side[s], hit)), Len(me.eyes) = Len(side[Other(s)].eyes)
  PROVE  Stopped(s)
<1> DEFINE p == side[s]
           q == Struck(p, hit)
<1>1. p \in FakeSafe
  BY TwoSides
<1>2. q = [p EXCEPT !.shield = FALSE, !.eyes = p.eyes]
  BY <1>1, BlockedIs
<1>3. p.eyes \in Seq(Spots)
  BY <1>1 DEF FakeSafe, Spots
<1> HIDE DEF q
<1>4. Put(Other(s), me, [p EXCEPT !.shield = FALSE, !.eyes = p.eyes])
  BY <1>2 DEF q
<1>5. QED BY <1>3, <1>4, StoppedWhen

\* What casting leaves of a caster
LEMMA PaidKeeps ==
  ASSUME DuelInv, NEW s \in Sides, NEW a, Affords(s, a)
  PROVE  /\ Paid(s, a) \in FakeSafe /\ Paid(s, a).eyes = side[s].eyes /\ Paid(s, a).rows = side[s].rows
         /\ Paid(s, a).shield = side[s].shield /\ Paid(s, a).word = side[s].word
         /\ Unhurt(side[s], Paid(s, a))
<1> DEFINE p == side[s]
           energy == p.energy - Cost[a]
           q == [p EXCEPT !.energy = energy]
<1>1. p \in FakeSafe
  BY TwoSides
<1>2. Paid(s, a) \in FakeSafe
  BY PaidHit DEF Affords
<1>3. Paid(s, a) = q
  BY DEF Paid
<1>4. p.illusion \in Int /\ p.scrambled \in Int
  BY <1>1, SideTyped
<1> HIDE DEF p, energy
<1>5. /\ q.eyes = p.eyes /\ q.rows = p.rows /\ q.shield = p.shield /\ q.word = p.word
      /\ Unhurt(p, q)
  BY <1>1, <1>4 DEF FakeSafe, Unhurt
<1>6. QED BY <1>2, <1>3, <1>5 DEF p

LEMMA StrikeStops ==
  ASSUME DuelInv, NEW s \in Sides, side[s].shield, NEW a, NEW hit, Strike(Other(s), a, hit)
  PROVE  Stopped(s)
<1> DEFINE o == Other(s)
<1>1. o \in Sides /\ Other(o) = s
  BY SidesAre
<1> HIDE DEF o
<1>2. Affords(o, a) /\ Put(o, Paid(o, a), Struck(side[s], hit))
  BY <1>1 DEF Strike, o
<1>3. Paid(o, a).eyes = side[o].eyes
  BY <1>1, <1>2, PaidKeeps
<1>4. QED BY <1>2, <1>3, StruckStops DEF o

LEMMA SlashStops ==
  ASSUME DuelInv, NEW s \in Sides, side[s].shield, NEW t, Slash(Other(s), t)
  PROVE  Stopped(s)
<1> DEFINE o == Other(s)
           p == side[s]
           q == Paid(o, "slash")
           hit == Struck(p, [p EXCEPT !.destroyed = p.destroyed \union {t}])
<1>1. o \in Sides /\ Other(o) = s
  BY SidesAre
<1>2. /\ Affords(o, "slash")
      /\ \E e \in Reaim(q.eyes, hit) : Put(o, [q EXCEPT !.eyes = e], hit)
  BY <1>1 DEF Slash
<1>3. PICK e \in Reaim(q.eyes, hit) : Put(o, [q EXCEPT !.eyes = e], hit)
  BY <1>2
<1>4. q \in FakeSafe /\ q.eyes = side[o].eyes
  BY <1>1, <1>2, PaidKeeps
<1>5. p \in FakeSafe /\ Fits(p)
  BY TwoSides
<1> HIDE DEF q, p, o
<1>6. hit \in FakeSafe /\ Fits(hit)
  <2>1. p.shield
    BY DEF p
  <2>2. hit \in FakeSafe /\ hit = [p EXCEPT !.shield = FALSE]
    BY <1>5, <2>1, BlockedIs
  <2> HIDE DEF hit
  <2>3. hit.guesses = p.guesses /\ hit.rows = p.rows
    BY <1>5, <2>2 DEF FakeSafe
  <2>4. QED BY <1>5, <2>2, <2>3 DEF Fits
<1>7. Len([q EXCEPT !.eyes = e].eyes) = Len(side[o].eyes)
  <2> HIDE DEF hit
  <2>1. QED BY <1>3, <1>4, <1>6, ReaimKeeps
<1>8. QED BY <1>3, <1>7, StruckStops DEF o, p

LEMMA SeeingEyeStops ==
  ASSUME DuelInv, NEW s \in Sides, side[s].shield, SeeingEye(Other(s))
  PROVE  Stopped(s)
<1> DEFINE o == Other(s)
           q == Paid(o, "seeingEye")
<1>1. o \in Sides /\ Other(o) = s
  BY SidesAre
<1>2. Affords(o, "seeingEye") /\ Put(o, q, Struck(side[s], side[s]))
  BY <1>1 DEF SeeingEye
<1>3. q.eyes = side[o].eyes
  BY <1>1, <1>2, PaidKeeps
<1>4. QED BY <1>2, <1>3, StruckStops

LEMMA ReshapeRealityStops ==
  ASSUME DuelInv, NEW s \in Sides, side[s].shield, NEW word, ReshapeReality(Other(s), word)
  PROVE  Stopped(s)
<1> DEFINE o == Other(s)
           p == side[s]
           q == Paid(o, "reshapeReality")
           me == [q EXCEPT !.reshape = {}]
           hit == Struck(p, Rescore(p, word))
<1>1. o \in Sides /\ Other(o) = s
  BY SidesAre
<1>2. /\ "reshapeReality" \in Kit[Class[o]] /\ side[o].energy >= Cost["reshapeReality"]
      /\ \E e \in Reaim(me.eyes, hit) : Put(o, [me EXCEPT !.eyes = e], hit)
  BY <1>1 DEF ReshapeReality
<1>3. PICK e \in Reaim(me.eyes, hit) : Put(o, [me EXCEPT !.eyes = e], hit)
  BY <1>2
<1>4. q \in FakeSafe /\ Calm(side[o], q)
  BY <1>1, <1>2, PaidHit
<1>5. p \in FakeSafe /\ Fits(p) /\ side[o] \in FakeSafe
  BY TwoSides
<1>6. q.eyes = side[o].eyes
  BY <1>5 DEF Paid, FakeSafe
<1> HIDE DEF q, p, o
<1>7. me \in FakeSafe /\ me.eyes = side[o].eyes
  BY <1>4, <1>6 DEF FakeSafe
<1> HIDE DEF me
<1>8. hit \in FakeSafe /\ Fits(hit)
  <2>1. p.shield
    BY DEF p
  <2>2. hit \in FakeSafe /\ hit = [p EXCEPT !.shield = FALSE]
    BY <1>5, <2>1, BlockedIs
  <2> HIDE DEF hit
  <2>3. hit.guesses = p.guesses /\ hit.rows = p.rows
    BY <1>5, <2>2 DEF FakeSafe
  <2>4. QED BY <1>5, <2>2, <2>3 DEF Fits
<1>9. Len([me EXCEPT !.eyes = e].eyes) = Len(side[o].eyes)
  <2> HIDE DEF hit
  <2>1. QED BY <1>3, <1>7, <1>8, ReaimKeeps
<1>10. QED BY <1>3, <1>9, StruckStops DEF o, p

\* Whatever a duelist casts against a shield, it only uses it up
LEMMA HostileStops ==
  ASSUME DuelInv, NEW s \in Sides, side[s].shield, Hostile(Other(s))
  PROVE  Stopped(s)
<1>1. CASE \E t \in (1..MaxRows) \X Positions : Slash(Other(s), t)
  BY <1>1, SlashStops
<1>2. CASE \E t \in (1..MaxRows) \X Positions : Pickpocket(Other(s), t)
  BY <1>2, StrikeStops DEF Pickpocket
<1>3. CASE PommelStrike(Other(s))
  BY <1>3, StrikeStops DEF PommelStrike
<1>4. CASE Cripple(Other(s))
  BY <1>4, StrikeStops DEF Cripple
<1>5. CASE SeeingEye(Other(s))
  BY <1>5, SeeingEyeStops
<1>6. CASE Illusion(Other(s))
  BY <1>6, StrikeStops DEF Illusion
<1>7. CASE Confuse(Other(s))
  BY <1>7, StrikeStops DEF Confuse
<1>8. CASE \E colors \in Fakes : UnderTheirNose(Other(s), colors)
  BY <1>8, StrikeStops DEF UnderTheirNose
<1>9. CASE \E word \in Answers : ReshapeReality(Other(s), word)
  BY <1>9, ReshapeRealityStops
<1>10. QED BY <1>1, <1>2, <1>3, <1>4, <1>5, <1>6, <1>7, <1>8, <1>9 DEF Hostile
\* A step that leaves s and its word alone, and gives its opponent no eye more
LEMMA KeptWhen ==
  ASSUME DuelInv, NEW s \in Sides, side[s].shield, side'[s].shield, side'[s] \in FakeSafe,
         Unhurt(side[s], side'[s]), side'[s].rows >= side[s].rows,
         side'[s].word = side[s].word \/ side'[Other(s)].word # side[Other(s)].word,
         Len(side'[Other(s)].eyes) = Len(side[Other(s)].eyes)
  PROVE  Kept(s)
<1>1. ~Harmed(s)
  BY NotHarmed
<1>2. QED BY <1>1 DEF Kept

LEMMA UnhurtItself ==
  ASSUME NEW p \in FakeSafe
  PROVE  Unhurt(p, p) /\ p.rows >= p.rows
  BY SideTyped DEF Unhurt

\* Whatever the opponent did to itself
LEMMA KeptAlone ==
  ASSUME DuelInv, NEW s \in Sides, side[s].shield, side'[s] = side[s],
         Len(side'[Other(s)].eyes) = Len(side[Other(s)].eyes)
  PROVE  Kept(s)
<1>1. side[s] \in FakeSafe
  BY TwoSides
<1>2. QED BY <1>1, UnhurtItself, KeptWhen

\* ... and to the eyes of s
LEMMA KeptLooking ==
  ASSUME DuelInv, NEW s \in Sides, side[s].shield, NEW e, e \in Seq(Spots),
         side'[s] = [side[s] EXCEPT !.eyes = e],
         Len(side'[Other(s)].eyes) = Len(side[Other(s)].eyes)
  PROVE  Kept(s)
<1> DEFINE p == side[s]
           q == [p EXCEPT !.eyes = e]
<1>1. p \in FakeSafe /\ side'[s] = q
  BY TwoSides
<1>2. p.illusion \in Int /\ p.scrambled \in Int /\ p.rows \in Int
  BY <1>1, SideTyped
<1> HIDE DEF p
<1>3. q \in FakeSafe
  BY <1>1, ZenonT(60) DEF FakeSafe, Spots
<1>4. Unhurt(p, q) /\ q.word = p.word /\ q.rows = p.rows /\ q.shield = p.shield
  BY <1>1, <1>2 DEF FakeSafe, Unhurt
<1>5. /\ side'[s].shield /\ side'[s] \in FakeSafe /\ Unhurt(p, side'[s])
      /\ side'[s].rows >= p.rows /\ side'[s].word = p.word
  <2> HIDE DEF q
  <2>1. p.shield
    BY DEF p
  <2>2. side'[s].shield /\ side'[s] \in FakeSafe /\ Unhurt(p, side'[s]) /\ side'[s].word = p.word
    BY <1>1, <1>3, <1>4, <2>1, Zenon
  <2>3. side'[s].rows = p.rows
    BY <1>1, <1>4, Zenon
  <2>4. QED BY <1>2, <2>2, <2>3
<1>6. QED BY <1>5, KeptWhen DEF p

\* A guess of the opponent meets the shield with its passive, or not at all
LEMMA TheirGuess ==
  ASSUME DuelInv, NEW s \in Sides, side[s].shield, over' = "playing",
         NEW guess \in Strings, DuelGuess(Other(s), guess)
  PROVE  IF HostileGuess(Other(s)) THEN Stopped(s) ELSE Kept(s)
<1> DEFINE o == Other(s)
           p == side[s]
<1>1. o \in Sides /\ Other(o) = s
  BY SidesAre
<1>2. ~End("solved") /\ ~End("outOfGuesses")
  BY DEF End
<1>3. ASSUME NEW q, NEW k, NEW e, Parts(o, q, k, e)
      PROVE  IF HostileGuess(o) THEN Stopped(s) ELSE Kept(s)
  <2>1. /\ SideInv(q) /\ q.eyes = side[o].eyes
        /\ k \in SetOff(Class[o], q, side[o], p)
        /\ e \in AimAll(k[2].eyes, {i \in DOMAIN k[2].eyes : k[2].eyes[i] = Off}, k[1])
        /\ Put(o, k[1], [k[2] EXCEPT !.eyes = e])
    BY <1>1, <1>3 DEF Parts
  <2>2. p \in FakeSafe /\ SideInv(p) /\ q \in FakeSafe /\ Fits(q) /\ Fits(p)
    BY <2>1, TwoSides DEF SideInv
  <2>3. side'[o] = k[1] /\ side'[s] = [k[2] EXCEPT !.eyes = e]
    BY <1>1, <2>1, SidesAre DEF Put
  <2>4. Class[o] \in {"knight", "wizard", "rogue", "cleric"}
    BY <1>1, ClassAssumption DEF Kit
  <2>5. HostileGuess(o) <=> Class[o] # "wizard" /\ side'[o].greens # side[o].greens
    BY <1>1 DEF HostileGuess
  <2> HIDE DEF p, o
  <2>6. CASE Class[o] # "wizard" /\ q.greens # side[o].greens
    <3>1. \E hit : k = <<q, Struck(p, hit)>>
      BY <2>1, <2>4, <2>6 DEF SetOff, Passive
    <3>2. PICK hit : k = <<q, Struck(p, hit)>>
      BY <3>1
    <3>3. k[1] = q /\ k[2] = Struck(p, hit)
      BY <3>2
    <3>4. Struck(p, hit).eyes = p.eyes /\ Struck(p, hit) \in FakeSafe
          /\ [Struck(p, hit) EXCEPT !.eyes = e] = [p EXCEPT !.shield = FALSE, !.eyes = e]
      BY <2>2, BlockedIs DEF p
    <3>5. e \in Seq(Spots)
      <4> DEFINE those == {i \in DOMAIN k[2].eyes : k[2].eyes[i] = Off}
      <4>1. e \in AimAll(p.eyes, those, q)
        BY <2>1, <3>3, <3>4
      <4> HIDE DEF those
      <4>2. Len(p.eyes) \in Nat /\ p.eyes \in [1..Len(p.eyes) -> Spots]
        BY <2>2, EyesTyped
      <4>3. QED BY <2>2, <4>1, <4>2, ReaimLength
    <3>6. Put(o, q, [p EXCEPT !.shield = FALSE, !.eyes = e])
      BY <2>1, <3>3, <3>4
    <3>7. Stopped(s)
      BY <2>1, <3>5, <3>6, StoppedWhen DEF p, o
    <3>8. HostileGuess(o)
      BY <2>3, <2>5, <2>6, <3>3
    <3>9. QED BY <3>7, <3>8
  <2>7. CASE ~(Class[o] # "wizard" /\ q.greens # side[o].greens)
    <3>1. /\ k[2] = p
          /\ k[1] = q \/ \E f \in AimAll(q.eyes, DOMAIN q.eyes, p) : k[1] = [q EXCEPT !.eyes = f]
      <4>1. CASE q.greens = side[o].greens
        <5>1. k = <<q, p>>
          BY <2>1, <4>1 DEF SetOff
        <5>2. QED BY <5>1
      <4>2. CASE q.greens # side[o].greens
        <5>1. k \in {<<[q EXCEPT !.eyes = f], p>> : f \in AimAll(q.eyes, DOMAIN q.eyes, p)}
          BY <2>1, <2>7, <4>2 DEF SetOff, Passive
        <5>2. PICK f \in AimAll(q.eyes, DOMAIN q.eyes, p) : k = <<[q EXCEPT !.eyes = f], p>>
          BY <5>1
        <5>3. QED BY <5>2
      <4>3. QED BY <4>1, <4>2
    <3>2. /\ k[1] \in FakeSafe /\ Fits(k[1]) /\ Len(k[1].eyes) = Len(q.eyes)
          /\ k[1].greens = q.greens
      <4>1. CASE k[1] = q
        BY <2>2, <4>1
      <4>2. ASSUME NEW f \in AimAll(q.eyes, DOMAIN q.eyes, p), k[1] = [q EXCEPT !.eyes = f]
            PROVE  /\ k[1] \in FakeSafe /\ Fits(k[1]) /\ Len(k[1].eyes) = Len(q.eyes)
                   /\ k[1].greens = q.greens
        <5>1. Len([q EXCEPT !.eyes = f].eyes) = Len(q.eyes) /\ [q EXCEPT !.eyes = f] \in FakeSafe
          BY <2>2, LooksElsewhere
        <5>2. /\ [q EXCEPT !.eyes = f].guesses = q.guesses /\ [q EXCEPT !.eyes = f].rows = q.rows
              /\ [q EXCEPT !.eyes = f].greens = q.greens
          BY <2>2 DEF FakeSafe
        <5>3. QED BY <2>2, <4>2, <5>1, <5>2 DEF Fits
      <4>3. QED BY <3>1, <4>1, <4>2
    <3>3. e \in Seq(Spots)
      <4> DEFINE those == {i \in DOMAIN k[2].eyes : k[2].eyes[i] = Off}
      <4>1. e \in AimAll(p.eyes, those, k[1])
        BY <2>1, <3>1
      <4> HIDE DEF those
      <4>2. Len(p.eyes) \in Nat /\ p.eyes \in [1..Len(p.eyes) -> Spots]
        BY <2>2, EyesTyped
      <4>3. QED BY <3>2, <4>1, <4>2, ReaimLength
    <3>4. Kept(s)
      BY <2>1, <2>3, <3>1, <3>2, <3>3, KeptLooking DEF p, o
    <3>5. ~HostileGuess(o)
      BY <2>3, <2>5, <2>7, <3>2
    <3>6. QED BY <3>4, <3>5
  <2>8. QED BY <2>6, <2>7
<1>4. DuelGuess(o, guess)
  OBVIOUS
<1> HIDE DEF o, p
<1>5. \E q, k, e : Parts(o, q, k, e)
  BY <1>1, <1>2, <1>4, GuessParts
<1>6. QED BY <1>3, <1>5 DEF o

LEMMA StruckEyes ==
  ASSUME NEW p \in FakeSafe, NEW hit, hit.eyes = p.eyes
  PROVE  Struck(p, hit).eyes = p.eyes
<1>1. [p EXCEPT !.shield = FALSE].eyes = p.eyes
  BY DEF FakeSafe
<1>2. QED BY <1>1 DEF Struck

\* A guess of one's own: only a knight has a shield
LEMMA OwnGuess ==
  ASSUME DuelInv, NEW s \in Sides, side[s].shield, over' = "playing",
         NEW guess \in Strings, DuelGuess(s, guess)
  PROVE  Kept(s)
<1> DEFINE o == Other(s)
           p == side[o]
<1>1. Class[s] = "knight" /\ p \in FakeSafe
  BY TwoSides
<1>2. ~End("solved") /\ ~End("outOfGuesses")
  BY DEF End
<1>3. ASSUME NEW q, NEW k, NEW e, Parts(s, q, k, e)
      PROVE  Kept(s)
  <2>1. /\ SideInv(q) /\ q.shield = side[s].shield /\ q.rows = side[s].rows
        /\ q.word = side[s].word /\ Unhurt(side[s], q)
        /\ k \in SetOff(Class[s], q, side[s], p)
        /\ e \in AimAll(k[2].eyes, {i \in DOMAIN k[2].eyes : k[2].eyes[i] = Off}, k[1])
        /\ Put(s, k[1], [k[2] EXCEPT !.eyes = e])
    BY <1>3 DEF Parts
  <2>2. q \in FakeSafe /\ Fits(q) /\ side[s] \in FakeSafe
    BY <2>1, TwoSides DEF SideInv
  <2>3. side'[s] = k[1] /\ side'[o] = [k[2] EXCEPT !.eyes = e]
    BY <2>1, SidesAre DEF Put
  <2> DEFINE hit == [p EXCEPT !.stunned = TRUE]
  <2>4. hit \in FakeSafe /\ hit.eyes = p.eyes
    <3> HIDE DEF p
    <3>1. hit \in FakeSafe
      BY <1>1, ZenonT(60) DEF FakeSafe
    <3>2. hit.eyes = p.eyes
      BY <1>1 DEF FakeSafe
    <3> HIDE DEF hit
    <3>3. QED BY <3>1, <3>2
  <2> HIDE DEF p, o
  <2>5. k = <<q, Struck(p, hit)>> \/ k = <<q, p>>
    BY <1>1, <2>1 DEF SetOff, Passive
  <2> HIDE DEF hit
  <2>6. k[1] = q /\ k[2] \in FakeSafe /\ k[2].eyes = p.eyes
    <3>1. Struck(p, hit).eyes = p.eyes
      BY <1>1, <2>4, StruckEyes
    <3>2. Struck(p, hit) \in FakeSafe
      <4>1. CASE p.shield
        BY <1>1, <4>1, BlockedIs
      <4>2. CASE ~p.shield
        BY <2>4, <4>2 DEF Struck
      <4>3. QED BY <4>1, <4>2
    <3>3. QED BY <1>1, <2>5, <3>1, <3>2
  <2>7. Len([k[2] EXCEPT !.eyes = e].eyes) = Len(p.eyes)
    <3> DEFINE those == {i \in DOMAIN k[2].eyes : k[2].eyes[i] = Off}
    <3>1. e \in AimAll(k[2].eyes, those, q)
      BY <2>1, <2>6
    <3> HIDE DEF those
    <3>2. Len([k[2] EXCEPT !.eyes = e].eyes) = Len(k[2].eyes)
      <4> DEFINE h == k[2]
      <4>1. h \in FakeSafe /\ e \in AimAll(h.eyes, those, q)
        BY <2>6, <3>1
      <4> HIDE DEF h
      <4>2. Len([h EXCEPT !.eyes = e].eyes) = Len(h.eyes)
        BY <2>2, <4>1, LooksElsewhere
      <4>3. QED BY <4>2 DEF h
    <3>3. QED BY <2>6, <3>2
  <2>8. q.rows >= side[s].rows
    BY <2>1, <2>2, SideTyped
  <2>9. QED BY <2>1, <2>2, <2>3, <2>6, <2>7, <2>8, KeptWhen DEF p, o
<1>4. QED BY <1>2, <1>3, GuessParts

LEMMA IllusionGuessKeeps ==
  ASSUME DuelInv, DuelInv', NEW s \in Sides, side[s].shield, NEW t \in Sides, NEW right,
         IllusionGuess(t, right)
  PROVE  Kept(s)
<1> DEFINE p == side[t]
           left == IF right THEN 0 ELSE p.illusion - 1
           freed == [p EXCEPT !.illusion = left]
           rest == IF freed.energy < IllusionEnergy THEN 0 ELSE freed.energy - IllusionEnergy
           drained == [freed EXCEPT !.energy = rest]
<1>1. p \in FakeSafe /\ side'[s] \in FakeSafe
  BY TwoSides DEF DuelInv, SideInv
<1>2. p.illusion \in Nat /\ p.illusion > 0 /\ p.scrambled \in Int /\ p.rows \in Int
  BY <1>1, SideTyped DEF IllusionGuess
<1>3. left \in Int /\ left <= p.illusion
  BY <1>2
<1>4. \E q \in {freed, drained} : Put(t, q, side[Other(t)])
  BY DEF IllusionGuess, LoseEnergy
<1>5. PICK q \in {freed, drained} : Put(t, q, side[Other(t)])
  BY <1>4
<1> HIDE DEF left, rest, p
<1>6. /\ Unhurt(p, q) /\ q.word = p.word /\ q.rows >= p.rows /\ q.shield = p.shield
      /\ q.eyes = p.eyes
  <2>1. /\ q.stunned = p.stunned /\ q.silenced = p.silenced /\ q.illusion = left
        /\ q.scrambled = p.scrambled /\ q.destroyed = p.destroyed /\ q.falseNext = p.falseNext
        /\ q.word = p.word /\ q.rows = p.rows /\ q.shield = p.shield /\ q.eyes = p.eyes
    <3>1. CASE q = freed
      BY <1>1, <3>1 DEF FakeSafe
    <3>2. CASE q = drained
      BY <1>1, <3>2 DEF FakeSafe
    <3>3. QED BY <1>5, <3>1, <3>2
  <2>2. QED BY <1>2, <1>3, <2>1 DEF Unhurt
<1> HIDE DEF freed, drained
<1>7. side'[t] = q /\ side'[Other(t)] = side[Other(t)]
  BY <1>5, SidesAre DEF Put
<1>8. CASE s = t
  BY <1>1, <1>6, <1>7, <1>8, KeptWhen DEF p
<1>9. CASE s # t
  <2>1. s = Other(t) /\ Other(s) = t
    BY <1>9, SidesAre
  <2>2. side'[s] = side[s] /\ Len(side'[Other(s)].eyes) = Len(side[Other(s)].eyes)
    BY <1>6, <1>7, <2>1 DEF p
  <2>3. QED BY <2>2, KeptAlone
<1>10. QED BY <1>8, <1>9

\* An ability of the opponent that leaves s and all eyes alone
LEMMA CastAlone ==
  ASSUME DuelInv, NEW s \in Sides, side[s].shield, NEW a, NEW me, Self(Other(s), a, me),
         Paid(Other(s), a) \in FakeSafe => me.eyes = Paid(Other(s), a).eyes
  PROVE  Kept(s)
<1> DEFINE o == Other(s)
<1>1. o \in Sides /\ Other(o) = s
  BY SidesAre
<1>2. Affords(o, a) /\ Put(o, me, side[s])
  BY <1>1 DEF Self
<1>3. me.eyes = side[o].eyes
  BY <1>1, <1>2, PaidKeeps
<1>4. side'[o] = me /\ side'[s] = side[s]
  BY <1>1, <1>2, SidesAre DEF Put
<1>5. QED BY <1>3, <1>4, KeptAlone

LEMMA TheirMend ==
  ASSUME DuelInv, NEW s \in Sides, side[s].shield, NEW row, Mend(Other(s), row)
  PROVE  Kept(s)
<1> DEFINE o == Other(s)
           q == Paid(o, "mend")
           me == TakenBack(q, row)
           p == side[s]
           n == Len(p.eyes)
<1>1. o \in Sides /\ Other(o) = s
  BY SidesAre
<1>2. /\ Affords(o, "mend") /\ row \in DOMAIN side[o].guesses
      /\ \E e \in MendEyes(p.eyes, row, me) : Put(o, me, [p EXCEPT !.eyes = e])
  BY <1>1 DEF Mend
<1>3. PICK e \in MendEyes(p.eyes, row, me) : Put(o, me, [p EXCEPT !.eyes = e])
  BY <1>2
<1>4. /\ SideInv(q) /\ q \in FakeSafe /\ Fits(q) /\ SameBoard(side[o], q) /\ q.eyes = side[o].eyes
      /\ Visible(q) = Visible(side[o])
  BY <1>1, <1>2, PaidHit, PaidKeeps, CalmKeeps, TwoSides DEF Affords, SideInv, Calm
<1>5. p \in FakeSafe /\ Watches(p, side[o])
  BY TwoSides
<1> HIDE DEF q, p, o
<1>6. n \in Nat /\ p.eyes \in [1..n -> Spots] /\ DOMAIN p.eyes = 1..n
  BY <1>5, EyesTyped
<1>7. \A j \in 1..n : p.eyes[j] \in Visible(q) \union {Off}
  BY <1>4, <1>5, <1>6 DEF Watches
<1>8. row \in DOMAIN q.guesses
  BY <1>2, <1>4 DEF SameBoard
<1>9. e \in [1..n -> Spots]
  BY <1>3, <1>4, <1>6, <1>7, <1>8, MendEyesLook
<1>10. me.eyes = q.eyes
  BY <1>4, <1>8, TakenBackInv
<1> HIDE DEF me
<1>11. side'[o] = me /\ side'[s] = [p EXCEPT !.eyes = e]
  BY <1>1, <1>3, SidesAre DEF Put
<1>12. e \in Seq(Spots)
  BY <1>6, <1>9
<1>13. QED BY <1>4, <1>10, <1>11, <1>12, KeptLooking DEF p, o

\* The board under another word
LEMMA RescoreKeeps ==
  ASSUME NEW p \in FakeSafe, NEW word, NEW e
  PROVE  LET q == [Rescore(p, word) EXCEPT !.eyes = e]
         IN  /\ Unhurt(p, q) /\ q.word = word /\ q.rows >= p.rows /\ q.shield = p.shield
             /\ q.eyes = e
<1> DEFINE scored == [p EXCEPT !.word = word,
                               !.guesses = [r \in DOMAIN @ |-> Row(@[r].word, Colors(@[r].word, word))]]
           q == [Rescore(p, word) EXCEPT !.eyes = e]
<1>1. \E g : scored = [p EXCEPT !.word = word, !.guesses = g]
  OBVIOUS
<1>2. PICK g : scored = [p EXCEPT !.word = word, !.guesses = g]
  BY <1>1
<1>3. \E greens, found : Rescore(p, word) = [scored EXCEPT !.greens = greens, !.found = found]
  <2> HIDE DEF scored
  <2>1. \E greens, found : Relearn(scored) = [scored EXCEPT !.greens = greens, !.found = found]
    BY DEF Relearn
  <2>2. QED BY <2>1 DEF Rescore, scored
<1>4. PICK greens, found : Rescore(p, word) = [scored EXCEPT !.greens = greens, !.found = found]
  BY <1>3
<1> HIDE DEF scored
<1>5. q = [p EXCEPT !.word = word, !.guesses = g, !.greens = greens, !.found = found, !.eyes = e]
  BY <1>2, <1>4
<1> HIDE DEF q
<1>6. /\ q.stunned = p.stunned /\ q.silenced = p.silenced /\ q.illusion = p.illusion
      /\ q.scrambled = p.scrambled /\ q.destroyed = p.destroyed /\ q.falseNext = p.falseNext
      /\ q.word = word /\ q.rows = p.rows /\ q.shield = p.shield /\ q.eyes = e
  BY <1>5 DEF FakeSafe
<1>7. p.illusion \in Int /\ p.scrambled \in Int /\ p.rows \in Int
  BY SideTyped
<1>8. QED BY <1>6, <1>7 DEF Unhurt, q

\* A new word for both, whose boards keep what they were otherwise
LEMMA TheirNewWord ==
  ASSUME DuelInv, DuelInv', NEW s \in Sides, side[s].shield, NEW word \in Answers,
         NewWord(Other(s), word)
  PROVE  Kept(s)
<1> DEFINE o == Other(s)
           q == Paid(o, "divineIntervention")
           p == side[s]
           me == Rescore(q, word)
           them == Rescore(p, word)
<1>1. o \in Sides /\ Other(o) = s
  BY SidesAre
<1>2. /\ Affords(o, "divineIntervention")
      /\ \A t \in Sides : word \notin {side[t].word} \union Guesses(side[t])
      /\ \E e \in Reaim(me.eyes, them), f \in Reaim(them.eyes, me) :
            Put(o, [me EXCEPT !.eyes = e], [them EXCEPT !.eyes = f])
  BY <1>1 DEF NewWord
<1>3. PICK e \in Reaim(me.eyes, them), f \in Reaim(them.eyes, me) :
            Put(o, [me EXCEPT !.eyes = e], [them EXCEPT !.eyes = f])
  BY <1>2
<1>4. /\ SideInv(q) /\ q \in FakeSafe /\ q.eyes = side[o].eyes /\ q.guesses = side[o].guesses
  BY <1>1, <1>2, PaidHit, PaidKeeps DEF Affords, Calm, SameBoard, SideInv
<1>5. SideInv(p) /\ p \in FakeSafe /\ side'[s] \in FakeSafe
  BY TwoSides DEF DuelInv, SideInv
<1>6. word \notin Guesses(p) /\ word # side[o].word /\ word \notin Guesses(q)
  <2>1. word \notin Guesses(side[o]) /\ word # side[o].word /\ word \notin Guesses(p)
    BY <1>1, <1>2
  <2> HIDE DEF p, q, o
  <2>2. QED BY <1>4, <2>1 DEF Guesses
<1> HIDE DEF p, q, o
<1>7. /\ me \in FakeSafe /\ Fits(me) /\ me.eyes = q.eyes /\ me.word = word
      /\ them \in FakeSafe /\ Fits(them)
  <2>1. SideInv(me) /\ me.eyes = q.eyes /\ me.word = word
    BY <1>4, <1>6, RescoreInv
  <2>2. SideInv(them)
    BY <1>5, <1>6, RescoreInv
  <2> HIDE DEF me, them
  <2>3. QED BY <2>1, <2>2 DEF SideInv
<1>8. side'[o] = [me EXCEPT !.eyes = e] /\ side'[s] = [them EXCEPT !.eyes = f]
  BY <1>1, <1>3, SidesAre DEF Put
<1>9. [me EXCEPT !.eyes = e].word = word
  <2> HIDE DEF me
  <2>1. QED BY <1>7 DEF FakeSafe
<1>10. /\ Unhurt(p, [them EXCEPT !.eyes = f]) /\ [them EXCEPT !.eyes = f].rows >= p.rows
       /\ [them EXCEPT !.eyes = f].shield = p.shield
  BY <1>5, RescoreKeeps
<1>11. Len([me EXCEPT !.eyes = e].eyes) = Len(me.eyes)
  <2> HIDE DEF me, them
  <2>1. QED BY <1>3, <1>7, ReaimKeeps
<1> HIDE DEF me, them
<1>12. /\ side'[s].shield /\ Unhurt(p, side'[s]) /\ side'[s].rows >= p.rows
  <2>1. p.shield
    BY DEF p
  <2>2. QED BY <1>8, <1>10, <2>1, Zenon
<1>13. side'[o].word # side[o].word /\ Len(side'[o].eyes) = Len(side[o].eyes)
  BY <1>4, <1>6, <1>7, <1>8, <1>9, <1>11
<1>14. QED BY <1>5, <1>12, <1>13, KeptWhen DEF p, o

LEMMA TheirCast ==
  ASSUME DuelInv, DuelInv', NEW s \in Sides, side[s].shield, Cast(Other(s)), ~Hostile(Other(s))
  PROVE  StartOver \/ Kept(s)
<1> DEFINE o == Other(s)
           p == side[s]
<1>1. o \in Sides /\ Other(o) = s /\ p \in FakeSafe
  BY SidesAre, TwoSides
<1>2. CASE ShieldsUp(o)
  <2>1. Self(o, "shieldsUp", [Paid(o, "shieldsUp") EXCEPT !.shield = TRUE])
    BY <1>2 DEF ShieldsUp
  <2>2. ASSUME NEW q \in FakeSafe PROVE [q EXCEPT !.shield = TRUE].eyes = q.eyes
    BY DEF FakeSafe
  <2>3. QED BY <2>1, <2>2, CastAlone
<1>3. CASE Determination(o)
  <2>1. \E n : Self(o, "determination", [Paid(o, "determination") EXCEPT !.rows = n])
    BY <1>3 DEF Determination
  <2>2. ASSUME NEW q \in FakeSafe, NEW n PROVE [q EXCEPT !.rows = n].eyes = q.eyes
    BY DEF FakeSafe
  <2>3. QED BY <2>1, <2>2, CastAlone
<1>4. CASE Scry(o)
  BY <1>4, CastAlone DEF Scry
<1>5. CASE MagicMissile(o)
  <2> DEFINE n == p.missiles + 1
             q == [p EXCEPT !.missiles = n]
  <2>1. Affords(o, "magicMissile") /\ Put(o, Paid(o, "magicMissile"), q)
    BY <1>1, <1>5 DEF MagicMissile
  <2>2. Paid(o, "magicMissile").eyes = side[o].eyes
    BY <1>1, <2>1, PaidKeeps
  <2>3. side'[o] = Paid(o, "magicMissile") /\ side'[s] = q
    BY <1>1, <2>1, SidesAre DEF Put
  <2>4. side'[s] \in FakeSafe
    BY DEF DuelInv, SideInv
  <2>5. p.illusion \in Int /\ p.scrambled \in Int /\ p.rows \in Int
    BY <1>1, SideTyped
  <2>6. Unhurt(p, q) /\ q.word = p.word /\ q.rows >= p.rows /\ q.shield = p.shield
    <3> HIDE DEF p, n
    <3>1. QED BY <1>1, <2>5 DEF FakeSafe, Unhurt
  <2> HIDE DEF q
  <2>7. side'[s].shield
    BY <2>3, <2>6, Zenon
  <2>8. QED BY <2>2, <2>3, <2>4, <2>6, <2>7, KeptWhen
<1>6. CASE OfferReshape(o)
  <2>1. PICK words : Affords(o, "reshapeReality") /\ Put(o, [side[o] EXCEPT !.reshape = words], p)
    BY <1>1, <1>6 DEF OfferReshape
  <2>2. side'[o] = [side[o] EXCEPT !.reshape = words] /\ side'[s] = p
    BY <1>1, <2>1, SidesAre DEF Put
  <2>3. ASSUME NEW q \in FakeSafe PROVE [q EXCEPT !.reshape = words].eyes = q.eyes
    BY DEF FakeSafe
  <2>4. side[o] \in FakeSafe
    BY TwoSides
  <2>5. QED BY <2>2, <2>3, <2>4, KeptAlone
<1>7. CASE Cheat(o)
  <2>1. Self(o, "cheat", [Paid(o, "cheat") EXCEPT !.cheat = TRUE])
    BY <1>7 DEF Cheat
  <2>2. ASSUME NEW q \in FakeSafe PROVE [q EXCEPT !.cheat = TRUE].eyes = q.eyes
    BY DEF FakeSafe
  <2>3. QED BY <2>1, <2>2, CastAlone
<1>8. CASE \E colors \in Fakes : Feint(o, colors)
  <2>1. \E c : Self(o, "feint", [Paid(o, "feint") EXCEPT !.feint = c])
    BY <1>8 DEF Feint
  <2>2. ASSUME NEW q \in FakeSafe, NEW c PROVE [q EXCEPT !.feint = c].eyes = q.eyes
    BY DEF FakeSafe
  <2>3. QED BY <2>1, <2>2, CastAlone
<1>9. CASE \E row \in 1..MaxRows : Mend(o, row)
  BY <1>9, TheirMend
<1>10. CASE Purify(o)
  <2> DEFINE Cleansed(q) == [q EXCEPT !.stunned = FALSE, !.silenced = FALSE,
                  !.keymap = FALSE, !.scrambled = 0, !.falseNext = NoPattern,
                  !.missiles = 0, !.illusion = 0]
  <2>1. Affords(o, "purify") /\ Put(o, Cleansed(Paid(o, "purify")), [p EXCEPT !.eyes = <<>>])
    BY <1>1, <1>10 DEF Purify
  <2>2. ASSUME NEW q \in FakeSafe PROVE Cleansed(q).eyes = q.eyes
    BY DEF FakeSafe
  <2>3. Paid(o, "purify") \in FakeSafe /\ Paid(o, "purify").eyes = side[o].eyes
    BY <1>1, <2>1, PaidKeeps
  <2> HIDE DEF Cleansed
  <2>4. side'[o] = Cleansed(Paid(o, "purify")) /\ side'[s] = [p EXCEPT !.eyes = <<>>]
    BY <1>1, <2>1, SidesAre DEF Put
  <2>5. <<>> \in Seq(Spots)
    OBVIOUS
  <2>6. Cleansed(Paid(o, "purify")).eyes = side[o].eyes
    BY <2>2, <2>3
  <2>7. QED BY <2>4, <2>5, <2>6, KeptLooking
<1>11. CASE CleanSlate(o)
  BY <1>11, FreshSides DEF CleanSlate, StartOver
<1>12. CASE \E word \in Answers : NewWord(o, word)
  BY <1>12, TheirNewWord
<1>13. CASE SuddenDeath(o)
  <2>1. Affords(o, "divineIntervention") /\ side' = [side EXCEPT ![o] = Paid(o, "divineIntervention")]
    BY <1>13 DEF SuddenDeath
  <2>2. side = [t \in Sides |-> side[t]]
    BY DEF DuelInv
  <2>3. side'[o] = Paid(o, "divineIntervention") /\ side'[s] = p
    BY <1>1, <2>1, <2>2, SidesAre
  <2>4. Paid(o, "divineIntervention").eyes = side[o].eyes
    BY <1>1, <2>1, PaidKeeps
  <2>5. QED BY <2>3, <2>4, KeptAlone
<1>14. CASE Revelation(o)
  BY <1>14, CastAlone DEF Revelation
<1>15. CASE Fortune(o)
  <2> DEFINE q == Paid(o, "divineIntervention")
  <2>1. Affords(o, "divineIntervention")
        /\ Put(o, [q EXCEPT !.energy = p.energy], [p EXCEPT !.energy = q.energy])
    BY <1>1, <1>15 DEF Fortune
  <2>2. q \in FakeSafe /\ q.eyes = side[o].eyes
    BY <1>1, <2>1, PaidKeeps
  <2> HIDE DEF q
  <2> DEFINE n == q.energy
             r == [p EXCEPT !.energy = n]
  <2>3. side'[o] = [q EXCEPT !.energy = p.energy] /\ side'[s] = r
    BY <1>1, <2>1, SidesAre DEF Put
  <2>4. [q EXCEPT !.energy = p.energy].eyes = q.eyes
    BY <2>2 DEF FakeSafe
  <2>5. side'[s] \in FakeSafe
    BY DEF DuelInv, SideInv
  <2>6. p.illusion \in Int /\ p.scrambled \in Int /\ p.rows \in Int
    BY <1>1, SideTyped
  <2>7. Unhurt(p, r) /\ r.word = p.word /\ r.rows >= p.rows /\ r.shield = p.shield
    <3> HIDE DEF p, n
    <3>1. QED BY <1>1, <2>6 DEF FakeSafe, Unhurt
  <2> HIDE DEF r
  <2>8. side'[s].shield
    BY <2>3, <2>7, Zenon
  <2>9. QED BY <2>2, <2>3, <2>4, <2>5, <2>7, <2>8, KeptWhen
<1>16. QED
  BY <1>2, <1>3, <1>4, <1>5, <1>6, <1>7, <1>8, <1>9, <1>10, <1>11, <1>12, <1>13, <1>14, <1>15
     DEF Cast, Hostile

\* A knight's strike leaves its own side as it was, the price apart
LEMMA OwnStrike ==
  ASSUME DuelInv, NEW s \in Sides, side[s].shield, NEW a, NEW hit, Strike(s, a, hit),
         side[Other(s)] \in FakeSafe => hit.eyes = side[Other(s)].eyes
  PROVE  Kept(s)
<1> DEFINE o == Other(s)
           q == Paid(s, a)
<1>1. Affords(s, a) /\ Put(s, q, Struck(side[o], hit))
  BY DEF Strike
<1>2. /\ q \in FakeSafe /\ q.rows = side[s].rows /\ q.shield = side[s].shield
      /\ q.word = side[s].word /\ Unhurt(side[s], q)
  BY <1>1, PaidKeeps
<1> HIDE DEF q
<1>3. side'[s] = q /\ side'[o] = Struck(side[o], hit)
  BY <1>1, SidesAre DEF Put
<1>4. Len(Struck(side[o], hit).eyes) = Len(side[o].eyes)
  BY TwoSides, StruckEyes
<1>5. q.rows >= side[s].rows
  BY <1>2, SideTyped
<1>6. QED BY <1>2, <1>3, <1>4, <1>5, KeptWhen

LEMMA OwnSlash ==
  ASSUME DuelInv, DuelInv', NEW s \in Sides, side[s].shield, NEW t, Slash(s, t)
  PROVE  Kept(s)
<1> DEFINE p == side[Other(s)]
           q == Paid(s, "slash")
           destroyed == p.destroyed \union {t}
           hit == Struck(p, [p EXCEPT !.destroyed = destroyed])
<1>1. /\ Affords(s, "slash") /\ t \in Tiles(p)
      /\ \E e \in Reaim(q.eyes, hit) : Put(s, [q EXCEPT !.eyes = e], hit)
  BY DEF Slash
<1>2. PICK e \in Reaim(q.eyes, hit) : Put(s, [q EXCEPT !.eyes = e], hit)
  BY <1>1
<1>3. side'[s] = [q EXCEPT !.eyes = e] /\ side'[Other(s)] = hit
  BY <1>2, SidesAre DEF Put
<1>4. /\ q \in FakeSafe /\ q.rows = side[s].rows /\ q.shield = side[s].shield
      /\ q.word = side[s].word /\ Unhurt(side[s], q)
  BY <1>1, PaidKeeps
<1>5. p \in FakeSafe
  BY TwoSides
<1> HIDE DEF q, p
<1>6. [p EXCEPT !.destroyed = destroyed].eyes = p.eyes
  BY <1>5 DEF FakeSafe
<1>7. Len(hit.eyes) = Len(p.eyes)
  BY <1>5, <1>6, StruckEyes
<1> HIDE DEF hit
<1> DEFINE r == [q EXCEPT !.eyes = e]
<1>8. /\ r.rows = q.rows /\ r.shield = q.shield /\ r.word = q.word
      /\ r.stunned = q.stunned /\ r.silenced = q.silenced /\ r.illusion = q.illusion
      /\ r.scrambled = q.scrambled /\ r.destroyed = q.destroyed /\ r.falseNext = q.falseNext
  BY <1>4 DEF FakeSafe
<1> HIDE DEF r
<1>9. Unhurt(side[s], r)
  BY <1>4, <1>8 DEF Unhurt
<1>10. r.rows >= side[s].rows
  BY <1>4, <1>8, TwoSides, SideTyped
<1>11. side'[s] = r
  BY <1>3 DEF r
<1>12. side'[s] \in FakeSafe
  BY DEF DuelInv, SideInv
<1>13. QED BY <1>3, <1>4, <1>7, <1>8, <1>9, <1>10, <1>11, <1>12, KeptWhen DEF p

\* What a knight casts while its shield is up
LEMMA OwnCast ==
  ASSUME DuelInv, DuelInv', NEW s \in Sides, side[s].shield, Cast(s)
  PROVE  Kept(s)
<1> DEFINE p == side[Other(s)]
<1>1. Class[s] = "knight"
  BY TwoSides
<1>2. /\ ~ShieldsUp(s) /\ ~Scry(s) /\ ~SeeingEye(s) /\ ~MagicMissile(s) /\ ~Illusion(s)
      /\ ~OfferReshape(s) /\ (\A t : ~Pickpocket(s, t)) /\ ~Cheat(s)
      /\ (\A colors : ~Feint(s, colors) /\ ~UnderTheirNose(s, colors)) /\ ~Confuse(s)
      /\ (\A row : ~Mend(s, row)) /\ ~Purify(s) /\ ~CleanSlate(s)
      /\ (\A word : ~NewWord(s, word)) /\ ~SuddenDeath(s) /\ ~Revelation(s) /\ ~Fortune(s)
  BY <1>1 DEF ShieldsUp, Scry, SeeingEye, MagicMissile, Illusion, OfferReshape, Pickpocket, Cheat,
              Feint, UnderTheirNose, Confuse, Mend, Purify, CleanSlate, NewWord, SuddenDeath,
              Revelation, Fortune, Self, Strike, Affords, Kit
<1>3. CASE \E t \in (1..MaxRows) \X Positions : Slash(s, t)
  BY <1>3, OwnSlash
<1>4. CASE Determination(s)
  <2> DEFINE q == Paid(s, "determination")
             n == q.rows + 1
             r == [q EXCEPT !.rows = n]
  <2>1. Affords(s, "determination") /\ Put(s, r, p)
    BY <1>4 DEF Determination, Self
  <2>2. /\ q \in FakeSafe /\ q.rows = side[s].rows /\ q.shield = side[s].shield
        /\ q.word = side[s].word /\ Unhurt(side[s], q)
    BY <2>1, PaidKeeps
  <2>3. q.rows \in Int
    BY <2>2, SideTyped
  <2>4. n \in Int /\ n >= side[s].rows
    BY <2>2, <2>3
  <2>5. side'[s] = r /\ side'[Other(s)] = p
    BY <2>1, SidesAre DEF Put
  <2>6. side'[s] \in FakeSafe
    BY DEF DuelInv, SideInv
  <2> HIDE DEF q, n
  <2>7. /\ r.rows = n /\ r.shield = q.shield /\ r.word = q.word
        /\ r.stunned = q.stunned /\ r.silenced = q.silenced /\ r.illusion = q.illusion
        /\ r.scrambled = q.scrambled /\ r.destroyed = q.destroyed /\ r.falseNext = q.falseNext
    BY <2>2 DEF FakeSafe
  <2> HIDE DEF r
  <2>8. Unhurt(side[s], r)
    BY <2>2, <2>7 DEF Unhurt
  <2>9. QED BY <2>2, <2>4, <2>5, <2>6, <2>7, <2>8, KeptWhen
<1>5. CASE PommelStrike(s)
  <2>1. Strike(s, "pommelStrike", [p EXCEPT !.stunned = TRUE])
    BY <1>5 DEF PommelStrike
  <2>2. ASSUME NEW q \in FakeSafe PROVE [q EXCEPT !.stunned = TRUE].eyes = q.eyes
    BY DEF FakeSafe
  <2>3. QED BY <2>1, <2>2, OwnStrike
<1>6. CASE Cripple(s)
  <2>1. \E n : Strike(s, "cripple", [p EXCEPT !.rows = n])
    BY <1>6 DEF Cripple
  <2>2. ASSUME NEW q \in FakeSafe, NEW n PROVE [q EXCEPT !.rows = n].eyes = q.eyes
    BY DEF FakeSafe
  <2>3. QED BY <2>1, <2>2, OwnStrike
<1>7. QED BY <1>2, <1>3, <1>4, <1>5, <1>6 DEF Cast

\* The missiles that land while the shield is up
LEMMA TickShield ==
  ASSUME DuelInv, NEW s \in Sides, side[s].shield, Tick
  PROVE  IF Landed(s) > 0 THEN StoppedOne(s) ELSE Kept(s)
<1>1. PICK gain \in {0, 1},
           stunOver \in SUBSET {t \in Sides : side[t].stunned},
           silenceOver \in SUBSET {t \in Sides : side[t].silenced},
           landing \in {n \in [Sides -> 0..MaxMissiles] : \A t \in Sides : n[t] <= side[t].missiles},
           moving \in {m \in [Sides -> SUBSET (1..MaxEyes)] :
                         \A t \in Sides : m[t] \subseteq DOMAIN side[t].eyes} :
         /\ \A t \in Sides : side[t].energy + gain <= MaxEnergy
         /\ \E p \in TickSide(side[0], side[1], gain, 0 \in stunOver, 0 \in silenceOver,
                              landing[0], moving[0]),
               q \in TickSide(side[1], side[0], gain, 1 \in stunOver, 1 \in silenceOver,
                              landing[1], moving[1]) :
               Put(0, p, q)
  BY DEF Tick
<1>2. PICK p \in TickSide(side[0], side[1], gain, 0 \in stunOver, 0 \in silenceOver,
                          landing[0], moving[0]),
           q \in TickSide(side[1], side[0], gain, 1 \in stunOver, 1 \in silenceOver,
                          landing[1], moving[1]) :
           Put(0, p, q)
  BY <1>1
<1>3. 0 \in Sides /\ 1 \in Sides /\ Other(0) = 1 /\ s \in {0, 1}
  BY DEF Sides, Other
<1>4. /\ SideInv(side[0]) /\ SideInv(side[1])
      /\ Watches(side[0], side[1]) /\ Watches(side[1], side[0])
  BY <1>3, TwoSides
<1>5. /\ landing[0] \in 0..MaxMissiles /\ landing[0] <= side[0].missiles
      /\ landing[1] \in 0..MaxMissiles /\ landing[1] <= side[1].missiles
      /\ side[0].energy + gain <= MaxEnergy /\ side[1].energy + gain <= MaxEnergy
      /\ (0 \in stunOver) \in BOOLEAN /\ (0 \in silenceOver) \in BOOLEAN
      /\ (1 \in stunOver) \in BOOLEAN /\ (1 \in silenceOver) \in BOOLEAN
  BY <1>1, <1>3
<1>6. Ticked(side[0], p, landing[0])
  BY <1>2, <1>4, <1>5, TickSideTurns, Zenon
<1>7. Ticked(side[1], q, landing[1])
  BY <1>2, <1>4, <1>5, TickSideTurns, Zenon
<1>8. side'[0] = p /\ side'[1] = q
  BY <1>2, <1>3, SidesAre DEF Put
<1>9. \A t \in Sides : Ticked(side[t], side'[t], landing[t]) /\ landing[t] \in 0..MaxMissiles
  BY <1>5, <1>6, <1>7, <1>8 DEF Sides
<1> DEFINE n == landing[s]
<1>10. n \in Nat /\ Ticked(side[s], side'[s], n) /\ Len(side'[Other(s)].eyes) = Len(side[Other(s)].eyes)
  BY <1>9, SidesAre, AmountAssumption DEF Ticked
<1> HIDE DEF n
<1>11. /\ side'[s] \in FakeSafe /\ Unhurt(side[s], side'[s]) /\ side'[s].word = side[s].word
       /\ side'[s].missiles = side[s].missiles - n
       /\ IF n = 0 THEN side'[s].shield /\ side'[s].rows = side[s].rows
          ELSE /\ ~side'[s].shield
               /\ side'[s].rows >= side[s].rows - (n - 1)
               /\ side'[s].energy >= side[s].energy - MissileEnergy * (n - 1)
  BY <1>10 DEF Ticked
<1>12. side[s].missiles \in Int /\ side[s].rows \in Int
  BY TwoSides, SideTyped
<1>13. Landed(s) = n
  BY <1>10, <1>11, <1>12 DEF Landed
<1>14. CASE n = 0
  <2>1. side'[s].shield /\ side'[s].rows >= side[s].rows
    BY <1>11, <1>12, <1>14
  <2>2. Kept(s)
    BY <1>10, <1>11, <2>1, KeptWhen
  <2>3. QED BY <1>13, <1>14, <2>2
<1>15. CASE n # 0
  <2>1. ~Harmed(s)
    BY <1>10, <1>11, NotHarmed
  <2>2. StoppedOne(s)
    BY <1>11, <1>13, <1>15, <2>1 DEF StoppedOne
  <2>3. QED BY <1>10, <1>13, <1>15, <2>2
<1>16. QED BY <1>14, <1>15

-----------------------------------------------------------------------------
(* The specification.                                                       *)

LEMMA InitDuelInv == Init => DuelInv
<1> SUFFICES ASSUME Init PROVE DuelInv
  OBVIOUS
<1>1. PICK w \in Answers : side = [s \in Sides |-> Fresh(w)]
  BY DEF Init
<1>2. \A s \in Sides : SideInv(side[s]) /\ ~Out(side[s]) /\ side[s].eyes = <<>> /\ ~side[s].shield
  BY <1>1, FreshInv
<1>3. side = [s \in Sides |-> side[s]] /\ 0 \in Sides
  BY <1>1 DEF Sides
<1>4. \A s \in Sides : Watches(side[s], side[Other(s)])
  BY <1>2 DEF Watches
<1>5. deadline \in BOOLEAN /\ over = "playing"
  BY DEF Init
<1>6. QED BY <1>2, <1>3, <1>4, <1>5 DEF DuelInv

LEMMA CastStep ==
  ASSUME DuelInv, NEW s \in Sides, Cast(s)
  PROVE  Sound
<1>1. CASE \E t \in (1..MaxRows) \X Positions : Slash(s, t)
  BY <1>1, SlashStep
<1>2. CASE ShieldsUp(s)
  BY <1>2, ShieldsUpStep
<1>3. CASE Determination(s)
  BY <1>3, DeterminationStep
<1>4. CASE PommelStrike(s)
  BY <1>4, PommelStrikeStep
<1>5. CASE Cripple(s)
  BY <1>5, CrippleStep
<1>6. CASE Scry(s)
  BY <1>6, PaidStep DEF Scry
<1>7. CASE SeeingEye(s)
  BY <1>7, SeeingEyeStep
<1>8. CASE MagicMissile(s)
  BY <1>8, MagicMissileStep
<1>9. CASE Illusion(s)
  BY <1>9, IllusionStep
<1>10. CASE OfferReshape(s)
  BY <1>10, OfferReshapeStep
<1>11. CASE \E t \in (1..MaxRows) \X Positions : Pickpocket(s, t)
  BY <1>11, PickpocketStep
<1>12. CASE Cheat(s)
  BY <1>12, CheatStep
<1>13. CASE \E colors \in Fakes : Feint(s, colors)
  BY <1>13, FeintStep
<1>14. CASE \E colors \in Fakes : UnderTheirNose(s, colors)
  BY <1>14, UnderTheirNoseStep
<1>15. CASE Confuse(s)
  BY <1>15, ConfuseStep
<1>16. CASE \E row \in 1..MaxRows : Mend(s, row)
  BY <1>16, MendStep
<1>17. CASE Purify(s)
  BY <1>17, PurifyStep
<1>18. CASE CleanSlate(s)
  BY <1>18, CleanSlateStep
<1>19. CASE \E word \in Answers : NewWord(s, word)
  BY <1>19, NewWordStep
<1>20. CASE SuddenDeath(s)
  BY <1>20, SuddenDeathStep
<1>21. CASE Revelation(s)
  BY <1>21, PaidStep DEF Revelation
<1>22. CASE Fortune(s)
  BY <1>22, FortuneStep
<1>23. QED
  BY <1>1, <1>2, <1>3, <1>4, <1>5, <1>6, <1>7, <1>8, <1>9, <1>10, <1>11, <1>12, <1>13, <1>14,
     <1>15, <1>16, <1>17, <1>18, <1>19, <1>20, <1>21, <1>22 DEF Cast

LEMMA NextSound ==
  ASSUME DuelInv, Next
  PROVE  Sound
<1>1. CASE \E s \in Sides, guess \in Strings : DuelGuess(s, guess)
  BY <1>1, DuelGuessStep
<1>2. CASE \E s \in Sides, right \in BOOLEAN : IllusionGuess(s, right)
  BY <1>2, IllusionGuessStep
<1>3. CASE \E s \in Sides : Resign(s)
  BY <1>3, EndStep DEF Resign
<1>4. CASE \E s \in Sides : Cast(s)
  BY <1>4, CastStep
<1>5. CASE \E s \in Sides, word \in Answers : ReshapeReality(s, word)
  BY <1>5, ReshapeRealityStep
<1>6. CASE Tick
  BY <1>6, TickStep
<1>7. CASE TimeUp
  BY <1>7, EndStep DEF TimeUp
<1>8. QED BY <1>1, <1>2, <1>3, <1>4, <1>5, <1>6, <1>7 DEF Next

LEMMA StutterSound ==
  ASSUME DuelInv, UNCHANGED vars
  PROVE  Sound
<1>1. side' = side /\ deadline' = deadline /\ over' = over
  BY DEF vars
<1>2. DuelInv'
  BY <1>1 DEF DuelInv
<1>3. FoundKept
  BY <1>1 DEF FoundKept
<1>4. QED BY <1>2, <1>3 DEF Sound

\* The invariant that the properties rest on: whatever is cast, answered or due,
\* each side stays well formed, knows what its board shows, and watches only
\* letters that are there.
THEOREM DuelInvAlways == Spec => []DuelInv
<1>1. DuelInv /\ [Next]_vars => DuelInv'
  BY NextSound, StutterSound DEF Sound
<1>2. QED BY <1>1, InitDuelInv, PTL DEF Spec

\* The sides keep their types: no ability, missile or passive takes energy or
\* rows below what a side can have (spend, loseEnergy, landMissile).
THEOREM TypeCorrect == Spec => []DuelTypeOK
<1>1. FakeSafe \subseteq SideType
  BY FakesAssumption DEF FakeSafe, SideType, ValidPattern
<1>2. DuelInv => DuelTypeOK
  BY <1>1 DEF DuelInv, SideInv, DuelTypeOK
<1>3. QED BY <1>2, DuelInvAlways, PTL

\* An eye never points off the opponent's board, at a green letter or at a
\* destroyed one, whatever Slash, Mend, Reshape Reality or a guess did to it.
THEOREM EyesWatchLettersAlways == Spec => []EyesWatchLetters
<1>1. DuelInv => EyesWatchLetters
  BY DEF DuelInv, Watches, EyesWatchLetters
<1>2. QED BY <1>1, DuelInvAlways, PTL

\* A board always shows its guesses in the colors of the word it is after now:
\* no ability leaves a row scored under an old word.
THEOREM BoardMatchesWordAlways == Spec => []BoardMatchesWord
<1>1. DuelInv => BoardMatchesWord
  BY DEF DuelInv, SideInv, BoardInv, Matches, BoardMatchesWord
<1>2. QED BY <1>1, DuelInvAlways, PTL

\* All that a board shows has been learned, so it cannot pay again.
THEOREM BoardIsLearnedAlways == Spec => []BoardIsLearned
<1>1. DuelInv => BoardIsLearned
  BY DEF DuelInv, SideInv, BoardInv, Learned, BoardIsLearned
<1>2. QED BY <1>1, DuelInvAlways, PTL

\* Missiles, Cripple and guesses never leave both sides without a row to use.
THEOREM SomeoneCanFinishAlways == Spec => []SomeoneCanFinish
<1>1. DuelInv => SomeoneCanFinish
  BY DEF DuelInv, SomeoneCanFinish
<1>2. QED BY <1>1, DuelInvAlways, PTL

\* No side has more guesses than rows, however many rows were taken from it.
THEOREM GuessesFitRowsAlways == Spec => []GuessesFitRows
<1>1. DuelInv => GuessesFitRows
  BY DEF DuelInv, SideInv, Fits, GuessesFitRows
<1>2. QED BY <1>1, DuelInvAlways, PTL

\* A keyboard is scrambled exactly as long as guesses of the scramble are left.
THEOREM ScrambleRunsOutAlways == Spec => []ScrambleRunsOut
<1>1. DuelInv => ScrambleRunsOut
  BY DEF DuelInv, SideInv, ScrambleRunsOut
<1>2. QED BY <1>1, DuelInvAlways, PTL

\* Where no Wizard plays, a duel that goes on shows nobody an all green row.  (With
\* one it can: the run ReshapeNeverSolves shows how.)
THEOREM NoUnsolvedGreenRowAlways ==
  ASSUME NoWizard
  PROVE  Spec => []NoUnsolvedGreenRow
<1>1. DuelInv => NoUnsolvedGreenRow
  BY NoWizard DEF DuelInv, SideInv, BoardInv, AllUnsolved, Unsolved, NoUnsolvedGreenRow
<1>2. QED BY <1>1, DuelInvAlways, PTL

\* Greens and found letters are lost only with a word given anew: a guess that
\* Mend takes back pays nothing when it is made again.
THEOREM FoundStaysFoundAlways == Spec => FoundStaysFound
<1>1. DuelInv /\ [Next]_vars => FoundKept
  BY NextSound, StutterSound DEF Sound
<1>2. FoundKept <=> \A s \in Sides : over' = "playing" /\ ~GivenAnew(s) =>
          side[s].greens \subseteq side'[s].greens /\ side[s].found \subseteq side'[s].found
  BY DEF FoundKept
<1>3. QED BY <1>1, <1>2, DuelInvAlways, PTL DEF Spec, FoundStaysFound

\* The body of ShieldStopsOne
OneStopped ==
    \A s \in Sides : side[s].shield /\ over' = "playing" =>
        IF Hostile(Other(s)) \/ HostileGuess(Other(s)) THEN Stopped(s)
        ELSE IF Landed(s) > 0 /\ Tick THEN StoppedOne(s)
        ELSE StartOver \/ Kept(s)

LEMMA ShieldStep ==
  ASSUME DuelInv, [Next]_vars
  PROVE  OneStopped
<1> SUFFICES ASSUME NEW s \in Sides, side[s].shield, over' = "playing"
             PROVE  IF Hostile(Other(s)) \/ HostileGuess(Other(s)) THEN Stopped(s)
                    ELSE IF Landed(s) > 0 /\ Tick THEN StoppedOne(s)
                    ELSE StartOver \/ Kept(s)
  BY DEF OneStopped
<1> DEFINE o == Other(s)
<1>1. DuelInv'
  BY NextSound, StutterSound DEF Sound
<1>2. o \in Sides /\ Other(o) = s /\ \A t \in Sides : t = s \/ t = o
  BY SidesAre
<1>3. CASE Hostile(o)
  BY <1>3, HostileStops
<1>4. CASE HostileGuess(o)
  <2>1. PICK guess \in Strings : DuelGuess(o, guess)
    BY <1>4 DEF HostileGuess
  <2>2. Stopped(s)
    BY <1>4, <2>1, TheirGuess
  <2>3. QED BY <1>4, <2>2
<1>5. CASE Tick /\ ~Hostile(o) /\ ~HostileGuess(o)
  BY <1>5, TickShield
<1>6. CASE ~Tick /\ ~Hostile(o) /\ ~HostileGuess(o)
  <2> SUFFICES StartOver \/ Kept(s)
    BY <1>6
  <2>1. ASSUME NEW t \in Sides, NEW guess \in Strings, DuelGuess(t, guess)
        PROVE  Kept(s)
    <3>1. CASE t = s
      BY <2>1, <3>1, OwnGuess
    <3>2. CASE t = o
      BY <1>6, <2>1, <3>2, TheirGuess
    <3>3. QED BY <1>2, <3>1, <3>2
  <2>2. ASSUME NEW t \in Sides, NEW right \in BOOLEAN, IllusionGuess(t, right)
        PROVE  Kept(s)
    BY <1>1, <2>2, IllusionGuessKeeps
  <2>3. ASSUME NEW t \in Sides, Cast(t)
        PROVE  StartOver \/ Kept(s)
    <3>1. CASE t = s
      BY <1>1, <2>3, <3>1, OwnCast
    <3>2. CASE t = o
      BY <1>1, <1>6, <2>3, <3>2, TheirCast
    <3>3. QED BY <1>2, <3>1, <3>2
  <2>4. ASSUME NEW t \in Sides, NEW word \in Answers, ReshapeReality(t, word)
        PROVE  FALSE
    <3>1. CASE t = s
      <4>1. Class[s] = "knight"
        BY TwoSides
      <4>2. QED BY <2>4, <3>1, <4>1 DEF ReshapeReality, Kit
    <3>2. CASE t = o
      BY <1>6, <2>4, <3>2 DEF Hostile
    <3>3. QED BY <1>2, <3>1, <3>2
  <2>5. ASSUME NEW t \in Sides, Resign(t)
        PROVE  FALSE
    BY <2>5 DEF Resign, End
  <2>6. ~TimeUp
    BY DEF TimeUp, End
  <2>7. CASE UNCHANGED vars
    <3>1. side' = side
      BY <2>7 DEF vars
    <3>2. QED BY <3>1, KeptAlone
  <2>8. QED BY <1>6, <2>1, <2>2, <2>3, <2>4, <2>5, <2>6, <2>7 DEF Next
<1>7. QED BY <1>3, <1>4, <1>5, <1>6

\* Every ability, reshape, passive or missile that reaches a shielded side uses the
\* shield up and does nothing more (hostile, afterGuess, landMissile,
\* World.ReshapeReality), and nothing else takes a shield but Clean Slate.
THEOREM ShieldStopsOneAlways == Spec => ShieldStopsOne
<1>1. DuelInv /\ [Next]_vars => OneStopped
  BY ShieldStep
<1>2. OneStopped <=> \A s \in Sides : side[s].shield /\ over' = "playing" =>
          IF Hostile(Other(s)) \/ HostileGuess(Other(s)) THEN Stopped(s)
          ELSE IF Landed(s) > 0 /\ Tick THEN StoppedOne(s)
          ELSE StartOver \/ (side'[s].shield /\ ~Harmed(s) /\ side'[s].rows >= side[s].rows)
  BY DEF OneStopped, Kept
<1>3. QED BY <1>1, <1>2, DuelInvAlways, PTL DEF Spec, ShieldStopsOne
===============================================================================
