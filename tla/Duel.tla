-------------------------------- MODULE Duel ---------------------------------
(***************************************************************************)
(* One duel: two sides race to solve their word, earn energy and spend it  *)
(* on their class's abilities.  Translated from internal/game/duel.go,     *)
(* abilities.go, rogue.go and cleric.go; prayers, whose answers come back  *)
(* from another goroutine, are left to a module of their own.              *)
(*                                                                         *)
(* Every handler runs on the world goroutine: one action each.  A duelist  *)
(* may send any command at any time, and the tick may find any effect due: *)
(* how long an effect lasts is abstracted to "until some tick".            *)
(*                                                                         *)
(* A handler computes the next value of both sides from the current one,   *)
(* so the helpers below are functions of a side; where the code draws at   *)
(* random (where an eye looks, a new word) they give the set of outcomes.  *)
(***************************************************************************)
EXTENDS Integers, Sequences, FiniteSets

CONSTANTS
    Class,            \* each side's class
    Words,            \* what Score accepts as a guess
    Answers,          \* what NewWord draws from
    Letters,
    Fakes,            \* the colors a client may ask of Feint or Under Their Nose
    MaxGuesses,       \* DuelPuzzle.MaxGuesses
    Cost,             \* each ability's cost
    GreenEnergy, YellowEnergy, MissileEnergy, IllusionEnergy,
    IllusionGuesses, ReshapeOptions, ScrambleGuesses,
    MaxEnergy, MaxRows, MaxEyes, MaxMissiles    \* bounds

Sides == {0, 1}
Other(s) == 1 - s

\* The classes' ability slots
Kit == [knight |-> {"slash", "shieldsUp", "determination", "pommelStrike", "cripple"},
        wizard |-> {"scry", "seeingEye", "magicMissile", "illusion", "reshapeReality"},
        rogue  |-> {"pickpocket", "cheat", "feint", "underTheirNose", "confuse"},
        cleric |-> {"minorPrayer", "mend", "purify", "majorPrayer", "divineIntervention"}]

Abilities == UNION {Kit[c] : c \in DOMAIN Kit}

ASSUME ClassAssumption == Class \in [Sides -> DOMAIN Kit]
ASSUME CostAssumption == Cost \in [Abilities -> Nat \ {0}]

Positions == 1..Len(CHOOSE w \in Words : TRUE)

\* What ScoreAny accepts: any letters, as many as the word has
Strings == [Positions -> Letters]

Patterns == [Positions -> {"grey", "yellow", "green"}]
NoPattern == <<>>
Off == <<0, 0>>     \* an eye that sees no letter

ASSUME WordsAssumption ==
    /\ Answers # {} /\ Answers \subseteq Words
    /\ Words \subseteq Seq(Letters) /\ Words \subseteq Strings
ASSUME FakesAssumption == Fakes \subseteq Patterns

ASSUME AmountAssumption ==
    /\ GreenEnergy \in Nat /\ YellowEnergy \in Nat /\ MissileEnergy \in Nat /\ IllusionEnergy \in Nat
    /\ IllusionGuesses \in Nat \ {0} /\ ScrambleGuesses \in Nat \ {0}
    /\ MaxGuesses \in Nat \ {0} /\ MaxRows \in Nat /\ MaxGuesses <= MaxRows
    /\ MaxEnergy \in Nat /\ MaxEyes \in Nat /\ MaxMissiles \in Nat

VARIABLES
    side,       \* duel.sides
    deadline,   \* whether Sudden Death runs
    over        \* "playing", or why endDuel ended it

vars == <<side, deadline, over>>

-----------------------------------------------------------------------------
(* Guesses *)

\* colorsFor: greens first, then yellows from the left while the word still
\* has the letter to give
Colors(guess, word) ==
    [i \in Positions |->
        IF guess[i] = word[i] THEN "green"
        ELSE LET before == {j \in Positions : j < i /\ guess[j] = guess[i] /\ guess[j] # word[j]}
                 given  == {j \in Positions : word[j] = guess[i] /\ guess[j] # word[j]}
             IN IF Cardinality(before) < Cardinality(given) THEN "yellow" ELSE "grey"]

Solves(colors) == \A i \in Positions : colors[i] = "green"

\* newGuessRow: both players are shown the real colors
Row(word, colors) == [word |-> word, colors |-> colors, seen |-> colors, shown |-> colors]

Unused(p) == p.rows - Len(p.guesses)
Out(p) == Len(p.guesses) >= p.rows
Blocked(p) == p.stunned \/ p.illusion > 0

\* The letters of p's board, and those a Seeing Eye may watch
Tiles(p) == (DOMAIN p.guesses) \X Positions
Visible(p) == {t \in Tiles(p) : p.guesses[t[1]].colors[t[2]] # "green"} \ p.destroyed

Greens(row) == {i \in Positions : row.colors[i] = "green"}
Yellows(row) == {row.word[i] : i \in {j \in Positions : row.colors[j] = "yellow"}}

\* learn: letters found for the first time pay
Learn(p, row) ==
    LET newGreens == Greens(row) \ p.greens
        found == p.found \union {row.word[i] : i \in newGreens}
    IN [p EXCEPT !.greens = @ \union newGreens,
                 !.found = found \union Yellows(row),
                 !.energy = @ + GreenEnergy * Cardinality(newGreens)
                              + YellowEnergy * Cardinality(Yellows(row) \ found)]

\* relearn: what the board alone shows
Relearn(p) ==
    LET rows == {p.guesses[r] : r \in DOMAIN p.guesses}
    IN [p EXCEPT !.greens = UNION {Greens(row) : row \in rows},
                 !.found = UNION {{row.word[i] : i \in Greens(row)} \union Yellows(row) : row \in rows}]

\* a rescore that keeps what was found under the old word
RescoreOnly(p, word) ==
    [p EXCEPT !.word = word,
              !.guesses = [r \in DOMAIN @ |-> Row(@[r].word, Colors(@[r].word, word))]]

\* a rescore that changes the word and leaves the board as it was
RescoreWord(p, word) == Relearn([p EXCEPT !.word = word])

\* rescore: the word changes and every guess is colored again, fakes and all
Rescore(p, word) ==
    Relearn([p EXCEPT !.word = word,
                      !.guesses = [r \in DOMAIN @ |-> Row(@[r].word, Colors(@[r].word, word))]])

-----------------------------------------------------------------------------
(* Effects *)

LoseEnergy(p, n) == [p EXCEPT !.energy = IF @ < n THEN 0 ELSE @ - n]

\* a hostile that leaves the shield up
StruckKept(p, hit) == IF p.shield THEN p ELSE hit

\* hostile: a shield stops one ability and is used up
Struck(p, hit) == IF p.shield THEN [p EXCEPT !.shield = FALSE] ELSE hit

\* a landMissile that may take the last unused row
LandHard(p) == Struck(p, [LoseEnergy(p, MissileEnergy) EXCEPT !.rows = @ - 1])

\* landMissile: energy, and a row if it is not the last
Land(p) ==
    Struck(p, [LoseEnergy(p, MissileEnergy) EXCEPT !.rows = IF Unused(p) >= 2 THEN @ - 1 ELSE @])

LandMany(p, n) ==
    LET after[i \in 0..n] == IF i = 0 THEN p ELSE Land(after[i - 1]) IN after[n]

\* a scramble that does not say for how long
ScrambleKeys(p) == [p EXCEPT !.keymap = TRUE]

\* swapKeys, or Confuse's new keys: for the next ScrambleGuesses guesses
Scramble(p) == [p EXCEPT !.keymap = TRUE, !.scrambled = ScrambleGuesses]

\* aimEye: eye i looks at any letter it may see that no other eye watches, or
\* at none
Aim(eyes, i, target) ==
    LET open == Visible(target) \ {eyes[j] : j \in DOMAIN eyes \ {i}}
    IN IF open = {} THEN {[eyes EXCEPT ![i] = Off]}
                    ELSE {[eyes EXCEPT ![i] = t] : t \in open}

\* The outcomes of re-aiming those of the eyes, in order
AimAll(eyes, those, target) ==
    LET upTo[i \in 0..Len(eyes)] ==
            IF i = 0 THEN {eyes}
            ELSE UNION {IF i \in those THEN Aim(e, i, target) ELSE {e} : e \in upTo[i - 1]}
    IN upTo[Len(eyes)]

\* reaimEyes: eyes whose letter turned green or was destroyed
Reaim(eyes, target) ==
    AimAll(eyes, {i \in DOMAIN eyes : eyes[i] # Off /\ eyes[i] \notin Visible(target)}, target)

\* newSideEffects, with the rest of a fresh duelSide
Fresh(word) ==
    [word |-> word, guesses |-> <<>>, rows |-> MaxGuesses, energy |-> 0,
     greens |-> {}, found |-> {}, stunned |-> FALSE, silenced |-> FALSE, shield |-> FALSE,
     destroyed |-> {}, eyes |-> <<>>, missiles |-> 0, illusion |-> 0, reshape |-> {},
     cheat |-> FALSE, feint |-> NoPattern, falseNext |-> NoPattern,
     keymap |-> FALSE, scrambled |-> 0]

-----------------------------------------------------------------------------

\* startDuel: both sides on the same word
Init ==
    /\ \E w \in Answers : side = [s \in Sides |-> Fresh(w)]
    /\ deadline = FALSE
    /\ over = "playing"

Playing == over = "playing"

Put(s, me, them) ==
    /\ side' = [t \in Sides |-> IF t = s THEN me ELSE them]
    /\ UNCHANGED <<deadline, over>>

\* endDuel: nothing points at the sides any more
End(reason) ==
    /\ over' = reason
    /\ side' = [s \in Sides |-> Fresh(CHOOSE w \in Answers : TRUE)]
    /\ deadline' = FALSE

-----------------------------------------------------------------------------
(* Guessing *)

\* the row of a guess that is not the word, with what Feint and Under Their Nose
\* show for its colors
FakedRow(p, guess, colors) ==
    [Row(guess, colors) EXCEPT !.shown = IF p.feint = NoPattern THEN @ ELSE p.feint,
                               !.seen = IF p.falseNext = NoPattern THEN @ ELSE p.falseNext]

\* DuelGuess up to the append: Cheat, Feint and Under Their Nose are used up,
\* and a scrambled keyboard has one guess less to go
Guessed(p, guess) ==
    [p EXCEPT !.cheat = FALSE, !.feint = NoPattern, !.falseNext = NoPattern,
              !.scrambled = IF @ > 0 THEN @ - 1 ELSE @,
              !.keymap = @ /\ p.scrambled # 1,
              !.guesses = Append(@, FakedRow(p, guess, Colors(guess, p.word)))]

\* the passive of s's class, set off by a new green: outcomes <<me, them>>
Passive(class, me, them) ==
    CASE class = "knight" -> {<<me, Struck(them, [them EXCEPT !.stunned = TRUE])>>}
      [] class = "wizard" ->
            {<<[me EXCEPT !.eyes = e], them>> : e \in AimAll(me.eyes, DOMAIN me.eyes, them)}
      [] class = "rogue"  -> {<<me, Struck(them, Scramble(them))>>}
      [] class = "cleric" -> {<<me, Struck(them, [them EXCEPT !.silenced = TRUE])>>}

\* afterGuess: energy, missiles beaten, the passive, and the opponent's idle
\* eyes look at the new guess
AfterGuess(class, me, them) ==
    LET learned == [Learn(me, me.guesses[Len(me.guesses)]) EXCEPT !.missiles = 0]
        hit == IF learned.greens # me.greens THEN Passive(class, learned, them)
               ELSE {<<learned, them>>}
        idle(p) == {i \in DOMAIN p.eyes : p.eyes[i] = Off}
    IN UNION {{<<h[1], [h[2] EXCEPT !.eyes = e]>> : e \in AimAll(h[2].eyes, idle(h[2]), h[1])} : h \in hit}

\* World.DuelGuess.  Faked colors never hide a solve: the duel ends at once.
DuelGuess(s, guess) ==
    LET me == side[s]  them == side[Other(s)] IN
    /\ Playing /\ ~Out(me) /\ ~Blocked(me)
    /\ guess \in Words \/ me.cheat
    /\ IF Solves(Colors(guess, me.word)) THEN End("solved")
       ELSE IF Out(Guessed(me, guess)) /\ Out(them) THEN End("outOfGuesses")
       ELSE \E h \in AfterGuess(Class[s], Guessed(me, guess), them) :
                h[1].energy <= MaxEnergy /\ Put(s, h[1], h[2])

\* World.IllusionGuess: a guess in the small puzzle, right or wrong
IllusionGuess(s, right) ==
    LET me == side[s]
        failed == ~right /\ me.illusion = 1
        freed == [me EXCEPT !.illusion = IF right THEN 0 ELSE @ - 1]
    IN /\ Playing /\ me.illusion > 0 /\ ~me.stunned
       /\ Put(s, IF failed THEN LoseEnergy(freed, IllusionEnergy) ELSE freed, side[Other(s)])

\* World.ForfeitDuel, and leaveDuels of a player who disconnects
Resign(s) == Playing /\ End("resigned")

-----------------------------------------------------------------------------
(* Casting: what every CastAbility checks, and the price                     *)

\* a CastAbility that lets a duelist run into debt
AffordsAny(s, a) == Playing /\ a \in Kit[Class[s]] /\ ~side[s].silenced

Affords(s, a) ==
    /\ Playing
    /\ a \in Kit[Class[s]]
    /\ ~side[s].silenced
    /\ side[s].energy >= Cost[a]

Paid(s, a) == [side[s] EXCEPT !.energy = @ - Cost[a]]

\* a hostile ability a of s that does hit to the opponent
Strike(s, a, hit) == Affords(s, a) /\ Put(s, Paid(s, a), Struck(side[Other(s)], hit))

\* an ability that only changes the caster, to me
Self(s, a, me) == Affords(s, a) /\ Put(s, me, side[Other(s)])

\* a validPattern that only counts the colors
AnyPattern == Fakes

\* validPattern: not all green, that would be a solve that isn't
ValidPattern == {c \in Fakes : ~Solves(c)}

(* The Knight                                                               *)

Slash(s, t) ==
    LET me == Paid(s, "slash")  them == side[Other(s)]
        hit == Struck(them, [them EXCEPT !.destroyed = @ \union {t}])
    IN /\ Affords(s, "slash")
       /\ t \in Tiles(them) \ them.destroyed
       /\ \E e \in Reaim(me.eyes, hit) : Put(s, [me EXCEPT !.eyes = e], hit)

ShieldsUp(s) ==
    /\ ~side[s].shield
    /\ Self(s, "shieldsUp", [Paid(s, "shieldsUp") EXCEPT !.shield = TRUE])

Determination(s) ==
    /\ side[s].rows < MaxRows
    /\ Self(s, "determination", [Paid(s, "determination") EXCEPT !.rows = @ + 1])

PommelStrike(s) == Strike(s, "pommelStrike", [side[Other(s)] EXCEPT !.stunned = TRUE])

\* a Cripple that may take the last unused row
CrippleLast(s) == Strike(s, "cripple", [side[Other(s)] EXCEPT !.rows = @ - 1])

Cripple(s) ==
    /\ Unused(side[Other(s)]) >= 2
    /\ Strike(s, "cripple", [side[Other(s)] EXCEPT !.rows = @ - 1])

(* The Wizard                                                               *)

Scry(s) == Self(s, "scry", Paid(s, "scry"))

SeeingEye(s) ==
    LET me == Paid(s, "seeingEye")  them == side[Other(s)] IN
    /\ Affords(s, "seeingEye")
    /\ Len(me.eyes) < MaxEyes
    /\ \E e \in Aim(Append(me.eyes, Off), Len(me.eyes) + 1, them) :
          Put(s, IF them.shield THEN me ELSE [me EXCEPT !.eyes = e], Struck(them, them))

\* the shield is checked when it lands
MagicMissile(s) ==
    LET them == side[Other(s)] IN
    /\ Affords(s, "magicMissile")
    /\ them.missiles < MaxMissiles
    /\ Put(s, Paid(s, "magicMissile"), [them EXCEPT !.missiles = @ + 1])

Illusion(s) ==
    /\ side[Other(s)].illusion = 0
    /\ Strike(s, "illusion", [side[Other(s)] EXCEPT !.illusion = IllusionGuesses])

Guesses(p) == {p.guesses[r].word : r \in DOMAIN p.guesses}

\* reshapeOptions: not their word, and nothing they have guessed
Offers(p) == {S \in SUBSET (Answers \ ({p.word} \union Guesses(p))) : Cardinality(S) <= ReshapeOptions}

\* CastAbility of Reshape Reality: pick a word first, it is paid for then
OfferReshape(s) ==
    /\ Affords(s, "reshapeReality")
    /\ \E words \in Offers(side[Other(s)]) :
          Put(s, [side[s] EXCEPT !.reshape = words], side[Other(s)])

\* a ReshapeReality that is paid for when the words are offered
ReshapeUnpaid(s, word) ==
    LET me == [Paid(s, "reshapeReality") EXCEPT !.reshape = {}]
        hit == Struck(side[Other(s)], Rescore(side[Other(s)], word))
    IN /\ Playing /\ "reshapeReality" \in Kit[Class[s]]
       /\ word \in side[s].reshape
       /\ \E e \in Reaim(me.eyes, hit) : Put(s, [me EXCEPT !.eyes = e], hit)

\* a ReshapeReality that asks no shield
ReshapeThrough(s, word) ==
    LET me == [Paid(s, "reshapeReality") EXCEPT !.reshape = {}]
        hit == Rescore(side[Other(s)], word)
    IN /\ Playing /\ "reshapeReality" \in Kit[Class[s]]
       /\ word \in side[s].reshape
       /\ side[s].energy >= Cost["reshapeReality"]
       /\ \E e \in Reaim(me.eyes, hit) : Put(s, [me EXCEPT !.eyes = e], hit)

\* World.ReshapeReality: the picked word becomes the opponent's
ReshapeReality(s, word) ==
    LET me == [Paid(s, "reshapeReality") EXCEPT !.reshape = {}]
        hit == Struck(side[Other(s)], Rescore(side[Other(s)], word))
    IN /\ Playing /\ "reshapeReality" \in Kit[Class[s]]
       /\ word \in side[s].reshape
       /\ side[s].energy >= Cost["reshapeReality"]
       /\ \E e \in Reaim(me.eyes, hit) : Put(s, [me EXCEPT !.eyes = e], hit)

(* The Rogue                                                                *)

\* only what looks yellow to the caster
Pickpocket(s, t) ==
    LET them == side[Other(s)] IN
    /\ t \in Tiles(them) \ them.destroyed
    /\ them.guesses[t[1]].shown[t[2]] = "yellow"
    /\ Strike(s, "pickpocket", them)

Cheat(s) == ~side[s].cheat /\ Self(s, "cheat", [Paid(s, "cheat") EXCEPT !.cheat = TRUE])

Feint(s, colors) ==
    /\ colors \in ValidPattern
    /\ Self(s, "feint", [Paid(s, "feint") EXCEPT !.feint = colors])

UnderTheirNose(s, colors) ==
    /\ colors \in ValidPattern
    /\ Strike(s, "underTheirNose", [side[Other(s)] EXCEPT !.falseNext = colors])

Confuse(s) == Strike(s, "confuse", Scramble(side[Other(s)]))

(* The Cleric                                                               *)

\* a mend that leaves the eyes where they were
MendEyesStay(eyes, row, p) == {eyes}

\* mend's eyes: in order, each follows its letter up, or looks elsewhere if it
\* went.  p is the mended side.
MendEyes(eyes, row, p) ==
    LET upTo[i \in 0..Len(eyes)] ==
            IF i = 0 THEN {eyes}
            ELSE UNION {IF e[i] = Off \/ e[i][1] < row THEN {e}
                        ELSE IF e[i][1] = row THEN Aim(e, i, p)
                        ELSE {[e EXCEPT ![i] = <<e[i][1] - 1, e[i][2]>>]} : e \in upTo[i - 1]}
    IN upTo[Len(eyes)]

\* guesses without one, the later ones a row higher
Without(guesses, row) ==
    [r \in 1..(Len(guesses) - 1) |-> IF r < row THEN guesses[r] ELSE guesses[r + 1]]

\* a mend that forgets the letters only that guess had found
TakenBackForgotten(p, row) ==
    Relearn([p EXCEPT !.guesses = Without(@, row),
                      !.destroyed = {<<IF t[1] > row THEN t[1] - 1 ELSE t[1], t[2]>> :
                                        t \in {u \in @ : u[1] # row}}])

\* mend on the caster: later rows move up, destroyed letters with them
TakenBack(p, row) ==
    [p EXCEPT !.guesses = Without(@, row),
              !.destroyed = {<<IF t[1] > row THEN t[1] - 1 ELSE t[1], t[2]>> :
                                t \in {u \in @ : u[1] # row}}]

Mend(s, row) ==
    LET me == TakenBack(Paid(s, "mend"), row)  them == side[Other(s)] IN
    /\ Affords(s, "mend")
    /\ row \in DOMAIN side[s].guesses
    /\ \E e \in MendEyes(them.eyes, row, me) : Put(s, me, [them EXCEPT !.eyes = e])

Purify(s) ==
    /\ Affords(s, "purify")
    /\ Put(s, [Paid(s, "purify") EXCEPT !.stunned = FALSE, !.silenced = FALSE,
                  !.keymap = FALSE, !.scrambled = 0, !.falseNext = NoPattern,
                  !.missiles = 0, !.illusion = 0],
              [side[Other(s)] EXCEPT !.eyes = <<>>])

\* intervene, FateCleanSlate: both sides start over, on the words they had
CleanSlate(s) ==
    /\ Affords(s, "divineIntervention")
    /\ side' = [t \in Sides |-> Fresh(side[t].word)]
    /\ deadline' = FALSE
    /\ UNCHANGED over

\* FateNewWord: neither's word, and nothing either has guessed.  (The code
\* gives up and keeps side 0's word only when no word is left, which its
\* dictionary never reaches.)
NewWord(s, word) ==
    LET me == Rescore(Paid(s, "divineIntervention"), word)
        them == Rescore(side[Other(s)], word)
    IN /\ Affords(s, "divineIntervention")
       /\ \A t \in Sides : word \notin {side[t].word} \union Guesses(side[t])
       /\ \E e \in Reaim(me.eyes, them), f \in Reaim(them.eyes, me) :
             Put(s, [me EXCEPT !.eyes = e], [them EXCEPT !.eyes = f])

\* FateSuddenDeath: a draw two minutes from now, unless it is sooner already
SuddenDeath(s) ==
    /\ Affords(s, "divineIntervention")
    /\ side' = [side EXCEPT ![s] = Paid(s, "divineIntervention")]
    /\ deadline' = TRUE
    /\ UNCHANGED over

\* FateRevelation only tells both a letter
Revelation(s) == Self(s, "divineIntervention", Paid(s, "divineIntervention"))

\* FateFortune: the energies swap
Fortune(s) ==
    LET me == Paid(s, "divineIntervention")  them == side[Other(s)] IN
    /\ Affords(s, "divineIntervention")
    /\ Put(s, [me EXCEPT !.energy = them.energy], [them EXCEPT !.energy = me.energy])

-----------------------------------------------------------------------------
(* The tick                                                                  *)

\* tickDuels on one side: what is due of its stun, its silence, the missiles
\* flying at it and its eyes' next moves.  The outcomes, after gain energy.
TickSide(p, other, gain, stunOver, silenceOver, landing, moving) ==
    LET worn == [p EXCEPT !.energy = @ + gain, !.stunned = @ /\ ~stunOver,
                          !.silenced = @ /\ ~silenceOver]
        hit == [LandMany(worn, landing) EXCEPT !.missiles = @ - landing]
    IN {[hit EXCEPT !.eyes = e] : e \in AimAll(p.eyes, moving, other)}

\* tickDuels: energy for both, then each side
Tick ==
    /\ Playing
    /\ \E gain \in {0, 1},
          stunOver \in SUBSET {s \in Sides : side[s].stunned},
          silenceOver \in SUBSET {s \in Sides : side[s].silenced},
          landing \in {n \in [Sides -> 0..MaxMissiles] : \A s \in Sides : n[s] <= side[s].missiles},
          moving \in {m \in [Sides -> SUBSET (1..MaxEyes)] :
                        \A s \in Sides : m[s] \subseteq DOMAIN side[s].eyes} :
         /\ \A s \in Sides : side[s].energy + gain <= MaxEnergy
         /\ \E p \in TickSide(side[0], side[1], gain, 0 \in stunOver, 0 \in silenceOver,
                              landing[0], moving[0]),
               q \in TickSide(side[1], side[0], gain, 1 \in stunOver, 1 \in silenceOver,
                              landing[1], moving[1]) :
               Put(0, p, q)

\* tickDuels at the deadline: a draw
TimeUp == Playing /\ deadline /\ End("timeUp")

Cast(s) ==
    \/ \E t \in (1..MaxRows) \X Positions : Slash(s, t)
    \/ ShieldsUp(s)
    \/ Determination(s)
    \/ PommelStrike(s)
    \/ Cripple(s)
    \/ Scry(s)
    \/ SeeingEye(s)
    \/ MagicMissile(s)
    \/ Illusion(s)
    \/ OfferReshape(s)
    \/ \E t \in (1..MaxRows) \X Positions : Pickpocket(s, t)
    \/ Cheat(s)
    \/ \E colors \in Fakes : Feint(s, colors)
    \/ \E colors \in Fakes : UnderTheirNose(s, colors)
    \/ Confuse(s)
    \/ \E row \in 1..MaxRows : Mend(s, row)
    \/ Purify(s)
    \/ CleanSlate(s)
    \/ \E word \in Answers : NewWord(s, word)
    \/ SuddenDeath(s)
    \/ Revelation(s)
    \/ Fortune(s)

Next ==
    \/ \E s \in Sides, guess \in Strings : DuelGuess(s, guess)
    \/ \E s \in Sides, right \in BOOLEAN : IllusionGuess(s, right)
    \/ \E s \in Sides : Resign(s)
    \/ \E s \in Sides : Cast(s)
    \/ \E s \in Sides, word \in Answers : ReshapeReality(s, word)
    \/ Tick
    \/ TimeUp

Spec == Init /\ [][Next]_vars

-----------------------------------------------------------------------------
(* Properties *)

Boards == [word: Strings, colors: Patterns, seen: Patterns, shown: Patterns]

SideType ==
    [word: Answers, guesses: Seq(Boards), rows: 1..MaxRows, energy: 0..MaxEnergy,
     greens: SUBSET Positions, found: SUBSET Letters,
     stunned: BOOLEAN, silenced: BOOLEAN, shield: BOOLEAN,
     destroyed: SUBSET ((1..MaxRows) \X Positions),
     eyes: Seq(((1..MaxRows) \X Positions) \union {Off}),
     missiles: 0..MaxMissiles, illusion: 0..IllusionGuesses, reshape: SUBSET Answers,
     cheat: BOOLEAN, feint: Patterns \union {NoPattern}, falseNext: Patterns \union {NoPattern},
     keymap: BOOLEAN, scrambled: 0..ScrambleGuesses]

\* The sides keep their types; above all, energy is never spent below zero.
DuelTypeOK ==
    /\ side \in [Sides -> SideType]
    /\ deadline \in BOOLEAN
    /\ over \in {"playing", "solved", "outOfGuesses", "resigned", "timeUp"}

\* A Seeing Eye that is on watches a letter that is on the opponent's board, not
\* green and not destroyed, whatever happened to the board since it looked
\* there.  A stale one would make reaimEyes or sendEyes index past the board,
\* a panic in the middle of the world's tick.
EyesWatchLetters ==
    Playing => \A s \in Sides : \A i \in DOMAIN side[s].eyes :
                  side[s].eyes[i] # Off => side[s].eyes[i] \in Visible(side[Other(s)])

\* Every row's real colors are those of the word its side is after now.
BoardMatchesWord ==
    \A s \in Sides : \A r \in DOMAIN side[s].guesses :
        side[s].guesses[r].colors = Colors(side[s].guesses[r].word, side[s].word)

\* Whatever the board shows has been learned, so a letter that is there cannot
\* pay energy a second time.
BoardIsLearned ==
    \A s \in Sides : \A r \in DOMAIN side[s].guesses :
        LET row == side[s].guesses[r] IN
        /\ Greens(row) \subseteq side[s].greens
        /\ {row.word[i] : i \in Greens(row)} \union Yellows(row) \subseteq side[s].found

\* Somebody can always still guess: abilities that take rows never leave both
\* sides waiting for each other to finish.
SomeoneCanFinish == Playing => \E s \in Sides : ~Out(side[s])

\* No side has used more rows than it has.
GuessesFitRows == \A s \in Sides : Len(side[s].guesses) <= side[s].rows

\* While a duel goes on nobody is shown an all green row: a fake never looks
\* like a solve, and a recolored guess never becomes one.
NoUnsolvedGreenRow ==
    Playing => \A s \in Sides : \A r \in DOMAIN side[s].guesses :
                  LET row == side[s].guesses[r] IN
                  ~Solves(row.colors) /\ ~Solves(row.seen) /\ ~Solves(row.shown)

\* A keyboard is scrambled exactly while guesses of the scramble are left,
\* however Confuse, Sneaky and Purify overlap.
ScrambleRunsOut == \A s \in Sides : side[s].keymap <=> side[s].scrambled > 0

\* Clean Slate takes everything from both sides
StartOver == \A s \in Sides : side'[s] = Fresh(side[s].word)

\* An ability of s that hits its opponent
Hostile(s) ==
    \/ \E t \in (1..MaxRows) \X Positions : Slash(s, t) \/ Pickpocket(s, t)
    \/ PommelStrike(s) \/ Cripple(s) \/ SeeingEye(s) \/ Illusion(s) \/ Confuse(s)
    \/ \E colors \in Fakes : UnderTheirNose(s, colors)
    \/ \E word \in Answers : ReshapeReality(s, word)

\* A guess of s that sets off a passive against its opponent
HostileGuess(s) ==
    /\ Class[s] # "wizard" /\ side'[s].greens # side[s].greens
    /\ \E guess \in Strings : DuelGuess(s, guess)

\* How many missiles have landed on s
Landed(s) == side[s].missiles - side'[s].missiles

\* What hostile abilities do to s, or learn of it; only Divine Intervention gives
\* both sides a new word
Harmed(s) ==
    \/ ~side[s].stunned /\ side'[s].stunned
    \/ ~side[s].silenced /\ side'[s].silenced
    \/ side'[s].illusion > side[s].illusion
    \/ side'[s].scrambled > side[s].scrambled
    \/ ~(side'[s].destroyed \subseteq side[s].destroyed)
    \/ side'[s].falseNext \notin {side[s].falseNext, NoPattern}
    \/ side'[s].word # side[s].word /\ side'[Other(s)].word = side[Other(s)].word
    \/ Len(side'[Other(s)].eyes) > Len(side[Other(s)].eyes)

\* All that a hostile ability did was to use up the shield
Stopped(s) ==
    /\ side'[s] = [side[s] EXCEPT !.shield = FALSE, !.eyes = side'[s].eyes]
    /\ ~Harmed(s)

\* Of the missiles that landed one used up the shield, and only the others hit
StoppedOne(s) ==
    /\ ~side'[s].shield /\ ~Harmed(s)
    /\ side'[s].energy >= side[s].energy - MissileEnergy * (Landed(s) - 1)
    /\ side'[s].rows >= side[s].rows - (Landed(s) - 1)

\* A shield stops the first hostile ability, passive or missile that reaches its
\* side, wherever it comes from and whatever is up, and is used up by it; nothing
\* else takes a shield, and nothing gets past it.  A missile meets the shield
\* that is up when it lands, a reshape the one that is up when the word is picked.
\* (Clean Slate clears both sides, and no shield stops Divine Intervention.)
ShieldStopsOne ==
    [][\A s \in Sides : side[s].shield /\ over' = "playing" =>
          IF Hostile(Other(s)) \/ HostileGuess(Other(s)) THEN Stopped(s)
          ELSE IF Landed(s) > 0 /\ Tick THEN StoppedOne(s)
          ELSE StartOver \/ (side'[s].shield /\ ~Harmed(s) /\ side'[s].rows >= side[s].rows)]_vars

\* What was found stays found until the word is given anew, by Reshape Reality or
\* Divine Intervention: taking a guess back and making it again pays nothing.
GivenAnew(s) ==
    \/ side'[s].word # side[s].word
    \/ side[Other(s)].reshape # {} /\ side'[Other(s)].reshape = {}
    \/ StartOver

FoundStaysFound ==
    [][\A s \in Sides : over' = "playing" /\ ~GivenAnew(s) =>
          side[s].greens \subseteq side'[s].greens /\ side[s].found \subseteq side'[s].found]_vars

-----------------------------------------------------------------------------
(* What comments of the code say, and the code does not do                   *)

\* aimEye's comment: an eye looks at a letter "not watched by another eye".
EyesApart ==
    \A s \in Sides : \A i, j \in DOMAIN side[s].eyes :
        side[s].eyes[i] = side[s].eyes[j] => i = j \/ side[s].eyes[i] = Off

\* silencedUntil's comment: "They can't cast abilities until then".  Only Reshape
\* Reality changes the opponent's word and not the caster's.
SilencedCannotReshape ==
    [][\A s \in Sides : over' = "playing" /\ side'[Other(s)].word # side[Other(s)].word
            /\ side'[s].word = side[s].word => ~side[s].silenced]_vars

\* reshapeOptions' comment: "so a reshape never solves it for them".
ReshapeNeverSolves ==
    Playing => \A s \in Sides : \A r \in DOMAIN side[s].guesses :
                  ~Solves(side[s].guesses[r].colors)
=============================================================================
