# nytrpg in TLA+

nytrpg is a multiplayer browser game: players walk one shared world, chat, play a
daily Wordle, and challenge each other to casual or ranked duels, in which both
race to solve a word and spend the energy their guesses earn on the abilities of
their class. A Go server runs the world on a single goroutine; every websocket
has goroutines of its own, and so do the store's writer and the oracle. These
modules model the parts of that server where order, failure and stale state
matter, check them with TLC and prove the main results with TLAPS.

Paths below are relative to `src/`; `PROJECT.json` has the exact lines of every
definition.

## Inventory

| component | code | state | operations | talks to |
|---|---|---|---|---|
| Duel lobby | `internal/game/duel.go`, `world.go` | `World.challenges`, `nextChallenge`, `duels`, `player.duel`, `player.rating` | Challenge, RespondDuel, ForfeitDuel, endDuel, settleRanked, expireChallenges, leaveDuels | the engine (a duel's end), the ranked service (OnRankedDuel), presence (join, leave) |
| Duel engine | `internal/game/duel.go`, `abilities.go`, `rogue.go`, `cleric.go` | two `duelSide`s, the sudden death deadline | DuelGuess, IllusionGuess, CastAbility (20 abilities), ReshapeReality, tickDuels | the lobby, the word list, the oracle |
| Prayers, oracle | `internal/game/cleric.go`, `internal/oracle` | prayer slots, one pending prayer of a duelist | pray, deliverPrayer, refund | a remote model, the engine |
| Ranked service | `internal/ranked/service.go`, `internal/store/ranked.go` | job queue, wake token, `closed`, ratings in SQLite | Record, Load, Recent, Close, run | the world (results), connections (ratings) |
| Rating arithmetic | `internal/ranked/elo.go`, `ladder.go` | none | expected score, change, rank of a rating | the lobby |
| Presence, takeover | `internal/game/presence.go`, `internal/server/server.go` | `presence.online`, `Server.sessions` | takeOver, claim, release, handleWS, join, leave, Shutdown | sessions, the world, the ranked service |
| World loop | `internal/game/world.go`, `handlers.go` | `World.cmds`, `players`, systems | Run, Do, Query, Join, Leave, tick | everything in `internal/game` |
| Movement, grid, replication | `movement.go`, `grid.go`, `replication.go` | entities, cells, the movement allowance, who knows whom, what changed | move, correct, update, spawn/despawn | sessions, the client's picture |
| Chat, profiles | `chat.go`, `profile.go` | none but rate limits | relay | sessions |
| Sessions | `internal/netconn/session.go` | send queue, limiters, the close signal | Serve, Send, Kick, reader, writer, ping | the server, the router |
| Daily Wordle | `internal/puzzles/wordle`, `internal/store/wordle.go` | the day's games in memory, results in SQLite | Start, Guess, leaderboard | the store, characters |
| Characters, accounts | `internal/characters`, `internal/auth` | rows of a database | create, delete, sign up, log in | the store |
| Client | `client/src` | a socket, its backoff, throttles, the drawn world | connect, reconnect, send | the server |
| Store, config, protocol, generators, bots | the rest | tables; none | queries; none | |

What is hard about it:

- *One goroutine, many clients.* A handler is atomic, but a client acts on what it
  was told a while ago: a challenge may be answered when its sender has left, a
  reshaped word picked when the opponent has just guessed it, a row mended that
  an eye is watching. Everything is decided by the order commands and ticks
  arrive in.
- *Boards that change under their effects.* Eyes and destroyed letters are
  coordinates into a list of guesses that Mend shortens, Reshape Reality recolors
  and Clean Slate empties.
- *Connections of one account.* A reconnect must wait for the old connection's
  player to lose the duel it was in and for the result to be queued, so that the
  rating it loads is not stale. The slot is claimed by one goroutine and released
  by another.
- *The service's queue.* The worker and its callers synchronise with a lock and a
  channel of one token, whose steps interleave.
- *Shutdown.* Five things stop in order while the world still runs.
- *Answers from outside.* A prayer is with a remote model for up to half a minute; the
  duel, its words and its energies go on without it.
- *Differences instead of states.* A client is only sent what changed near its player;
  whatever one update leaves out stays wrong on the screen.
- *Memory and database.* The day's guesses are in memory and its result in the
  database: a crash, the turn of the day or a refused insert comes in between.
- *Failures.* Upgrades fail, store accesses fail, waits time out.

The hazards, each with its line and the property that watches it, are the
`hazards` of `PROJECT.json`; one that no property watches says why.

## The modules

| module | models | extends |
|---|---|---|
| `Pairing` | what a lobby promises: members are alone or in mutual pairs, pairs form from two alone and come apart as a whole | |
| `DuelLobby` | challenges, answers, expiry, the start and end of duels, ranked records, join and leave | refines `Pairing` |
| `Duel` | the puzzle of one duel with all four classes | |
| `RankedService` | the job queue and the ratings in the store | |
| `OnlineSlot` | connections, takeover, the world's commands, ranked duels as far as they settle, shutdown | composes `RankedService` |
| `Prayers` | prayers: energy, slots, the goroutines with the Oracle, their commands | |
| `Replication` | the grid, ticks, send queues, reconnects and the pictures of the clients | |
| `DailyWordle` | the daily game, its results, characters, crashes | |
| `Movement` | the movement allowance of one player, and a client that walks | |
| `Elo` | rating changes, margins, stakes, ranks | |
| `MCDuel`, `MCOnline`, `MCPrayers`, `MCReplication`, `MCDailyWordle` | small constants | the module of that name |
| `DuelLobbyProofs`, `OnlineSlotProofs` (also of `RankedService`), `PrayersProofs`, `DailyWordleProofs`, `ReplicationProofs`, `ArithmeticProofs` (of `Movement` and `Elo`), `DuelProofs` | theorems | the module they are about |
| `Loops` | lemmas about loops written as recursive functions | nothing of the project |

### DuelLobby

Each action is one handler on the world goroutine: `Join`, `Leave` (with
`leaveDuels`), `Challenge`, `Respond` (`RespondDuel`), `Forfeit`, `Solve` and
`DrawDuel` (the two ways a puzzle reaches `endDuel` and the tick's deadline),
`ExpireChallenges`. `challenges`, `nextChallenge`, `duels`, `duel` are the World's
and player's fields of those names. `tally` holds wins, losses and draws of a
character's rating; `rankedStarts` is a history, counting what the code does not.
Left out: rating points (they depend on `tally` only through `elo.go`), being in
view of the target (any present player may be challenged, which is more than
the grid allows), rate limits, and all messages, of which no handler reads an
answer.

`MaxChallenges` bounds the ids given out. All challenges wait the same 30
seconds, so those due at a tick are those up to some id: that is what
`ExpireChallenges(id)` says without a clock.

### Duel

The two sides are records with the fields of `duelSide` and `sideEffects`. A
handler computes both sides' next values from the present ones, so the module's
helpers are functions of a side named after the code's (`Learn`, `Relearn`,
`Rescore`, `Land`, `Aim`, `Reaim`, `MendEyes`); where the code draws at random
they return the set of outcomes. One action for each ability and for each
outcome of Divine Intervention, `DuelGuess`, `IllusionGuess`, `ReshapeReality`,
`Resign`, `Tick` and `TimeUp`.

Abstractions: a word is a sequence of letters from a small alphabet (the
colors of a guess are computed as `colorsFor` computes them). Time is "some
tick": a stun, a silence, a missile or an eye's next look may be due at any
tick, which includes every timing the constants of the code could give. The
little puzzle of Illusion is only solved or not by a guess. What a client is
shown is kept where it can differ from the truth (`seen`, `shown`), and
Scry's answer, which changes nothing, is not. Prayers are module `Prayers`.

### RankedService

`queue`, `wake`, `closed`, and the places of `run`: looking (about to lock),
asleep, working, gone. `Enqueue` and `Close` are the critical sections, `Signal` is
the non-blocking send after the unlock: `signals` counts callers between the
two. A rating is the number of games in it, enough to tell a stale rating
from a current one. `Work(ok)` runs a job; a failure of the store is modelled as
the code treats it (a save is dropped for both players, a load returns a new
player's rating), and the characters concerned are remembered in the history
`unsure`.

### OnlineSlot

A connection's goroutine goes `out` → (`kicking` → `waiting` →) `claimed` → `loading` →
`live` → `done`, with the ways out the code has. `online` is `presence.online`, `sessions`
and `kicked` are the server's list and the sessions whose `Kick` was called,
`cmds` are the joins and leaves in the world's command channel, in order.
`Run` executes one: `RunLeave` settles the duel of a leaver, then removes the player
and frees the slot, as `World.Leave` does in one command. The rest of the lobby is
reduced to ranked duels starting (`StartRanked`) and ending (`EndRanked`).
`phase` is the goroutine that shuts down: `StopAccepting`, `KickAll`, `StopWorld`,
`CloseRanked`, `CloseStore`, in the order of `main` and `Server.Shutdown`. `RunReturns` is
the world noticing that its context is done: it may run any number of commands
before, since Go's `select` picks at random. `MayTimeOut` says whether the shutdown's
deadline may pass, which lets each wait end early. `settled` is a history: the
ranked games of each character the world has settled.

### Prayers

`Cast` is what `CastAbility` and `pray` do for a prayer: it is paid for, and given back at
once when the world has no Oracle or no slot is free; else a goroutine of its own goes
`asking` → `sending` → `returning` → `gone`. `Ask` is one answer of the Oracle (an error, which is
also the time-out, a riddle, or a text with the word in it, which `claude.go` asks for again
once), `Do` waits for room in `World.cmds`, `Return` frees the slot, and `Run` executes the command
(`Answered`), in whatever state the duel is by then. Around it the duel is reduced to what
an answer may come too late for: `ChangeWords` (New Word, Reshape Reality), energy that
is earned, lost, wiped and swapped, `EndDuel`, `StartDuel` between the same two players. When
these happen is left open, which is more than the abilities allow. `gained` is a history: what
a side came by, apart from prayers.

### Replication

`players`, `ent`, `known` are the World's and the player's fields, with `moved`, `eloChanged` and `cell` in
the entity. `Tick` is one `replicate`: an update for each player, computed and queued as the
code does, then the flags are cleared. `sess` is the session's send queue; `Sent` closes a
session whose queue is full, in the middle of the tick. `Deliver` is the writer and the client's
handler: `Applied` is `applyWorldUpdate`, and a welcome empties the picture. A client whose
session ended keeps its picture; `Leave` is its reader's end, and it may `Join` again with a new
entity. Any move is possible here (what may be asked for is module `Movement`), and the
entities' names and classes, which never change, are left out. The lists in an update are
sets: an entity is in each at most once.

### DailyWordle

One action for each handler or critical section: `StartAsked` and `Start` are the two halves of
`Service.start` (the store is asked, then the session is looked up under the lock, and the day may
turn in between); `Guess` is `sessions.guess` under its lock, `Insert` and `Tell` are what follows without
it. `ColorsFor` is `colorsFor` step by step. `Restart` is a crash or a stop: memory is gone, the
tables stay. An account has one connection at a time, which is what `OnlineSlot`
shows, and that connection handles one message at a time. `told`, `made` and `failed` are
histories. A guess that is not guessable changes nothing and is left out; an error of the
store where a handler only reads is treated by the code as "played" and changes nothing either.

### Movement and Elo

These two have no run of their own: their numbers are unbounded and what
matters about them is proved. `Movement` is `moveBudget` with time in milliseconds and distance
measured in the time it takes at the fastest lasting speed; `Accept` and `Correct` are the two ways
through `World.Move`, `Walk` is the client and the network. `Elo` is `elo.go` and `ladder.go` over
thousandths; what `Expected` gives is any chance strictly between 0 and 1. In floating point
it is exactly 1 for ratings more than some 6000 points apart, where the favourite would lose
the point a win moves; no ladder comes near that.

## What the runs check

Every property is preceded in its module by what it says of the code.

| run | instance | shows |
|---|---|---|
| `lobby` | 3 players, 4 challenges; 39 thousand states | pending challenges can always be accepted, one per sender, ids not reused; duels are mutual; every ranked duel counts once, also for one who leaves (and loses); a challenge does not wait forever; `DuelLobby` implements `Pairing` |
| `knight_wizard` | knight against wizard, 1 energy, 2 rows, 2 missiles; 244 thousand states | energy never below zero, nor that of a reshape paid for when its word is picked; abilities that take rows never leave both sides without one and take none that is used; Illusion, Seeing Eyes, reshapes and missiles use a shield up and do nothing more, of two missiles in one tick the second hits |
| `rogue_cleric` | rogue against cleric, 2 energy, 2 rows; 469 thousand states | no unsolved all-green row is ever shown, a keyboard is scrambled exactly as long as the scramble has guesses left |
| `wizard_cleric` | wizard against cleric, 2 eyes, 2 words to draw; 366 thousand states | eyes watch letters that are there through Mend, Clean Slate, Reshape and New Word; boards have the colors of the present word; what was found is remembered, so that a letter cannot pay twice |
| `online` | 2 accounts, 3 connections (two of one account), 1 game each; 615 thousand states | the slot is held exactly once and never leaks, one player per account, the rating loaded includes every settled game, no lost wakeup, a kicked session does leave, results settled before `Close` reach the store |
| `prayers` | 2 clerics, 2 words, 1 slot, a queue of 1, 2 prayers, 2 duels; 801 thousand states | energy is accounted for whatever happens in between, slots are held by goroutines only, an answer reaches the duel and word it is about or nobody, every prayer ends |
| `replication` | 2 clients, 1 of whom moves and plays, 3 places in cells of 2, queue of 2, 3 entities; 381 thousand states | what is queued adds up to what was in view at the last tick; pictures become true when the world rests; queues stay bounded |
| `daily` | 1 account, 2 days, 2 characters, 3-letter words over {a, b}, 3 guesses; 2.4 million states | colors against a definition by counting, no second result or guess, what was told is kept, wins stay listed |
| `eyes_apart`, `silenced_reshape`, `reshape_solves`, `shutdown_result` | the instances of `wizard_cleric` and, without time-outs, `online` | violations: see Findings |

Why the bounds are enough to reach the interesting cases:

- *lobby*: a third player is needed for a challenge to be crossed by a duel with
  somebody else, or by two challenges to one target; four challenges let each
  player be replaced by a re-challenge and still accept one. Ranked and casual
  both occur, and a player can leave and join again.
- *duels*: words of two letters over {a, b} with a repeated letter (aa) have every
  combination of the three colors but all yellow and green; two rows let one
  guess be mended while another stays, and let both sides run out; two eyes let
  them compete for a letter; a cost of 1 and up to 2 energy let abilities be cast
  one after another and run short (1 in `wizard_cleric`, whose two eyes make it the
  largest board, with `YellowEnergy` 0 so that the bound cuts fewer guesses off, and in `knight_wizard`, whose
  second missile makes up for it: two are the fewest of which a shield stops one and one hits). What rogues,
  clerics and other knights do to a shield, their passives included, and Clean Slate, is left to the proof of
  `ShieldStopsOne`, which is for all classes. The bounds `MaxEnergy`, `MaxRows`, `MaxEyes`,
  `MaxMissiles` are guards named in the module. The pairings put
  against each other what interferes: rows taken and given, fakes and scrambles
  against Mend and Purify, eyes against Mend and new words.
- *online*: three connections suffice for a takeover, its wait to time out, and a
  duel against somebody who stays; one game already tells a stale rating from
  a current one. Three connections of one account are covered by the proof of
  `SlotHeldOnce`, which is for any number.

- *prayers*: one slot and a queue of one make both contended by two prayers: one may be refused, or wait
  to hand on its answer while the other's is still in the queue. But with one slot only one prayer is with
  the Oracle at a time; two at once are covered by the proofs, for any number of slots, and `EveryPrayerSettles` is checked
  with one slot only (with two there are 2.3 million states, too many for a liveness property). Two
  duels let an answer of the first come in the second; two words let one change
  and change back; the costs differ so that a refund of the wrong price shows.
  Symmetry is not used, for the sake of the liveness property.
- *replication*: of three places two are in one cell and one two cells away, so
  that an entity moves in view, out of it and comes back; three entities let one client
  come back once; a queue of two is overrun by a welcome and two updates.
  One client that moves and one that watches is enough for either to lag or leave.
- *daily*: words of three letters over {a, b} repeat letters in word and guess, in all ways;
  two days let a game outlive its day, two characters let one be deleted while it
  plays and another go on. The account is one, since accounts share only the
  tables, where each has its own rows; the proofs are for any number.

`CHECK_DEADLOCK FALSE` in the duel, online and prayers runs: a duel that is over stops, so does a
server that was shut down, and so do clerics who have had their prayers and duels. The others
never stop, and their runs check it.

`StoreFails` is FALSE in `online`: with failing stores on top of time-outs the graph
of 2.4 million states is too large for the liveness properties. The safety
properties that depend on it except `unsure` characters by name, and the proofs
hold for either value.

### Fairness

- `DuelLobby`: weak fairness of `ExpireChallenges(id)` for each id: `Run`'s ticker fires as long
  as the world runs, and the wait is a fixed time. No player has to act.
- `OnlineSlot`: weak fairness of the worker and of the callers' pokes (runnable
  goroutines), of `Run` while the world runs (a command in the channel keeps
  its `select` ready; the ticker and it are picked at random, so neither is
  starved), and of a connection's own next steps: a claimed slot is upgraded or
  fails (the HTTP server's time-outs), an answered `Load` is followed by the join,
  and a kicked session ends (the close signal ends reader and writer). Nobody is
  assumed to hang up, start or finish a duel, or shut the server down; hence
  `KickedLeaves` and `ResultsReachStore` except what happens once the world or the
  service has been stopped.
- `Prayers`: weak fairness of `Run` and of each prayer's goroutine: a call to the Oracle ends by itself
  or with its context after `PrayerTimeout`, and the world takes commands as above. Nobody has
  to play: duels may go on or end, words and energy change or not.
- `Replication`: weak fairness of `Tick` (the ticker), of `Leave` for a session that is closed (its
  reader fails and `Serve` returns) and of a queue that is not empty: its head is written
  and handled, or the write fails and the session ends (`writeWait`). That the world comes
  to rest is an assumption of `PicturesSettle`, not of the specification.
- `Duel` and `DailyWordle` have no fairness: no player ever has to act, and all their properties are safety.

### Findings

Four places where the code does something else than its comments say; each is a
run that TLC finds violated.

1. `eyes_apart`: two Seeing Eyes can watch one letter after Mend (`cleric.go` `mend`: an
   eye is re-aimed while the eyes after it still have their old coordinates;
   `aimEye`'s comment says otherwise). Their owner just learns less.
2. `silenced_reshape`: `ReshapeReality` does not look at `silencedUntil`, so a wizard silenced
   after the words were offered still casts.
3. `reshape_solves`: the offered words are compared with the opponent's guesses when
   offered and not when picked; a guess in between can be picked, is recolored
   all green, and the duel goes on.
4. `shutdown_result`: `stopWorld` only cancels a context; the world may settle one more ranked
   duel after `ranked.Close` has drained the queue, and its result is lost, against
   the comments of `Close` and `Shutdown`.

## What is proved

TLAPS checks these for all values of the constants; the assumptions are the
named `ASSUME`s of the modules, which give constants their types, and say that
`NoDuel` is not a duel, `None` is not a session, a duel's words and the daily words are sequences of letters, all as
long as each other, a duel starts with no more rows than the bound on them, and that there is a
place to spawn at and a rating to start with.

*DuelLobbyProofs.* `TypeCorrect`. Then `LobbyInv`, the inductive invariant: `TypeOK`,
`ChallengesAcceptable`, `OnePendingPerSender` and `DuelsMutual` need each other. That accepting a
challenge is always possible needs that a player's challenges are dropped when a duel starts or
the player leaves, and that a duel's two players are present; that `DuelsMutual` survives
`StartDuel` needs that both were free, which is `ChallengesAcceptable` or the test of `Respond`. Lemmas
about `EndDuel` and `StartDuel` carry the five actions that end a duel.
`RankedCountsOnce` adds `RankedSettledOnce` to it, `LeavingLoses` is an action property from
it, and `LobbyImplementsPairing` maps every step of the lobby to a step of `Pairing` or to a
stutter.

*OnlineSlotProofs.* First the service alone, whoever its callers are. `WorkerNeverStranded` is inductive once the
token's and the worker's types are added (`WakeInv`): the only steps that make its left side true append a job or set
`closed`, and both leave a poke pending; the only one that takes the token wakes
the worker. `ServiceTyped` is its type invariant; `ServerNeverStrandsWorker` carries the wakeup over to the server,
whose every step is for the service one of its own or the queueing of a job.
`SlotHeldOnce` is not inductive: the world frees the slot when it runs a
leave, so one has to know that this leave is the connection's last command,
that it finds its player (else the slot leaks), and that a connection on its
way in has neither. `SlotInv` adds these (`NotYetIn`, `LeavesLast`, `LeavesFind`, `LiveIsIn`), as facts
about the order in `cmds`. `AccountPlaysOnce` follows.
`RatingIsCurrent` is about what is under way between the world and the store: `Line` is the job at work and the
queue behind it. `RateInv` says that the last result of a character in the line, or the store if there is none,
has every settled game (`SavesCurrent`); that no result of a character comes after a load of it (`LoadsLast`);
and that what a load answered is still current while its connection has not joined (`AnswersCurrent`). The last two hold since
whoever is loading holds the slot, so that nobody else of the account has a player who could finish a game: that is `SlotHeldOnce` again,
through `OneHolder`. `JoinsOnce` and `DuelsApart` (a duel is two present players of no other duel) complete it.
`OnlineTyped` falls out. Store failures are in the proofs: the characters in `unsure` are left out one by one.

*PrayersProofs.* `PrayInv` adds two things to the types and `SlotsHeld`: a prayer whose goroutine has
still to hand on an answer is pending, and that answer does not give the word away
(`Unanswered`); a command in the queue is the only one of its prayer, which is pending
(`QueuedOnce`). Without them nothing would say that `Run` finds its prayer unanswered.
`HeardOnce` then follows for `Run`, and no other action but `Cast` touches `told`. `SlotsHeld` counts the
goroutines: a step of one of them changes the set by one, and the lemmas on
finite sets do the rest. `EnergyAlwaysAccounted` adds `EnergyAccounted` itself to `PrayInv` (`EnergyInv`). What a side has paid for and
not heard of is a sum over the prayers, `Total`; what an action does to it is said by lemmas: one more prayer
adds its price (`TotalAppend`), one that changes from unanswered to answered takes it out (`TotalChanges`), and all others leave
it. Hence a refund and the end of a pending prayer move the same amount in both sides of the equation,
and a duel that ends takes both with it.

*DailyWordleProofs.* `DailyInv` has the named parts of the type invariant and `OwnCharacters` (an account plays and
has results under characters of its own, through their deletion), `Counted` (a session has the
guesses made at its day's word and there are none at later words), `StoredBeforeTold`, `ResultIsFirst`
and `ToldIsKept`. `ResultIsFirst` needs that a result is looked for under the lock before the guess
that ends the game; `GuessesNotReset` and `WinsAreListed` are consequences, and `NoGuessAfterEnd` is an action property
from `ToldIsKept`: what was told is in the table, and then `played` stops the guess.
`ColorsForRight` is about the loop of `colorsFor`: `GoodAfter` holds after every pass (a letter counted is a letter colored and never more than
the word has; one still grey where the loop has been has none left; no yellow has the same letter grey to its left),
and after the last one it is the definition by counting. `ColorsAlwaysRight` then needs only that a session's guesses and colors
are appended together.

*ReplicationProofs.* `SceneReached` says that a client's picture, with all queued messages applied to it in order, is the
scene of the last tick. `SceneInv` adds the types (`ReplTypes`), that no two players have one entity and each is in the cell it is at
(`EntitiesApart`), and what makes sending differences right: `known` is what the last scene shows, and an entity in it whose
flag is not set is as it was there (`ChangesMarked`), so that what `replicate` skips did not change. `UpdateReaches`
is the heart: the update computed for a player turns the old scene into the new one. `ReadAppend` and `ReadTail` say that
a message queued is read last and one delivered was read first, so `Tick` and `Deliver` go through whatever the length of the queue;
a session whose queue was full is closed, and nothing is claimed of it any more.

*ArithmeticProofs.* Of `Movement`: `MoveInv`: what was travelled since the mark, and what is available now, are together at most
the time since then and a bank (hence `SpeedLimit`); and an honest client's backlog is available to it (hence
`HonestNeverCorrected`: its next move is no longer than its backlog). The second holds since the allowance fills 5/4
as fast as the client walks; while the bank is full, the backlog is below it by the assumption on
the network. Half a bank at the start suffices.
Of `Elo`: lemmas about rounding (monotone, odd, bounded, keeps signs) and about products carry four
theorems: `SettleKeepsRatings`, `WinnerTakesPoints` ("zero-sum" between equal K's, with the exception at
the floor of 0 spelled out), `StakesHold` (the change of a decisive duel is within the stakes shown
before it) and `RanksInOrder`. Chances and multipliers are thousandths, so the real numbers in between
are not covered.

*DuelProofs.* Every property that is checked of `Duel` is proved, the two action properties included, for any
two classes, words, prices, amounts and bounds. `DuelInv` says of each side: its record has its type, and no fake
solves (`FakeSafe`); its guesses fit its rows; every row has the colors of the present word (`Matches`), and what
the rows show is remembered (`Learned`); a place known to be green has its letter among those
found (`GreensFound`: why a green that is paid for once is not paid for again); the keyboard is scrambled exactly while
guesses of the scramble are left. Of the two together: each one's eyes are on letters of the other's
board (`Watches`), only a knight has a shield, and one of them still has a row. Eyes are what ties the sides to each other: `Watches`
survives a step since the helpers that shorten, destroy or recolor a board return the other side's eyes re-aimed
or shut, which lemmas about `Aim`, `Reaim` and `MendEyes` say. A step then is one of a few shapes (`Calm`:
neither board changes; `Hit` and `Struck`: one side is done something to, perhaps over its shield; `TurnedStep`: eyes move),
each with a lemma, and `Tick`, `Rescore` and the answers of `Learn` have their own.
`NoUnsolvedGreenRow` is proved for a duel without a wizard: with one the code does not keep it, which is
finding 3.

`ShieldStopsOneAlways` needs the whole of that invariant (that only a knight has a shield, above all, and `Watches` for a mend under an eye) and
goes through every step from the shielded side's point of view. Either the step is hostile (an ability,
a picked reshape, a guess that sets off a passive): then it goes through `Struck`, and all that is left of it is
the shield gone and idle eyes of the shielded side that may have looked elsewhere (`StoppedWhen`). Or missiles land in a tick: `Withstood` is kept
by each of them (`LandAgain`), the first takes the shield and each other one row and `MissileEnergy` at most. Or it is
neither: then the shield is still up and nothing of `Harmed` happened (`Kept`), but for Clean Slate, which takes everything from both
sides. Fortune swaps energies and New Word changes both words over a shield: the code asks no shield there.

*Loops.* The code loops over rows, positions, eyes, letters, prayers and messages, which the modules write as recursive functions of the
number of passes. What such a loop computes is proved from the least number on which it would
fail, since the induction theorems of the library cannot be instantiated here: `StagesExist` (the function is defined), `StagesHold` (what each
pass keeps holds at the end) and `SameStages` (two loops that do the same agree).

Only model-checked: all liveness (`EveryChallengeCloses`, `KickedLeaves`, `ResultsReachStore`, `EveryPrayerSettles`, `PicturesSettle`), which
is out of the prover's reach. Every invariant and every action property that a passing run checks is proved
(`NoUnsolvedGreenRow`, as it is checked, without a wizard).

## What is not modelled, and the plan

Next, in this order:

1. The client: reconnecting with backoff, not after it was replaced; its throttles; a
   correction that crosses moves in flight (`client/src/game.ts` 325).
2. The session's rate limits and flood limit.

Left out for good: passwords and tokens, SQL and migrations, reading the configuration, generated
code, drawing and the DOM, and the bots: library calls, I/O or no state of their own. Chat and
profiles only relay. Panics in a command are not modelled.

## Running it

    tlc -config DuelLobby.cfg DuelLobby
    tlc -config KnightWizard.cfg MCDuel
    tlc -config RogueCleric.cfg MCDuel
    tlc -config WizardCleric.cfg MCDuel
    tlc -config Online.cfg MCOnline
    tlc -config Prayers.cfg MCPrayers
    tlc -config Replication.cfg MCReplication
    tlc -config DailyWordle.cfg MCDailyWordle
    tlapm DuelLobbyProofs.tla

and so on for the other modules of proofs.

`runs` in `PROJECT.json` lists every run with its configuration and `mutants` a plausible bug for
each property that the property catches.
