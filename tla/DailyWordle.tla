------------------------------ MODULE DailyWordle ------------------------------
(***************************************************************************)
(* The daily Wordle, one game a day for each account, and the characters   *)
(* it is played with.  Translated from internal/puzzles/wordle (game.go,   *)
(* service.go), internal/store (wordle.go, characters.go),                 *)
(* internal/characters and server.go (handleWS).                           *)
(*                                                                         *)
(* The sessions are only in memory, the results and the characters in the  *)
(* database.  A connection handles one message at a time, and an account   *)
(* has one connection (module OnlineSlot), so each account is at one point *)
(* of one handler; the requests that create and delete characters, the     *)
(* turn of the day and a crash of the server come in between its steps.    *)
(***************************************************************************)
EXTENDS Integers, Sequences, FiniteSets

CONSTANTS
    Accounts,
    Letters,
    WordOf,             \* Words.For: the word of each day
    Guessable,          \* the words that may be guessed
    GuessesAllowed,
    Slots,              \* 0 .. CharacterSlots - 1
    None,
    MaxDays, MaxChars   \* bounds

Days == 1..MaxDays
Positions == 1..Len(WordOf[1])
Strings == [Positions -> Letters]

ASSUME DailyAssumption ==
    /\ MaxDays \in Nat \ {0} /\ MaxChars \in Nat
    /\ WordOf \in [Days -> Guessable]
    /\ Guessable \subseteq Strings /\ Guessable \subseteq Seq(Letters)
    /\ GuessesAllowed \in Nat \ {0}

VARIABLES
    today,      \* gameday.Today
    session,    \* each account's session, or None
    results,    \* the table Wordle
    chars,      \* the table Character, by id
    pc,         \* where each account's connection is
    playing,    \* the character it plays
    finished,   \* the result its handler has to insert and tell of
    told,       \* what the account was told of each day's game (a history)
    made,       \* the guesses it made at each day's word since the server
                \* started (a history)
    failed      \* the games whose result the store refused (a history)

memory == <<session, pc, playing, finished>>
histories == <<told, made, failed>>
vars == <<today, memory, results, chars, histories>>

Ids == DOMAIN chars
NoGuesses == [a \in Accounts |-> [d \in Days |-> 0]]

Init ==
    /\ today = 1
    /\ session = [a \in Accounts |-> None]
    /\ pc = [a \in Accounts |-> "out"]
    /\ playing = [a \in Accounts |-> None]
    /\ finished = [a \in Accounts |-> None]
    /\ results = {}
    /\ chars = <<>>
    /\ told = [a \in Accounts |-> [d \in Days |-> "nothing"]]
    /\ made = NoGuesses
    /\ failed = {}

Goto(a, from, to) == pc[a] = from /\ pc' = [pc EXCEPT ![a] = to]

-----------------------------------------------------------------------------
(* Scoring.                                                                *)

Occurrences(letter, w, upTo) == Cardinality({i \in 1..upTo : w[i] = letter})

\* a colorsFor that takes the yellows as they come, before all greens are counted
ColorsInOnePass(guess, word) ==
    [i \in Positions |->
        IF guess[i] = word[i] THEN "green"
        ELSE IF Occurrences(guess[i], guess, i) <= Occurrences(guess[i], word, Len(word))
          THEN "yellow" ELSE "grey"]

\* colorsFor: the greens are counted first, then the other letters from the left
\* are yellow while the word has more of them than were counted
ColorsFor(guess, word) ==
    LET greens == {i \in Positions : guess[i] = word[i]}
        has == [l \in Letters |-> Occurrences(l, word, Len(word))]
        after[i \in 0..Len(word)] ==
            IF i = 0
              THEN [colors |-> [j \in Positions |-> IF j \in greens THEN "green" ELSE "grey"],
                    counted |-> [l \in Letters |-> Cardinality({j \in greens : word[j] = l})]]
            ELSE IF i \notin greens /\ after[i - 1].counted[guess[i]] < has[guess[i]]
              THEN [after[i - 1] EXCEPT !.colors[i] = "yellow", !.counted[guess[i]] = @ + 1]
            ELSE after[i - 1]
    IN after[Len(word)].colors

AllGreen(colors) == \A i \in Positions : colors[i] = "green"

\* The struct session, and Finished
Colorings == {ColorsFor(guess, WordOf[day]) : guess \in Guessable, day \in Days}
Sessions == [date: Days, guesses: Seq(Guessable), colors: Seq(Colorings), done: BOOLEAN]
Finished == [date: Days, win: BOOLEAN, guesses: 1..GuessesAllowed]

ASSUME NoneAssumption == None \notin Sessions

-----------------------------------------------------------------------------
(* Characters.                                                             *)

Live(a) == {i \in Ids : chars[i].owner = a /\ ~chars[i].deleted}

\* create and InsertCharacter, which the unique index refuses if the slot is taken
Create(a, slot) ==
    /\ Len(chars) < MaxChars
    /\ \A i \in Live(a) : chars[i].slot # slot
    /\ chars' = Append(chars, [owner |-> a, slot |-> slot, deleted |-> FALSE])
    /\ UNCHANGED <<today, memory, results, histories>>

\* a delete that gives the row to its account's next character
DeleteRow(a, i) ==
    /\ i \in Live(a)
    /\ chars' = [chars EXCEPT ![i].owner = None, ![i].deleted = TRUE]
    /\ UNCHANGED <<today, memory, results, histories>>

\* delete and DeleteCharacter: the row stays
Delete(a, i) ==
    /\ i \in Live(a)
    /\ chars' = [chars EXCEPT ![i].deleted = TRUE]
    /\ UNCHANGED <<today, memory, results, histories>>

-----------------------------------------------------------------------------
(* A connection.                                                           *)

\* handleWS: Playable, then the account's slot has to be free
Admit(a, i) ==
    /\ i \in Live(a)
    /\ Goto(a, "out", "admitted")
    /\ playing' = [playing EXCEPT ![a] = i]
    /\ UNCHANGED <<today, session, finished, results, chars, histories>>

Connect(a) ==
    /\ Goto(a, "admitted", "in")
    /\ UNCHANGED <<today, session, playing, finished, results, chars, histories>>

Disconnect(a) ==
    /\ Goto(a, "in", "out")
    /\ playing' = [playing EXCEPT ![a] = None]
    /\ UNCHANGED <<today, session, finished, results, chars, histories>>

\* A result of the account's on that day: the table takes only one
Recorded(a, day) == \E r \in results : r.account = a /\ r.date = day

\* a PlayedWordleOn that asks about the character instead of the account
PlayedBy(a, day) == \E r \in results : r.char = playing[a] /\ r.date = day

\* PlayedWordleOn
Played(a, day) == Recorded(a, day)

\* Service.start: not today's result already, near enough
StartAsked(a) ==
    /\ ~Played(a, today)
    /\ Goto(a, "in", "starting")
    /\ UNCHANGED <<today, session, playing, finished, results, chars, histories>>

Fresh(day) == [date |-> day, guesses |-> <<>>, colors |-> <<>>, done |-> FALSE]

\* a sessions.start that starts every time
StartAnew(a) ==
    /\ Goto(a, "starting", "in")
    /\ session' = [session EXCEPT ![a] = Fresh(today)]
    /\ UNCHANGED <<today, playing, finished, results, chars, histories>>

\* sessions.start: the game of that moment's day goes on, or starts
Start(a) ==
    /\ Goto(a, "starting", "in")
    /\ session' = IF session[a] = None \/ session[a].date # today
                    THEN [session EXCEPT ![a] = Fresh(today)] ELSE session
    /\ UNCHANGED <<today, playing, finished, results, chars, histories>>

\* sessions.guess, under its lock
Guess(a, guess) ==
    /\ pc[a] = "in"
    /\ session[a] # None /\ ~session[a].done /\ ~Played(a, session[a].date)
    /\ LET s == session[a]
           colors == ColorsFor(guess, WordOf[s.date])
           guesses == Append(s.guesses, guess)
           win == AllGreen(colors)
           over == win \/ Len(guesses) >= GuessesAllowed
       IN /\ session' = [session EXCEPT ![a] =
                  [date |-> s.date, guesses |-> guesses,
                   colors |-> Append(s.colors, colors), done |-> over]]
          /\ made' = [made EXCEPT ![a][s.date] = @ + 1]
          /\ IF over
               THEN /\ Goto(a, "in", "inserting")
                    /\ finished' = [finished EXCEPT ![a] =
                           [date |-> s.date, win |-> win, guesses |-> Len(guesses)]]
               ELSE UNCHANGED <<pc, finished>>
    /\ UNCHANGED <<today, playing, results, chars, told, failed>>

Row(a) == [account |-> a, char |-> playing[a], date |-> finished[a].date,
           win |-> finished[a].win, guesses |-> finished[a].guesses]

\* an insert of the results the leaderboard shows
InsertWins(a, fails) ==
    /\ Goto(a, "inserting", "telling")
    /\ IF fails \/ Recorded(a, finished[a].date)
         THEN failed' = failed \union {<<a, finished[a].date>>} /\ UNCHANGED results
         ELSE /\ results' = IF finished[a].win THEN results \union {Row(a)} ELSE results
              /\ UNCHANGED failed
    /\ UNCHANGED <<today, session, playing, finished, chars, told, made>>

\* Service.guess inserts the result, or logs that it could not
Insert(a, fails) ==
    /\ Goto(a, "inserting", "telling")
    /\ IF fails \/ Recorded(a, finished[a].date)
         THEN failed' = failed \union {<<a, finished[a].date>>} /\ UNCHANGED results
         ELSE results' = results \union {Row(a)} /\ UNCHANGED failed
    /\ UNCHANGED <<today, session, playing, finished, chars, told, made>>

\* and its handler tells the player, who may be gone
Tell(a) ==
    /\ Goto(a, "telling", "in")
    /\ told' = [told EXCEPT ![a][finished[a].date] = IF finished[a].win THEN "win" ELSE "lose"]
    /\ finished' = [finished EXCEPT ![a] = None]
    /\ UNCHANGED <<today, session, playing, results, chars, made, failed>>

-----------------------------------------------------------------------------
(* The day turns; the server crashes, or stops, and starts again.          *)

NextDay ==
    /\ today < MaxDays
    /\ today' = today + 1
    /\ UNCHANGED <<memory, results, chars, histories>>

Restart ==
    /\ session' = [a \in Accounts |-> None]
    /\ pc' = [a \in Accounts |-> "out"]
    /\ playing' = [a \in Accounts |-> None]
    /\ finished' = [a \in Accounts |-> None]
    /\ made' = NoGuesses
    /\ UNCHANGED <<today, results, chars, told, failed>>

Next ==
    \/ NextDay \/ Restart
    \/ \E a \in Accounts :
        \/ \E slot \in Slots : Create(a, slot)
        \/ \E i \in Ids : Delete(a, i) \/ Admit(a, i)
        \/ Connect(a) \/ Disconnect(a) \/ StartAsked(a) \/ Start(a)
        \/ \E guess \in Guessable : Guess(a, guess)
        \/ \E fails \in BOOLEAN : Insert(a, fails)
        \/ Tell(a)

Spec == Init /\ [][Next]_vars

-----------------------------------------------------------------------------
(* What the leaderboard shows.                                             *)

\* WordleLeaderboard: winners, joined with their characters and these with
\* their players
Leaderboard(day) ==
    {r \in results : r.date = day /\ r.win /\ r.char \in Ids /\ chars[r.char].owner \in Accounts}

-----------------------------------------------------------------------------
(* Properties.                                                             *)

SessionsTyped ==
    /\ today \in Days
    /\ session \in [Accounts -> Sessions \union {None}]
    /\ \A a \in Accounts : session[a] # None =>
        /\ session[a].date <= today
        /\ Len(session[a].colors) = Len(session[a].guesses)

TablesTyped ==
    /\ chars \in Seq([owner: Accounts, slot: Slots, deleted: BOOLEAN])
    /\ results \subseteq [account: Accounts, char: Ids, date: Days, win: BOOLEAN,
                          guesses: 1..GuessesAllowed]

ConnectionsTyped ==
    /\ pc \in [Accounts -> {"out", "admitted", "in", "starting", "inserting", "telling"}]
    /\ playing \in [Accounts -> Ids \union {None}]
    /\ finished \in [Accounts -> Finished \union {None}]
    /\ \A a \in Accounts : pc[a] # "out" => playing[a] \in Ids
    /\ \A a \in Accounts : pc[a] \in {"inserting", "telling"} => finished[a] \in Finished

HistoriesTyped ==
    /\ told \in [Accounts -> [Days -> {"nothing", "win", "lose"}]]
    /\ made \in [Accounts -> [Days -> Nat]]
    /\ failed \subseteq Accounts \X Days

TypeOK == SessionsTyped /\ TablesTyped /\ ConnectionsTyped /\ HistoriesTyped

Colored(guess, colors, letter) == {i \in Positions : guess[i] = letter /\ colors[i] # "grey"}

RightColors(guess, word, colors) ==
    /\ \A l \in Letters :
        LET guessed == Occurrences(l, guess, Len(guess))
            has == Occurrences(l, word, Len(word))
        IN Cardinality(Colored(guess, colors, l)) = IF guessed < has THEN guessed ELSE has
    /\ \A i \in Positions : colors[i] = "green" <=> guess[i] = word[i]
    /\ \A i, j \in Positions :
        (i < j /\ guess[i] = guess[j] /\ colors[j] = "yellow") => colors[i] # "grey"

\* As many of a letter are colored as guess and word share, never more: a match
\* is green, and of the others those furthest to the left are yellow
\* (game.go colorsFor).
ColorsRight ==
    \A a \in Accounts : session[a] # None =>
        \A n \in DOMAIN session[a].guesses :
            RightColors(session[a].guesses[n], WordOf[session[a].date], session[a].colors[n])

\* A game that ends never finds the day's result there already: what the player
\* is told is what counts, however the day turned and the server crashed while
\* they played (service.go guess, sessions.guess).
ResultIsFirst == \A a \in Accounts : pc[a] = "inserting" => ~Recorded(a, finished[a].date)

\* Reloading, reconnecting, another character or the turn of the day never give
\* back a guess: as long as the server runs, the account has made as many guesses
\* at the word of its session as the session has, and never more than are allowed
\* at any word (game.go 73-74).
GuessesNotReset ==
    /\ \A a \in Accounts : session[a] # None =>
            made[a][session[a].date] = Len(session[a].guesses)
    /\ \A a \in Accounts, d \in Days : made[a][d] <= GuessesAllowed

\* Who was told how a day's game ended, and so knows its word, never guesses at it
\* again, after a crash either, unless the store had refused the result
\* (service.go guess, sessions.guess).
NoGuessAfterEnd ==
    [][\A a \in Accounts, d \in Days :
          (made'[a][d] > made[a][d] /\ told[a][d] # "nothing") => <<a, d>> \in failed]_vars

\* A player who was told how their game ended has that result, unless the store
\* refused it: a crash in between loses only what nobody was told (service.go 78-91).
ToldIsKept ==
    \A a \in Accounts, d \in Days :
        (told[a][d] # "nothing" /\ <<a, d>> \notin failed)
            => \E r \in results : r.account = a /\ r.date = d /\ (r.win <=> told[a][d] = "win")

\* Every win is on its day's leaderboard under the account that won, that of a
\* character deleted since, or while it was played, too: "Deleted characters keep
\* their row so the leaderboard keeps their results" (store.go 58-60).
WinsAreListed ==
    \A r \in results : r.win => r \in Leaderboard(r.date) /\ chars[r.char].owner = r.account
=============================================================================
