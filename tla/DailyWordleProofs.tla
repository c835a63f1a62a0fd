--------------------------- MODULE DailyWordleProofs ---------------------------
(***************************************************************************)
(* The daily game, for any accounts, words, days and characters: guesses   *)
(* are not given back, a result is the first of its day, and what a player *)
(* was told is kept and shown.                                             *)
(***************************************************************************)
EXTENDS DailyWordle, Loops, SequenceTheorems, FiniteSetTheorems

\* An account plays, and has its results under, characters of its own
OwnCharacters ==
    /\ \A a \in Accounts : pc[a] # "out" => chars[playing[a]].owner = a
    /\ \A r \in results : chars[r.char].owner = r.account

\* A session has the guesses made at its day's word; there are none at later
\* days' words, and none at all where there is no session
Counted ==
    \A a \in Accounts :
        /\ session[a] = None => \A d \in Days : made[a][d] = 0
        /\ session[a] # None =>
            /\ made[a][session[a].date] = Len(session[a].guesses)
            /\ ~session[a].done => Len(session[a].guesses) < GuessesAllowed
            /\ \A d \in Days : d > session[a].date => made[a][d] = 0
        /\ \A d \in Days : made[a][d] <= GuessesAllowed

\* Before the player is told, the result is stored or known to be refused
StoredBeforeTold ==
    \A a \in Accounts : pc[a] = "telling" =>
        \/ <<a, finished[a].date>> \in failed
        \/ \E r \in results : /\ r.account = a /\ r.date = finished[a].date
                              /\ r.win = finished[a].win

DailyInv ==
    TypeOK /\ OwnCharacters /\ Counted /\ StoredBeforeTold /\ ResultIsFirst /\ ToldIsKept

-----------------------------------------------------------------------------

LEMMA GrowOf ==
  ASSUME NEW S, NEW s \in Seq(S), NEW e \in S
  PROVE  /\ Append(s, e) \in Seq(S) /\ Len(Append(s, e)) = Len(s) + 1 /\ Len(s) \in Nat
         /\ DOMAIN s \subseteq DOMAIN Append(s, e)
         /\ \A i \in DOMAIN s : Append(s, e)[i] = s[i]
  OBVIOUS

LEMMA CharOf ==
  ASSUME TypeOK, NEW i \in Ids
  PROVE  chars[i].owner \in Accounts
<1> DEFINE Char == [owner: Accounts, slot: Slots, deleted: BOOLEAN]
<1>1. chars \in Seq(Char)
  BY DEF TypeOK, TablesTyped
<1> HIDE DEF Char
<1>2. chars[i] \in Char
  BY <1>1, ElementOfSeq, LenProperties DEF Ids
<1>3. QED BY <1>2 DEF Char

\* One more guess makes a session of a session
LEMMA GuessedSession ==
  ASSUME NEW s \in Sessions, NEW guess \in Guessable, NEW over \in BOOLEAN
  PROVE  LET t == [date |-> s.date, guesses |-> Append(s.guesses, guess),
                   colors |-> Append(s.colors, ColorsFor(guess, WordOf[s.date])), done |-> over]
         IN /\ t \in Sessions
            /\ Len(t.guesses) = Len(s.guesses) + 1 /\ Len(t.colors) = Len(s.colors) + 1
<1> DEFINE color == ColorsFor(guess, WordOf[s.date])
<1>1. s.date \in Days /\ s.guesses \in Seq(Guessable) /\ s.colors \in Seq(Colorings)
  BY DEF Sessions
<1>2. color \in Colorings
  BY <1>1 DEF Colorings
<1> HIDE DEF color
<1>3. /\ Append(s.guesses, guess) \in Seq(Guessable)
      /\ Len(Append(s.guesses, guess)) = Len(s.guesses) + 1
  BY <1>1, GrowOf
<1>4. /\ Append(s.colors, color) \in Seq(Colorings)
      /\ Len(Append(s.colors, color)) = Len(s.colors) + 1
  BY <1>1, <1>2, GrowOf
<1>5. QED BY <1>1, <1>3, <1>4 DEF Sessions, color

LEMMA DailyInit == Init => DailyInv
<1> SUFFICES ASSUME Init PROVE DailyInv
  OBVIOUS
<1>1. chars = <<>> /\ <<>> \in Seq([owner: Accounts, slot: Slots, deleted: BOOLEAN])
  BY DEF Init
<1>2. TypeOK
  BY <1>1, DailyAssumption
     DEF Init, TypeOK, SessionsTyped, TablesTyped, ConnectionsTyped, HistoriesTyped, Days,
         NoGuesses
<1>3. OwnCharacters /\ StoredBeforeTold /\ ResultIsFirst
  BY DEF Init, OwnCharacters, StoredBeforeTold, ResultIsFirst
<1>4. Counted
  BY DailyAssumption DEF Init, Counted, NoGuesses
<1>5. ToldIsKept
  BY DEF Init, ToldIsKept
<1>6. QED BY <1>2, <1>3, <1>4, <1>5 DEF DailyInv

\* A row of the table of characters keeps its owner
LEMMA CharsGrow ==
  ASSUME DailyInv, NEW a \in Accounts,
         \/ \E slot \in Slots : Create(a, slot)
         \/ \E i \in Ids : Delete(a, i)
  PROVE  /\ chars' \in Seq([owner: Accounts, slot: Slots, deleted: BOOLEAN])
         /\ Ids \subseteq Ids' /\ \A i \in Ids : chars'[i].owner = chars[i].owner
<1> DEFINE Char == [owner: Accounts, slot: Slots, deleted: BOOLEAN]
<1>1. chars \in Seq(Char)
  BY DEF DailyInv, TypeOK, TablesTyped
<1>2. CASE \E slot \in Slots : Create(a, slot)
  <2>1. PICK slot \in Slots : chars' = Append(chars, [owner |-> a, slot |-> slot, deleted |-> FALSE])
    BY <1>2 DEF Create
  <2>2. [owner |-> a, slot |-> slot, deleted |-> FALSE] \in Char
    OBVIOUS
  <2> HIDE DEF Char
  <2>3. chars' \in Seq(Char) /\ Ids \subseteq Ids' /\ \A i \in Ids : chars'[i] = chars[i]
    BY <1>1, <2>1, <2>2, GrowOf DEF Ids
  <2>4. QED BY <2>3 DEF Char
<1>3. CASE \E i \in Ids : Delete(a, i)
  <2>1. PICK i \in Ids : chars' = [chars EXCEPT ![i].deleted = TRUE]
    BY <1>3 DEF Delete
  <2>2. chars[i] \in Char /\ \A j \in Ids : chars[j] \in Char
    <3> HIDE DEF Char
    <3>1. QED BY <1>1, ElementOfSeq, LenProperties DEF Ids
  <2>3. [chars[i] EXCEPT !.deleted = TRUE] \in Char /\ [chars[i] EXCEPT !.deleted = TRUE].owner = chars[i].owner
    BY <2>2
  <2>4. chars' = [chars EXCEPT ![i] = [chars[i] EXCEPT !.deleted = TRUE]]
    BY <2>1
  <2> HIDE DEF Char
  <2>5. Ids' = Ids /\ Len(chars) \in Nat /\ Ids = 1..Len(chars) /\ chars \in [Ids -> Char]
    BY <1>1, <2>4, LenProperties DEF Ids
  <2>6. chars' \in [1..Len(chars) -> Char]
    BY <2>3, <2>4, <2>5
  <2>7. chars' \in Seq(Char)
    BY <2>5, <2>6, IsASeq
  <2>8. \A j \in Ids : chars'[j].owner = chars[j].owner
    BY <2>3, <2>4, <2>5
  <2>9. QED BY <2>5, <2>7, <2>8 DEF Char
<1>4. QED BY <1>2, <1>3

LEMMA CharacterStep ==
  ASSUME DailyInv, NEW a \in Accounts,
         \/ \E slot \in Slots : Create(a, slot)
         \/ \E i \in Ids : Delete(a, i)
  PROVE  DailyInv'
<1>1. UNCHANGED <<today, memory, results, histories>>
  BY DEF Create, Delete
<1>2. /\ chars' \in Seq([owner: Accounts, slot: Slots, deleted: BOOLEAN])
      /\ Ids \subseteq Ids' /\ \A i \in Ids : chars'[i].owner = chars[i].owner
  BY CharsGrow
<1>3. \A r \in results : r.char \in Ids
  BY DEF DailyInv, TypeOK, TablesTyped
<1>4. SessionsTyped' /\ HistoriesTyped'
  BY <1>1 DEF DailyInv, TypeOK, SessionsTyped, HistoriesTyped, memory, histories
<1>5. TablesTyped'
  <2> DEFINE Rows(I) == [account: Accounts, char: I, date: Days, win: BOOLEAN,
                         guesses: 1..GuessesAllowed]
  <2>1. results \subseteq Rows(Ids) /\ results' = results
    BY <1>1 DEF DailyInv, TypeOK, TablesTyped
  <2>2. \A I, J : I \subseteq J => Rows(I) \subseteq Rows(J)
    OBVIOUS
  <2> HIDE DEF Rows
  <2>3. results' \subseteq Rows(Ids')
    BY <1>2, <2>1, <2>2
  <2>4. QED BY <1>2, <2>3 DEF TablesTyped, Rows
<1>6. ConnectionsTyped'
  <2>1. ConnectionsTyped /\ UNCHANGED <<pc, playing, finished>>
    BY <1>1 DEF DailyInv, TypeOK, memory
  <2>2. playing' \in [Accounts -> Ids' \union {None}]
    BY <1>2, <2>1 DEF ConnectionsTyped
  <2>3. QED BY <1>2, <2>1, <2>2 DEF ConnectionsTyped
<1>7. OwnCharacters'
  BY <1>1, <1>2, <1>3 DEF DailyInv, OwnCharacters, TypeOK, ConnectionsTyped, memory
<1>8. Counted' /\ StoredBeforeTold' /\ ResultIsFirst' /\ ToldIsKept'
  BY <1>1 DEF DailyInv, Counted, StoredBeforeTold, ResultIsFirst, ToldIsKept, Recorded,
              memory, histories
<1>9. QED BY <1>4, <1>5, <1>6, <1>7, <1>8 DEF DailyInv, TypeOK

\* A connection comes and goes, and asks whether it may start.
LEMMA ConnectionStep ==
  ASSUME DailyInv, NEW a \in Accounts,
         \/ \E i \in Ids : Admit(a, i)
         \/ Connect(a) \/ Disconnect(a) \/ StartAsked(a)
  PROVE  DailyInv'
<1>1. UNCHANGED <<today, session, finished, results, chars, histories>>
  BY DEF Admit, Connect, Disconnect, StartAsked
<1>2. /\ pc' \in [Accounts -> {"out", "admitted", "in", "starting", "inserting", "telling"}]
      /\ playing' \in [Accounts -> Ids \union {None}]
      /\ \A b \in Accounts : b # a => pc'[b] = pc[b] /\ playing'[b] = playing[b]
      /\ pc'[a] \notin {"inserting", "telling"}
      /\ pc'[a] # "out" => playing'[a] \in Ids /\ chars[playing'[a]].owner = a
  <2>1. CASE \E i \in Ids : Admit(a, i)
    <3>1. PICK i \in Ids : Admit(a, i)
      BY <2>1
    <3>2. chars[i].owner = a
      BY <3>1 DEF Admit, Live
    <3>3. QED BY <3>1, <3>2 DEF Admit, Goto, DailyInv, TypeOK, ConnectionsTyped
  <2>2. CASE Connect(a) \/ Disconnect(a) \/ StartAsked(a)
    <3>1. ConnectionsTyped /\ OwnCharacters
      BY DEF DailyInv, TypeOK
    <3>2. CASE Connect(a) \/ StartAsked(a)
      BY <3>1, <3>2 DEF Connect, StartAsked, Goto, ConnectionsTyped, OwnCharacters
    <3>3. CASE Disconnect(a)
      BY <3>1, <3>3 DEF Disconnect, Goto, ConnectionsTyped
    <3>4. QED BY <2>2, <3>2, <3>3
  <2>3. QED BY <2>1, <2>2
<1>3. SessionsTyped' /\ TablesTyped' /\ HistoriesTyped' /\ Ids' = Ids
  BY <1>1 DEF DailyInv, TypeOK, SessionsTyped, TablesTyped, HistoriesTyped, histories, Ids
<1>4. ConnectionsTyped'
  BY <1>1, <1>2, <1>3 DEF DailyInv, TypeOK, ConnectionsTyped
<1>5. OwnCharacters'
  BY <1>1, <1>2 DEF DailyInv, OwnCharacters
<1>6. Counted' /\ ToldIsKept'
  BY <1>1 DEF DailyInv, Counted, ToldIsKept, histories
<1>7. StoredBeforeTold' /\ ResultIsFirst'
  BY <1>1, <1>2 DEF DailyInv, StoredBeforeTold, ResultIsFirst, Recorded, histories
<1>8. QED BY <1>3, <1>4, <1>5, <1>6, <1>7 DEF DailyInv, TypeOK

LEMMA StartStep ==
  ASSUME DailyInv, NEW a \in Accounts, Start(a)
  PROVE  DailyInv'
<1>1. /\ UNCHANGED <<today, playing, finished, results, chars, histories>>
      /\ pc[a] = "starting" /\ pc' = [pc EXCEPT ![a] = "in"]
  BY DEF Start, Goto
<1>2. today \in Days /\ Days \subseteq Nat
  BY DEF DailyInv, TypeOK, SessionsTyped, Days
<1>3. Fresh(today) \in Sessions /\ Fresh(today).date = today /\ ~Fresh(today).done
      /\ Len(Fresh(today).guesses) = 0 /\ Len(Fresh(today).colors) = 0
  <2>1. <<>> \in Seq(Guessable) /\ <<>> \in Seq(Colorings)
    OBVIOUS
  <2>2. QED BY <1>2, <2>1 DEF Fresh, Sessions
<1> HIDE DEF Fresh
<1>4. \/ session' = session
      \/ /\ session' = [session EXCEPT ![a] = Fresh(today)]
         /\ session[a] = None \/ session[a].date # today
  BY DEF Start
<1>5. SessionsTyped'
  <2>1. session \in [Accounts -> Sessions \union {None}] /\ Fresh(today).date <= today
    BY <1>2, <1>3 DEF DailyInv, TypeOK, SessionsTyped
  <2>2. session' \in [Accounts -> Sessions \union {None}]
        /\ \A b \in Accounts : session'[b] = session[b] \/ session'[b] = Fresh(today)
    BY <1>3, <1>4, <2>1
  <2>3. QED BY <1>1, <1>2, <1>3, <2>1, <2>2 DEF DailyInv, TypeOK, SessionsTyped
<1>6. TablesTyped' /\ HistoriesTyped' /\ Ids' = Ids
  BY <1>1 DEF DailyInv, TypeOK, TablesTyped, HistoriesTyped, histories, Ids
<1>7. ConnectionsTyped' /\ OwnCharacters'
  BY <1>1, <1>6 DEF DailyInv, TypeOK, ConnectionsTyped, OwnCharacters
<1>8. Counted'
  <2>1. CASE session' = session
    BY <1>1, <2>1 DEF DailyInv, Counted, histories
  <2>2. CASE /\ session' = [session EXCEPT ![a] = Fresh(today)]
             /\ session[a] = None \/ session[a].date # today
    <3>1. /\ made[a][today] = 0 /\ \A d \in Days : d > today => made[a][d] = 0
          /\ \A d \in Days : made[a][d] <= GuessesAllowed
      <4>1. CASE session[a] = None
        BY <4>1, <1>2 DEF DailyInv, Counted
      <4>2. CASE session[a] # None
        <5>1. session[a] \in Sessions
          BY <4>2 DEF DailyInv, TypeOK, SessionsTyped
        <5>2. session[a].date \in Days
          BY <5>1 DEF Sessions
        <5>3. session[a].date <= today
          BY <4>2 DEF DailyInv, TypeOK, SessionsTyped
        <5>4. session[a].date < today
          BY <1>2, <2>2, <4>2, <5>2, <5>3 DEF Days
        <5>5. /\ \A d \in Days : d > session[a].date => made[a][d] = 0
              /\ \A d \in Days : made[a][d] <= GuessesAllowed
          BY <4>2 DEF DailyInv, Counted
        <5>6. QED BY <1>2, <5>2, <5>4, <5>5 DEF Days
      <4>3. QED BY <4>1, <4>2
    <3>2. Fresh(today) # None /\ session'[a] = Fresh(today)
          /\ \A b \in Accounts : b # a => session'[b] = session[b]
      BY <1>3, <2>2, NoneAssumption DEF DailyInv, TypeOK, SessionsTyped
    <3>3. made' = made /\ GuessesAllowed > 0
      BY <1>1, DailyAssumption DEF histories
    <3>4. QED BY <1>3, <3>1, <3>2, <3>3 DEF DailyInv, Counted
  <2>3. QED BY <1>4, <2>1, <2>2
<1>9. StoredBeforeTold' /\ ResultIsFirst' /\ ToldIsKept'
  BY <1>1 DEF DailyInv, StoredBeforeTold, ResultIsFirst, ToldIsKept, Recorded, histories, TypeOK,
              ConnectionsTyped
<1>10. QED BY <1>5, <1>6, <1>7, <1>8, <1>9 DEF DailyInv, TypeOK

LEMMA GuessStep ==
  ASSUME DailyInv, NEW a \in Accounts, NEW guess \in Guessable, Guess(a, guess)
  PROVE  DailyInv'
<1> DEFINE s == session[a]
           win == AllGreen(ColorsFor(guess, WordOf[s.date]))
           over == win \/ Len(Append(s.guesses, guess)) >= GuessesAllowed
           t == [date |-> s.date, guesses |-> Append(s.guesses, guess),
                 colors |-> Append(s.colors, ColorsFor(guess, WordOf[s.date])), done |-> over]
           result == [date |-> s.date, win |-> win, guesses |-> Len(Append(s.guesses, guess))]
<1>1. /\ pc[a] = "in" /\ s # None /\ ~s.done /\ ~Recorded(a, s.date)
      /\ session' = [session EXCEPT ![a] = t]
      /\ made' = [made EXCEPT ![a][s.date] = @ + 1]
      /\ \/ over /\ pc' = [pc EXCEPT ![a] = "inserting"] /\ finished' = [finished EXCEPT ![a] = result]
         \/ ~over /\ pc' = pc /\ finished' = finished
      /\ UNCHANGED <<today, playing, results, chars, told, failed>>
  BY Zenon DEF Guess, Goto, Played
<1>2. SessionsTyped /\ TablesTyped /\ ConnectionsTyped /\ HistoriesTyped
  BY DEF DailyInv, TypeOK
<1>3. s \in Sessions
  BY <1>1, <1>2 DEF SessionsTyped
<1>4. s.date \in Days /\ s.guesses \in Seq(Guessable) /\ Len(s.guesses) \in Nat
  BY <1>3 DEF Sessions
<1>5. over \in BOOLEAN /\ win \in BOOLEAN
  BY DEF AllGreen
<1>6. /\ t \in Sessions /\ t.date = s.date /\ t.done = over
      /\ Len(t.guesses) = Len(s.guesses) + 1 /\ Len(t.colors) = Len(s.colors) + 1
      /\ t.guesses = Append(s.guesses, guess)
  <2> HIDE DEF over
  <2>1. QED BY <1>3, <1>5, GuessedSession
<1>7. /\ Len(s.guesses) < GuessesAllowed /\ made[a][s.date] = Len(s.guesses)
      /\ \A d \in Days : /\ d > s.date => made[a][d] = 0
                         /\ made[a][d] <= GuessesAllowed
      /\ Len(Append(s.guesses, guess)) = Len(s.guesses) + 1
  BY <1>1, <1>6 DEF DailyInv, Counted
<1>8. ~over => Len(s.guesses) + 1 < GuessesAllowed
  BY <1>4, <1>7, DailyAssumption
<1>9. result \in Finished /\ result.date = s.date
  BY <1>4, <1>5, <1>7, DailyAssumption DEF Finished
<1> HIDE DEF t, over, result, win
<1>10. SessionsTyped'
  <2>1. session' \in [Accounts -> Sessions \union {None}]
        /\ \A b \in Accounts : b # a => session'[b] = session[b]
    BY <1>1, <1>2, <1>6 DEF SessionsTyped
  <2>2. session'[a] = t
    BY <1>1, <1>2 DEF SessionsTyped
  <2>3. s.date <= today /\ Len(s.colors) = Len(s.guesses)
    BY <1>1, <1>2 DEF SessionsTyped
  <2>4. QED BY <1>1, <1>2, <1>6, <2>1, <2>2, <2>3 DEF SessionsTyped
<1>11. TablesTyped' /\ Ids' = Ids
  BY <1>1, <1>2 DEF TablesTyped, Ids
<1>12. ConnectionsTyped' /\ OwnCharacters'
  BY <1>1, <1>2, <1>9, <1>11 DEF DailyInv, ConnectionsTyped, OwnCharacters
<1>13. HistoriesTyped'
  BY <1>1, <1>2, <1>4 DEF HistoriesTyped
<1>14. Counted'
  <2>1. /\ \A b \in Accounts : b # a => made'[b] = made[b] /\ session'[b] = session[b]
        /\ session'[a] = t /\ t # None
    BY <1>1, <1>2, <1>6, NoneAssumption DEF SessionsTyped, HistoriesTyped
  <2>2. /\ made'[a][s.date] = Len(s.guesses) + 1
        /\ \A d \in Days : d # s.date => made'[a][d] = made[a][d]
    BY <1>1, <1>2, <1>4, <1>7 DEF HistoriesTyped
  <2>3. \A d \in Days : made'[a][d] <= GuessesAllowed
    <3>1. GuessesAllowed \in Nat
      BY DailyAssumption
    <3>2. \A d \in Days : made[a][d] <= GuessesAllowed
      BY <1>7
    <3>3. QED BY <1>4, <1>7, <2>2, <3>1, <3>2
  <2>4. \A d \in Days : d > s.date => made'[a][d] = 0
    <3>1. \A d \in Days : d > s.date => d # s.date
      BY <1>4 DEF Days
    <3>2. \A d \in Days : d > s.date => made[a][d] = 0
      BY <1>7
    <3> SUFFICES ASSUME NEW d \in Days, d > s.date PROVE made'[a][d] = 0
      OBVIOUS
    <3>3. made'[a][d] = made[a][d]
      BY <2>2, <3>1
    <3>4. QED BY <3>2, <3>3
  <2> DEFINE Own(b) ==
        /\ session[b] = None => \A d \in Days : made[b][d] = 0
        /\ session[b] # None =>
            /\ made[b][session[b].date] = Len(session[b].guesses)
            /\ ~session[b].done => Len(session[b].guesses) < GuessesAllowed
            /\ \A d \in Days : d > session[b].date => made[b][d] = 0
        /\ \A d \in Days : made[b][d] <= GuessesAllowed
  <2>5. \A b \in Accounts : Own(b)
    BY DEF DailyInv, Counted
  <2>6. ASSUME NEW b \in Accounts, b # a PROVE Own(b)'
    BY <2>1, <2>5, <2>6
  <2>7. Own(a)'
    BY <1>6, <1>8, <2>1, <2>2, <2>3, <2>4
  <2>8. \A b \in Accounts : Own(b)'
    BY <2>6, <2>7
  <2>9. QED BY <2>8 DEF Counted
<1>15. StoredBeforeTold' /\ ToldIsKept'
  BY <1>1, <1>2 DEF DailyInv, StoredBeforeTold, ToldIsKept, ConnectionsTyped
<1>16. ResultIsFirst'
  BY <1>1, <1>2, <1>9 DEF DailyInv, ResultIsFirst, Recorded, ConnectionsTyped
<1>17. QED BY <1>10, <1>11, <1>12, <1>13, <1>14, <1>15, <1>16 DEF DailyInv, TypeOK

LEMMA InsertStep ==
  ASSUME DailyInv, NEW a \in Accounts, NEW fails \in BOOLEAN, Insert(a, fails)
  PROVE  DailyInv'
<1>1. /\ pc[a] = "inserting" /\ pc' = [pc EXCEPT ![a] = "telling"]
      /\ UNCHANGED <<today, session, playing, finished, chars, told, made>>
  BY DEF Insert, Goto
<1>2. SessionsTyped /\ TablesTyped /\ ConnectionsTyped /\ HistoriesTyped
  BY DEF DailyInv, TypeOK
<1>3. /\ finished[a] \in Finished /\ playing[a] \in Ids
      /\ pc'[a] = "telling" /\ \A b \in Accounts : b # a => pc'[b] = pc[b]
  BY <1>1, <1>2 DEF ConnectionsTyped
<1>4. finished[a].date \in Days /\ chars[playing[a]].owner = a
  BY <1>1, <1>3 DEF Finished, DailyInv, OwnCharacters
<1>5. /\ Row(a) \in [account: Accounts, char: Ids, date: Days, win: BOOLEAN,
                     guesses: 1..GuessesAllowed]
      /\ Row(a).account = a /\ Row(a).char = playing[a]
      /\ Row(a).date = finished[a].date /\ Row(a).win = finished[a].win
  BY <1>3 DEF Row, Finished
<1>6. \/ failed' = failed \union {<<a, finished[a].date>>} /\ results' = results
      \/ results' = results \union {Row(a)} /\ failed' = failed
  BY DEF Insert
<1> HIDE DEF Row
<1>7. SessionsTyped' /\ Ids' = Ids
  BY <1>1, <1>2 DEF SessionsTyped, Ids
<1>8. TablesTyped'
  <2> DEFINE Rows == [account: Accounts, char: Ids, date: Days, win: BOOLEAN,
                      guesses: 1..GuessesAllowed]
  <2>1. results \subseteq Rows /\ Row(a) \in Rows
    BY <1>2, <1>5 DEF TablesTyped
  <2> HIDE DEF Rows
  <2>2. results' \subseteq Rows
    BY <1>6, <2>1
  <2>3. QED BY <1>1, <1>2, <1>7, <2>2 DEF TablesTyped, Rows
<1>9. ConnectionsTyped'
  BY <1>1, <1>2, <1>3, <1>7 DEF ConnectionsTyped
<1>10. HistoriesTyped'
  BY <1>1, <1>2, <1>4, <1>6 DEF HistoriesTyped
<1>11. OwnCharacters'
  BY <1>1, <1>3, <1>4, <1>5, <1>6 DEF DailyInv, OwnCharacters
<1>12. Counted'
  BY <1>1 DEF DailyInv, Counted
<1>13. StoredBeforeTold'
  BY <1>1, <1>3, <1>5, <1>6 DEF DailyInv, StoredBeforeTold
<1>14. ResultIsFirst'
  BY <1>1, <1>3, <1>5, <1>6 DEF DailyInv, ResultIsFirst, Recorded
<1>15. ToldIsKept'
  BY <1>1, <1>6 DEF DailyInv, ToldIsKept
<1>16. QED BY <1>7, <1>8, <1>9, <1>10, <1>11, <1>12, <1>13, <1>14, <1>15 DEF DailyInv, TypeOK

LEMMA TellStep ==
  ASSUME DailyInv, NEW a \in Accounts, Tell(a)
  PROVE  DailyInv'
<1> DEFINE said == IF finished[a].win THEN "win" ELSE "lose"
           day == finished[a].date
<1>1. /\ pc[a] = "telling" /\ pc' = [pc EXCEPT ![a] = "in"]
      /\ told' = [told EXCEPT ![a][day] = said]
      /\ finished' = [finished EXCEPT ![a] = None]
      /\ UNCHANGED <<today, session, playing, results, chars, made, failed>>
  BY DEF Tell, Goto
<1>2. SessionsTyped /\ TablesTyped /\ ConnectionsTyped /\ HistoriesTyped
  BY DEF DailyInv, TypeOK
<1>3. finished[a] \in Finished
  BY <1>1, <1>2 DEF ConnectionsTyped
<1>4. day \in Days /\ finished[a].win \in BOOLEAN
  BY <1>3 DEF Finished
<1>5. /\ told'[a][day] = said
      /\ \A b \in Accounts, d \in Days : (b # a \/ d # day) => told'[b][d] = told[b][d]
  BY <1>1, <1>2, <1>4 DEF HistoriesTyped
<1>6. SessionsTyped' /\ TablesTyped' /\ Ids' = Ids
  BY <1>1, <1>2 DEF SessionsTyped, TablesTyped, Ids
<1>7. ConnectionsTyped' /\ OwnCharacters'
  BY <1>1, <1>2, <1>6 DEF DailyInv, ConnectionsTyped, OwnCharacters
<1>8. HistoriesTyped'
  BY <1>1, <1>2, <1>4 DEF HistoriesTyped
<1>9. Counted'
  BY <1>1 DEF DailyInv, Counted
<1>10. StoredBeforeTold' /\ ResultIsFirst'
  BY <1>1, <1>2 DEF DailyInv, StoredBeforeTold, ResultIsFirst, Recorded, ConnectionsTyped
<1>11. ToldIsKept'
  <2>1. <<a, day>> \in failed \/ \E r \in results : r.account = a /\ r.date = day
                                                      /\ r.win = finished[a].win
    BY <1>1 DEF DailyInv, StoredBeforeTold
  <2>2. finished[a].win <=> said = "win"
    BY <1>4
  <2> HIDE DEF said, day
  <2> SUFFICES ASSUME NEW b \in Accounts, NEW d \in Days,
                      told'[b][d] # "nothing", <<b, d>> \notin failed
               PROVE  \E r \in results : r.account = b /\ r.date = d /\ (r.win <=> told'[b][d] = "win")
    BY <1>1 DEF ToldIsKept
  <2>3. CASE b = a /\ d = day
    BY <1>5, <2>1, <2>2, <2>3
  <2>4. CASE b # a \/ d # day
    BY <1>5, <2>4 DEF DailyInv, ToldIsKept
  <2>5. QED BY <2>3, <2>4
<1>12. QED BY <1>6, <1>7, <1>8, <1>9, <1>10, <1>11 DEF DailyInv, TypeOK

\* The day turns, or the server starts again.
LEMMA DayStep ==
  ASSUME DailyInv, NextDay
  PROVE  DailyInv'
<1>1. today' = today + 1 /\ today < MaxDays /\ UNCHANGED <<memory, results, chars, histories>>
  BY DEF NextDay
<1>2. today' \in Days /\ today' > today /\ today \in Nat
  BY <1>1, DailyAssumption DEF DailyInv, TypeOK, SessionsTyped, Days
<1>3. SessionsTyped'
  <2>1. \A b \in Accounts : session[b] # None => session[b].date \in Nat
    BY DEF DailyInv, TypeOK, SessionsTyped, Sessions, Days
  <2>2. QED BY <1>1, <1>2, <2>1 DEF DailyInv, TypeOK, SessionsTyped, memory
<1>4. TablesTyped' /\ ConnectionsTyped' /\ HistoriesTyped' /\ OwnCharacters'
  BY <1>1 DEF DailyInv, TypeOK, TablesTyped, ConnectionsTyped, HistoriesTyped, OwnCharacters,
              Ids, memory, histories
<1>5. Counted' /\ StoredBeforeTold' /\ ResultIsFirst' /\ ToldIsKept'
  BY <1>1 DEF DailyInv, Counted, StoredBeforeTold, ResultIsFirst, ToldIsKept, Recorded,
              memory, histories
<1>6. QED BY <1>3, <1>4, <1>5 DEF DailyInv, TypeOK

LEMMA RestartStep ==
  ASSUME DailyInv, Restart
  PROVE  DailyInv'
<1>1. TypeOK'
  BY DEF Restart, NoGuesses, DailyInv, TypeOK, SessionsTyped, TablesTyped, ConnectionsTyped,
         HistoriesTyped, Ids
<1>2. OwnCharacters' /\ Counted' /\ StoredBeforeTold' /\ ResultIsFirst' /\ ToldIsKept'
  BY DailyAssumption
     DEF Restart, NoGuesses, DailyInv, OwnCharacters, Counted, StoredBeforeTold, ResultIsFirst,
         ToldIsKept
<1>3. QED BY <1>1, <1>2 DEF DailyInv

LEMMA DailyStep == DailyInv /\ [Next]_vars => DailyInv'
<1> SUFFICES ASSUME DailyInv, [Next]_vars PROVE DailyInv'
  OBVIOUS
<1>1. CASE NextDay \/ Restart
  BY <1>1, DayStep, RestartStep
<1>2. ASSUME NEW a \in Accounts,
             \/ \E slot \in Slots : Create(a, slot)
             \/ \E i \in Ids : Delete(a, i)
      PROVE  DailyInv'
  BY <1>2, CharacterStep
<1>3. ASSUME NEW a \in Accounts,
             \/ \E i \in Ids : Admit(a, i)
             \/ Connect(a) \/ Disconnect(a) \/ StartAsked(a)
      PROVE  DailyInv'
  BY <1>3, ConnectionStep
<1>4. ASSUME NEW a \in Accounts, Start(a) \/ Tell(a)
      PROVE  DailyInv'
  BY <1>4, StartStep, TellStep
<1>5. ASSUME NEW a \in Accounts, NEW guess \in Guessable, Guess(a, guess)
      PROVE  DailyInv'
  BY <1>5, GuessStep
<1>6. ASSUME NEW a \in Accounts, NEW fails \in BOOLEAN, Insert(a, fails)
      PROVE  DailyInv'
  BY <1>6, InsertStep
<1>7. CASE UNCHANGED vars
  BY <1>7 DEF vars, memory, histories, DailyInv, TypeOK, SessionsTyped, TablesTyped,
              ConnectionsTyped, HistoriesTyped, OwnCharacters, Counted, StoredBeforeTold,
              ResultIsFirst, ToldIsKept, Recorded, Ids
<1>8. QED BY <1>1, <1>2, <1>3, <1>4, <1>5, <1>6, <1>7 DEF Next

-----------------------------------------------------------------------------

\* Whatever day it is, and however often the server crashed or a character was
\* created and deleted, the daily game is in order (puzzles/wordle/service.go).
THEOREM DailyInvariant == Spec => []DailyInv
  BY DailyInit, DailyStep, PTL DEF Spec

\* Sessions, tables and connections hold what their types say (game.go 73-81,
\* store.go 58-88).
THEOREM DailyTyped == Spec => []TypeOK
<1>1. DailyInv => TypeOK
  BY DEF DailyInv
<1>2. QED BY <1>1, DailyInvariant, PTL

\* A result is inserted where there is none of that day (service.go 52-93).
THEOREM ResultsAreFirst == Spec => []ResultIsFirst
<1>1. DailyInv => ResultIsFirst
  BY DEF DailyInv
<1>2. QED BY <1>1, DailyInvariant, PTL

\* No guess is given back while the server runs (game.go 73-154).
THEOREM GuessesStayUsed == Spec => []GuessesNotReset
<1>1. DailyInv => GuessesNotReset
  BY DEF DailyInv, Counted, GuessesNotReset
<1>2. QED BY <1>1, DailyInvariant, PTL

\* What a player was told of their game is stored, or was refused (service.go 67-93).
THEOREM ResultsAreKept == Spec => []ToldIsKept
<1>1. DailyInv => ToldIsKept
  BY DEF DailyInv
<1>2. QED BY <1>1, DailyInvariant, PTL

\* Every win is listed under the account that won, deleted characters' too
\* (store/wordle.go 45-81, store/characters.go 76-85).
THEOREM WinsStayListed == Spec => []WinsAreListed
<1>1. ASSUME DailyInv PROVE WinsAreListed
  <2>1. \A r \in results : r.account \in Accounts /\ r.char \in Ids
    BY <1>1 DEF DailyInv, TypeOK, TablesTyped
  <2>2. \A r \in results : chars[r.char].owner = r.account
    BY <1>1 DEF DailyInv, OwnCharacters
  <2>3. QED BY <2>1, <2>2 DEF WinsAreListed, Leaderboard
<1>2. QED BY <1>1, DailyInvariant, PTL

\* Who knows a day's word from having finished its game does not guess at it
\* again, unless the store refused the result (game.go 119-154).
THEOREM EndedGamesStayEnded == Spec => NoGuessAfterEnd
<1> DEFINE After == \A a \in Accounts, d \in Days :
                        (made'[a][d] > made[a][d] /\ told[a][d] # "nothing") => <<a, d>> \in failed
<1>1. DailyInv /\ [Next]_vars => [After]_vars
  <2> SUFFICES ASSUME DailyInv, Next PROVE After
    BY DEF vars
  <2>1. CASE \E a \in Accounts, guess \in Guessable : Guess(a, guess)
    <3>1. PICK a \in Accounts, guess \in Guessable : Guess(a, guess)
      BY <2>1
    <3>2. /\ made' = [made EXCEPT ![a][session[a].date] = @ + 1]
          /\ ~Recorded(a, session[a].date) /\ session[a] # None
      BY <3>1 DEF Guess, Played
    <3>3. session[a].date \in Days
      BY <3>2 DEF DailyInv, TypeOK, SessionsTyped, Sessions
    <3>4. <<a, session[a].date>> \in failed \/ told[a][session[a].date] = "nothing"
      BY <3>2, <3>3 DEF DailyInv, ToldIsKept, Recorded
    <3>5. \A b \in Accounts, d \in Days :
            (b # a \/ d # session[a].date) => made'[b][d] = made[b][d]
      BY <3>2, <3>3 DEF DailyInv, TypeOK, HistoriesTyped
    <3>6. made \in [Accounts -> [Days -> Nat]]
      BY DEF DailyInv, TypeOK, HistoriesTyped
    <3>7. QED BY <3>4, <3>5, <3>6
  <2>2. \/ \E a \in Accounts, guess \in Guessable : Guess(a, guess)
        \/ made' = made \/ made' = NoGuesses
    BY DEF Next, NextDay, Restart, Create, Delete, Admit, Connect, Disconnect, StartAsked, Start,
           Insert, Tell, histories
  <2>3. made \in [Accounts -> [Days -> Nat]]
    BY DEF DailyInv, TypeOK, HistoriesTyped
  <2>4. CASE made' = made \/ made' = NoGuesses
    BY <2>3, <2>4 DEF NoGuesses
  <2>5. QED BY <2>1, <2>2, <2>4
<1>2. QED BY <1>1, DailyInvariant, PTL DEF Spec, NoGuessAfterEnd

-----------------------------------------------------------------------------
(* The colors of a guess.                                                  *)

Marks == {"green", "yellow", "grey"}

\* What the loop of colorsFor carries, what it starts with and what a pass does
Marked == [colors: [Positions -> Marks], counted: [Letters -> Nat]]

Has(word, letter) == Occurrences(letter, word, Len(word))

GreensOnly(guess, word) ==
    [colors |-> [j \in Positions |-> IF guess[j] = word[j] THEN "green" ELSE "grey"],
     counted |-> [l \in Letters |->
                     Cardinality({j \in {i \in Positions : guess[i] = word[i]} : word[j] = l})]]

Pass(guess, word, i, s) ==
    IF guess[i] # word[i] /\ s.counted[guess[i]] < Has(word, guess[i])
      THEN [s EXCEPT !.colors[i] = "yellow", !.counted[guess[i]] = @ + 1]
    ELSE s

\* What holds after i passes: a letter that is still grey where the loop has been has
\* no more occurrences left
GoodAfter(guess, word, i, s) ==
    /\ \A j \in Positions : s.colors[j] = "green" <=> guess[j] = word[j]
    /\ \A l \in Letters : /\ s.counted[l] = Cardinality(Colored(guess, s.colors, l))
                          /\ s.counted[l] <= Has(word, l)
    /\ \A j \in Positions : s.colors[j] = "yellow" => j <= i
    /\ \A j \in Positions :
          j <= i /\ s.colors[j] = "grey" => s.counted[guess[j]] = Has(word, guess[j])
    /\ \A j, k \in Positions :
          j < k /\ guess[j] = guess[k] /\ s.colors[k] = "yellow" => s.colors[j] # "grey"

LEMMA WordsAre ==
  /\ Len(WordOf[1]) \in Nat /\ Positions = 1..Len(WordOf[1]) /\ IsFiniteSet(Positions)
  /\ \A w \in Guessable : w \in [Positions -> Letters] /\ Len(w) = Len(WordOf[1])
  /\ \A d \in Days : WordOf[d] \in Guessable
<1>1. 1 \in Days /\ \A d \in Days : WordOf[d] \in Guessable
  BY DailyAssumption DEF Days
<1>2. \A w \in Guessable : w \in Seq(Letters) /\ w \in [Positions -> Letters]
  BY DailyAssumption DEF Strings
<1>3. Len(WordOf[1]) \in Nat /\ Positions = 1..Len(WordOf[1])
  BY <1>1, <1>2 DEF Positions
<1>4. \A w \in Guessable : Len(w) = Len(WordOf[1])
  <2> SUFFICES ASSUME NEW w \in Guessable PROVE Len(w) = Len(WordOf[1])
    OBVIOUS
  <2>1. DOMAIN w = 1..Len(w) /\ DOMAIN w = 1..Len(WordOf[1]) /\ Len(w) \in Nat
    BY <1>2, <1>3
  <2>2. QED BY <1>3, <2>1
<1>5. IsFiniteSet(Positions)
  BY <1>3, FS_Interval
<1>6. QED BY <1>1, <1>2, <1>3, <1>4, <1>5

\* Counting in a word is counting positions.
LEMMA HasIs ==
  ASSUME NEW w \in Guessable, NEW l
  PROVE  /\ Has(w, l) = Cardinality({i \in Positions : w[i] = l}) /\ Has(w, l) \in Nat
         /\ IsFiniteSet({i \in Positions : w[i] = l})
         /\ \A S \in SUBSET {i \in Positions : w[i] = l} :
               /\ IsFiniteSet(S) /\ Cardinality(S) \in Nat /\ Cardinality(S) <= Has(w, l)
<1> DEFINE there == {i \in Positions : w[i] = l}
<1>1. Len(w) = Len(WordOf[1]) /\ Positions = 1..Len(WordOf[1]) /\ IsFiniteSet(Positions)
  BY WordsAre
<1>2. Has(w, l) = Cardinality(there)
  BY <1>1 DEF Has, Occurrences
<1>3. there \in SUBSET Positions
  OBVIOUS
<1> HIDE DEF there
<1>4. IsFiniteSet(there) /\ Cardinality(there) \in Nat
  BY <1>1, <1>3, FS_Subset, FS_CardinalityType
<1>5. \A S \in SUBSET there : IsFiniteSet(S) /\ Cardinality(S) <= Cardinality(there)
  BY <1>4, FS_Subset
<1>6. \A S \in SUBSET there : Cardinality(S) \in Nat
  BY <1>5, FS_CardinalityType
<1>7. QED BY <1>2, <1>4, <1>5, <1>6 DEF there

LEMMA GreensGood ==
  ASSUME NEW guess \in Guessable, NEW word \in Guessable
  PROVE  GreensOnly(guess, word) \in Marked /\ GoodAfter(guess, word, 0, GreensOnly(guess, word))
<1> DEFINE s == GreensOnly(guess, word)
           green(l) == {j \in {i \in Positions : guess[i] = word[i]} : word[j] = l}
<1>1. /\ s.colors = [j \in Positions |-> IF guess[j] = word[j] THEN "green" ELSE "grey"]
      /\ s.counted = [l \in Letters |-> Cardinality(green(l))]
      /\ s = [colors |-> s.colors, counted |-> s.counted]
  BY DEF GreensOnly
<1>2. ASSUME NEW l \in Letters
      PROVE  Cardinality(green(l)) \in Nat /\ Cardinality(green(l)) <= Has(word, l)
  <2>1. green(l) \in SUBSET {i \in Positions : word[i] = l}
    OBVIOUS
  <2> HIDE DEF green
  <2>2. QED BY <2>1, HasIs
<1>3. \A l \in Letters : Colored(guess, s.colors, l) = green(l)
  BY <1>1 DEF Colored
<1> HIDE DEF s, green
<1>4. s.colors \in [Positions -> Marks] /\ s.counted \in [Letters -> Nat]
  BY <1>1, <1>2 DEF Marks
<1>5. s \in Marked
  BY <1>1, <1>4 DEF Marked
<1>6. \A l \in Letters : /\ s.counted[l] = Cardinality(Colored(guess, s.colors, l))
                         /\ s.counted[l] <= Has(word, l)
  BY <1>1, <1>2, <1>3
<1>7. \A j \in Positions : j >= 1
  BY WordsAre
<1>8. GoodAfter(guess, word, 0, s)
  <2>1. \A j \in Positions : s.colors[j] = IF guess[j] = word[j] THEN "green" ELSE "grey"
    BY <1>1
  <2>2. \A j \in Positions : /\ s.colors[j] = "green" <=> guess[j] = word[j]
                            /\ s.colors[j] # "yellow"
    BY <2>1
  <2>3. \A j \in Positions : ~(j <= 0)
    <3>1. Positions \subseteq Nat
      BY WordsAre
    <3>2. QED BY <1>7, <3>1
  <2>4. QED BY <1>6, <2>2, <2>3 DEF GoodAfter
<1>9. QED BY <1>5, <1>8 DEF s

LEMMA PassGood ==
  ASSUME NEW guess \in Guessable, NEW word \in Guessable, NEW i \in Positions,
         NEW s \in Marked
  PROVE  /\ Pass(guess, word, i, s) \in Marked
         /\ GoodAfter(guess, word, i - 1, s) => GoodAfter(guess, word, i, Pass(guess, word, i, s))
<1>1. /\ s.colors \in [Positions -> Marks] /\ s.counted \in [Letters -> Nat]
      /\ guess \in [Positions -> Letters] /\ guess[i] \in Letters /\ Positions \subseteq Nat
  BY WordsAre DEF Marked
<1> DEFINE t == Pass(guess, word, i, s)
<1>2. CASE guess[i] # word[i] /\ s.counted[guess[i]] < Has(word, guess[i])
  <2>1. t = [s EXCEPT !.colors[i] = "yellow", !.counted[guess[i]] = @ + 1]
    BY <1>2 DEF Pass
  <2>2. /\ t.colors = [s.colors EXCEPT ![i] = "yellow"]
        /\ t.counted = [s.counted EXCEPT ![guess[i]] = @ + 1]
        /\ t \in Marked
    <3>1. [s.colors EXCEPT ![i] = "yellow"] \in [Positions -> Marks]
      BY <1>1 DEF Marks
    <3>2. [s.counted EXCEPT ![guess[i]] = @ + 1] \in [Letters -> Nat]
      BY <1>1
    <3>3. t = [colors |-> [s.colors EXCEPT ![i] = "yellow"],
               counted |-> [s.counted EXCEPT ![guess[i]] = @ + 1]]
      BY <2>1 DEF Marked
    <3> HIDE DEF t
    <3>4. QED BY <3>1, <3>2, <3>3 DEF Marked
  <2> HIDE DEF t
  <2>3. /\ t.colors[i] = "yellow" /\ \A j \in Positions : j # i => t.colors[j] = s.colors[j]
        /\ t.counted[guess[i]] = s.counted[guess[i]] + 1
        /\ \A l \in Letters : l # guess[i] => t.counted[l] = s.counted[l]
    BY <1>1, <2>2
  <2>4. ASSUME GoodAfter(guess, word, i - 1, s) PROVE GoodAfter(guess, word, i, t)
    <3>1. s.colors[i] = "grey"
      <4>1. s.colors[i] # "green" /\ s.colors[i] # "yellow"
        BY <1>1, <1>2, <2>4 DEF GoodAfter
      <4>2. QED BY <1>1, <4>1 DEF Marks
    <3>2. ASSUME NEW l \in Letters
          PROVE  /\ t.counted[l] = Cardinality(Colored(guess, t.colors, l))
                 /\ t.counted[l] <= Has(word, l)
      <4>1. s.counted[l] = Cardinality(Colored(guess, s.colors, l)) /\ s.counted[l] <= Has(word, l)
        BY <2>4 DEF GoodAfter
      <4>2. CASE l # guess[i]
        <5>1. Colored(guess, t.colors, l) = Colored(guess, s.colors, l)
          BY <2>3, <4>2 DEF Colored
        <5>2. QED BY <2>3, <4>1, <4>2, <5>1
      <4>3. CASE l = guess[i]
        <5>1. /\ Colored(guess, t.colors, l) = Colored(guess, s.colors, l) \union {i}
              /\ i \notin Colored(guess, s.colors, l)
          BY <2>3, <3>1, <4>3 DEF Colored
        <5>2. Colored(guess, s.colors, l) \in SUBSET {j \in Positions : guess[j] = l}
          BY DEF Colored
        <5>3. IsFiniteSet(Colored(guess, s.colors, l))
          BY <5>2, HasIs
        <5>4. Cardinality(Colored(guess, t.colors, l)) = Cardinality(Colored(guess, s.colors, l)) + 1
          BY <5>1, <5>3, FS_AddElement
        <5>5. s.counted[l] \in Nat /\ Has(word, l) \in Nat
          BY <1>1, HasIs
        <5>6. QED BY <1>2, <2>3, <4>1, <4>3, <5>4, <5>5
      <4>4. QED BY <4>2, <4>3
    <3>3. \A j \in Positions : t.colors[j] = "green" <=> guess[j] = word[j]
      BY <1>2, <2>3, <2>4 DEF GoodAfter
    <3>4. \A j \in Positions : t.colors[j] = "yellow" => j <= i
      BY <1>1, <2>3, <2>4 DEF GoodAfter
    <3>5. ASSUME NEW j \in Positions, j <= i, t.colors[j] = "grey"
          PROVE  t.counted[guess[j]] = Has(word, guess[j])
      <4>1. j # i /\ j <= i - 1 /\ s.colors[j] = "grey"
        BY <1>1, <2>3, <3>5
      <4>2. s.counted[guess[j]] = Has(word, guess[j])
        BY <2>4, <4>1 DEF GoodAfter
      <4>3. guess[j] # guess[i] /\ guess[j] \in Letters
        BY <1>1, <1>2, <4>2
      <4>4. QED BY <2>3, <4>2, <4>3
    <3>6. ASSUME NEW j \in Positions, NEW k \in Positions,
                 j < k, guess[j] = guess[k], t.colors[k] = "yellow"
          PROVE  t.colors[j] # "grey"
      <4>1. CASE k = i
        <5>1. j # i /\ j <= i - 1
          BY <1>1, <3>6, <4>1
        <5>2. s.colors[j] = "grey" => s.counted[guess[j]] = Has(word, guess[j])
          BY <2>4, <5>1 DEF GoodAfter
        <5>3. s.colors[j] # "grey"
          BY <1>1, <1>2, <3>6, <4>1, <5>2, HasIs
        <5>4. QED BY <2>3, <5>1, <5>3
      <4>2. CASE k # i
        BY <2>3, <2>4, <3>6, <4>2 DEF GoodAfter
      <4>3. QED BY <4>1, <4>2
    <3>7. QED BY <3>2, <3>3, <3>4, <3>5, <3>6 DEF GoodAfter
  <2>5. QED BY <2>2, <2>4 DEF t
<1>3. CASE ~(guess[i] # word[i] /\ s.counted[guess[i]] < Has(word, guess[i]))
  <2>1. t = s
    BY <1>3 DEF Pass
  <2>2. ASSUME GoodAfter(guess, word, i - 1, s) PROVE GoodAfter(guess, word, i, s)
    <3>1. \A j \in Positions : s.colors[j] = "yellow" => j <= i
      BY <1>1, <2>2 DEF GoodAfter
    <3>2. ASSUME NEW j \in Positions, j <= i, s.colors[j] = "grey"
          PROVE  s.counted[guess[j]] = Has(word, guess[j])
      <4>1. CASE j = i
        <5>1. guess[i] # word[i] /\ s.counted[guess[i]] <= Has(word, guess[i])
          BY <1>1, <2>2, <3>2, <4>1 DEF GoodAfter
        <5>2. s.counted[guess[i]] \in Nat /\ Has(word, guess[i]) \in Nat
          BY <1>1, HasIs
        <5>3. QED BY <1>3, <4>1, <5>1, <5>2
      <4>2. CASE j # i
        <5>1. j <= i - 1
          BY <1>1, <3>2, <4>2
        <5>2. QED BY <2>2, <3>2, <5>1 DEF GoodAfter
      <4>3. QED BY <4>1, <4>2
    <3>3. QED BY <2>2, <3>1, <3>2 DEF GoodAfter
  <2>3. QED BY <2>1, <2>2
<1>4. QED BY <1>2, <1>3

\* After the last pass the colors are right.
LEMMA LastGood ==
  ASSUME NEW guess \in Guessable, NEW word \in Guessable, NEW s \in Marked,
         GoodAfter(guess, word, Len(word), s)
  PROVE  RightColors(guess, word, s.colors)
<1>1. /\ Positions = 1..Len(word) /\ Len(word) \in Nat
      /\ guess \in [Positions -> Letters] /\ s.colors \in [Positions -> Marks]
  BY WordsAre DEF Marked
<1>2. ASSUME NEW l \in Letters
      PROVE  Cardinality(Colored(guess, s.colors, l)) =
                IF Has(guess, l) < Has(word, l) THEN Has(guess, l) ELSE Has(word, l)
  <2> DEFINE colored == Colored(guess, s.colors, l)
             there == {j \in Positions : guess[j] = l}
  <2>1. Cardinality(colored) <= Has(word, l) /\ s.counted[l] = Cardinality(colored)
    BY DEF GoodAfter
  <2>2. colored \in SUBSET there
    BY DEF Colored
  <2>3. Has(guess, l) \in Nat /\ Has(word, l) \in Nat /\ Has(guess, l) = Cardinality(there)
    BY HasIs
  <2>4. Cardinality(colored) <= Has(guess, l) /\ Cardinality(colored) \in Nat
    <3> HIDE DEF colored
    <3>1. QED BY <2>2, HasIs
  <2>5. CASE \E j \in Positions : guess[j] = l /\ s.colors[j] = "grey"
    <3>1. PICK j \in Positions : guess[j] = l /\ s.colors[j] = "grey"
      BY <2>5
    <3>2. s.counted[l] = Has(word, l)
      BY <1>1, <3>1 DEF GoodAfter
    <3> HIDE DEF colored, there
    <3>3. QED BY <2>1, <2>3, <2>4, <3>2 DEF colored
  <2>6. CASE ~\E j \in Positions : guess[j] = l /\ s.colors[j] = "grey"
    <3>1. colored = there
      BY <2>6 DEF Colored
    <3> HIDE DEF colored, there
    <3>2. QED BY <2>1, <2>3, <2>4, <3>1 DEF colored
  <2>7. QED BY <2>5, <2>6
<1>3. /\ \A i \in Positions : s.colors[i] = "green" <=> guess[i] = word[i]
      /\ \A i, j \in Positions :
            (i < j /\ guess[i] = guess[j] /\ s.colors[j] = "yellow") => s.colors[i] # "grey"
  BY DEF GoodAfter
<1>4. QED BY <1>2, <1>3 DEF RightColors, Has

\* What colorsFor returns is right, whatever is guessed at whatever word (game.go
\* colorsFor).
THEOREM ColorsForRight ==
  ASSUME NEW guess \in Guessable, NEW word \in Guessable
  PROVE  RightColors(guess, word, ColorsFor(guess, word))
<1> DEFINE n == Len(word)
           x == GreensOnly(guess, word)
           G == [z \in (1..n) \X Marked |-> Pass(guess, word, z[1], z[2])]
<1>1. n \in Nat /\ Positions = 1..n /\ guess \in [Positions -> Letters]
  BY WordsAre
<1>2. x \in Marked /\ GoodAfter(guess, word, 0, x)
  BY GreensGood
<1>3. G \in [(1..n) \X Marked -> Marked]
  <2>1. \A z \in (1..n) \X Marked : Pass(guess, word, z[1], z[2]) \in Marked
    BY <1>1, PassGood
  <2>2. QED BY <2>1
<1>4. \A i \in 1..n, s \in Marked : G[<<i, s>>] = Pass(guess, word, i, s)
  OBVIOUS
<1> DEFINE greens == {i \in Positions : guess[i] = word[i]}
           has == [l \in Letters |-> Occurrences(l, word, Len(word))]
           after[i \in 0..Len(word)] ==
             IF i = 0
               THEN [colors |-> [j \in Positions |-> IF j \in greens THEN "green" ELSE "grey"],
                     counted |-> [l \in Letters |-> Cardinality({j \in greens : word[j] = l})]]
             ELSE IF i \notin greens /\ after[i - 1].counted[guess[i]] < has[guess[i]]
               THEN [after[i - 1] EXCEPT !.colors[i] = "yellow", !.counted[guess[i]] = @ + 1]
             ELSE after[i - 1]
<1>5. ColorsFor(guess, word) = after[n].colors
  BY DEF ColorsFor
<1>6. [j \in Positions |-> IF j \in greens THEN "green" ELSE "grey"] =
        [j \in Positions |-> IF guess[j] = word[j] THEN "green" ELSE "grey"]
  OBVIOUS
<1>7. x = [colors |-> [j \in Positions |-> IF j \in greens THEN "green" ELSE "grey"],
           counted |-> [l \in Letters |-> Cardinality({j \in greens : word[j] = l})]]
  BY <1>6 DEF GreensOnly
<1>8. \A i \in 1..n, s \in Marked :
        Pass(guess, word, i, s) =
          IF i \notin greens /\ s.counted[guess[i]] < has[guess[i]]
            THEN [s EXCEPT !.colors[i] = "yellow", !.counted[guess[i]] = @ + 1]
          ELSE s
  <2>1. \A i \in 1..n : guess[i] \in Letters /\ (i \notin greens <=> guess[i] # word[i])
    BY <1>1
  <2>2. \A l \in Letters : has[l] = Has(word, l)
    BY DEF Has
  <2> HIDE DEF greens, has
  <2>3. QED BY <2>1, <2>2 DEF Pass
<1> HIDE DEF x, G
<1>9. PICK f \in [0..n -> Marked] : Stages(f, n, x, G)
  BY <1>1, <1>2, <1>3, StagesExist
<1>10. f[0] = x /\ \A i \in 1..n : f[i - 1] \in Marked /\ f[i] = Pass(guess, word, i, f[i - 1])
  BY <1>1, <1>4, <1>9 DEF Stages
<1>11. RightColors(guess, word, f[n].colors)
  <2> DEFINE T == [i \in 0..n |-> {s \in Marked : GoodAfter(guess, word, i, s)}]
  <2>1. f[0] \in T[0]
    BY <1>1, <1>2, <1>10
  <2>2. ASSUME NEW i \in 1..n, f[i - 1] \in T[i - 1] PROVE f[i] \in T[i]
    <3>1. f[i - 1] \in Marked /\ GoodAfter(guess, word, i - 1, f[i - 1])
      BY <1>1, <2>2
    <3>2. f[i] \in Marked /\ GoodAfter(guess, word, i, f[i])
      BY <1>1, <1>10, <3>1, PassGood
    <3>3. QED BY <3>2
  <2>3. T[n] = {s \in Marked : GoodAfter(guess, word, n, s)}
    BY <1>1
  <2> HIDE DEF T
  <2>4. \A i \in 0..n : f[i] \in T[i]
    BY <1>1, <2>1, <2>2, StagesHold
  <2>5. f[n] \in Marked /\ GoodAfter(guess, word, n, f[n])
    BY <1>1, <2>3, <2>4
  <2>6. QED BY <2>5, LastGood
<1> HIDE DEF greens, has
<1>12. f = [i \in 0..Len(word) |->
             IF i = 0
               THEN [colors |-> [j \in Positions |-> IF j \in greens THEN "green" ELSE "grey"],
                     counted |-> [l \in Letters |-> Cardinality({j \in greens : word[j] = l})]]
             ELSE IF i \notin greens /\ f[i - 1].counted[guess[i]] < has[guess[i]]
               THEN [f[i - 1] EXCEPT !.colors[i] = "yellow", !.counted[guess[i]] = @ + 1]
             ELSE f[i - 1]]
  <2>1. \A i \in 1..n : f[i] =
          IF i \notin greens /\ f[i - 1].counted[guess[i]] < has[guess[i]]
            THEN [f[i - 1] EXCEPT !.colors[i] = "yellow", !.counted[guess[i]] = @ + 1]
          ELSE f[i - 1]
    BY <1>8, <1>10
  <2>2. f = [i \in 0..n |-> f[i]]
    BY <1>9
  <2> HIDE DEF greens, has, n
  <2>3. \A i \in 0..n : i = 0 \/ i \in 1..n
    BY <1>1
  <2>4. \A i \in 0..n : f[i] =
          IF i = 0
            THEN [colors |-> [j \in Positions |-> IF j \in greens THEN "green" ELSE "grey"],
                  counted |-> [l \in Letters |-> Cardinality({j \in greens : word[j] = l})]]
          ELSE IF i \notin greens /\ f[i - 1].counted[guess[i]] < has[guess[i]]
            THEN [f[i - 1] EXCEPT !.colors[i] = "yellow", !.counted[guess[i]] = @ + 1]
          ELSE f[i - 1]
    BY <1>1, <1>7, <1>10, <2>1, <2>3
  <2>5. QED BY <2>2, <2>4 DEF n
<1>13. after = [i \in 0..Len(word) |->
             IF i = 0
               THEN [colors |-> [j \in Positions |-> IF j \in greens THEN "green" ELSE "grey"],
                     counted |-> [l \in Letters |-> Cardinality({j \in greens : word[j] = l})]]
             ELSE IF i \notin greens /\ after[i - 1].counted[guess[i]] < has[guess[i]]
               THEN [after[i - 1] EXCEPT !.colors[i] = "yellow", !.counted[guess[i]] = @ + 1]
             ELSE after[i - 1]]
  BY <1>12
<1> HIDE DEF after
<1>14. after[n] = f[n]
  <2>1. after[0] = f[0]
    <3>1. 0 \in 0..Len(word)
      BY <1>1
    <3>2. after[0] =
            [colors |-> [j \in Positions |-> IF j \in greens THEN "green" ELSE "grey"],
             counted |-> [l \in Letters |-> Cardinality({j \in greens : word[j] = l})]]
      BY <1>13, <3>1
    <3> HIDE DEF n
    <3>3. QED BY <1>7, <1>10, <3>2
  <2>2. ASSUME NEW i \in 1..n, after[i - 1] = f[i - 1] PROVE after[i] = f[i]
    <3>1. /\ i \in 0..n /\ i # 0 /\ i - 1 \in 0..n
      BY <1>1
    <3>2. after[i] = IF i \notin greens /\ after[i - 1].counted[guess[i]] < has[guess[i]]
            THEN [after[i - 1] EXCEPT !.colors[i] = "yellow", !.counted[guess[i]] = @ + 1]
          ELSE after[i - 1]
      BY <1>13, <3>1
    <3>3. f[i] = IF i \notin greens /\ f[i - 1].counted[guess[i]] < has[guess[i]]
            THEN [f[i - 1] EXCEPT !.colors[i] = "yellow", !.counted[guess[i]] = @ + 1]
          ELSE f[i - 1]
      BY <1>8, <1>10
    <3> HIDE DEF n
    <3>4. QED BY <2>2, <3>2, <3>3
  <2> HIDE DEF n
  <2>3. QED BY <1>1, <2>1, <2>2, SameStages
<1>15. QED BY <1>5, <1>11, <1>14

SessionRight(s) ==
    \A n \in DOMAIN s.guesses : RightColors(s.guesses[n], WordOf[s.date], s.colors[n])

\* A guess leaves the colors of the earlier ones, and has its own.
LEMMA GuessRight ==
  ASSUME DailyInv, NEW a \in Accounts, NEW guess \in Guessable, session[a] # None,
         SessionRight(session[a]), NEW over
  PROVE  LET s == session[a]
             t == [date |-> s.date, guesses |-> Append(s.guesses, guess),
                   colors |-> Append(s.colors, ColorsFor(guess, WordOf[s.date])), done |-> over]
         IN SessionRight(t)
<1> DEFINE s == session[a]
           color == ColorsFor(guess, WordOf[s.date])
           t == [date |-> s.date, guesses |-> Append(s.guesses, guess),
                 colors |-> Append(s.colors, color), done |-> over]
<1>1. s \in Sessions /\ Len(s.colors) = Len(s.guesses)
  BY DEF DailyInv, TypeOK, SessionsTyped
<1>2. s.date \in Days /\ s.guesses \in Seq(Guessable) /\ s.colors \in Seq(Colorings)
  BY <1>1 DEF Sessions
<1>3. RightColors(guess, WordOf[s.date], color)
  BY <1>2, WordsAre, ColorsForRight
<1> HIDE DEF s, color
<1>4. /\ t.date = s.date /\ t.guesses = Append(s.guesses, guess)
      /\ t.colors = Append(s.colors, color)
  OBVIOUS
<1> HIDE DEF t
<1>5. ASSUME NEW n \in DOMAIN t.guesses
      PROVE  RightColors(t.guesses[n], WordOf[t.date], t.colors[n])
  <2>1. /\ DOMAIN t.guesses = 1..(Len(s.guesses) + 1) /\ Len(s.guesses) \in Nat
        /\ DOMAIN s.guesses = 1..Len(s.guesses)
    BY <1>2, <1>4
  <2>2. CASE n = Len(s.guesses) + 1
    <3>1. t.guesses[n] = guess /\ t.colors[n] = color
      BY <1>1, <1>2, <1>4, <2>2
    <3>2. QED BY <1>3, <1>4, <3>1
  <2>3. CASE n \in 1..Len(s.guesses)
    <3>1. t.guesses[n] = s.guesses[n] /\ t.colors[n] = s.colors[n]
      BY <1>1, <1>2, <1>4, <2>3
    <3>2. QED BY <1>4, <2>1, <2>3, <3>1 DEF SessionRight, s
  <2>4. QED BY <2>1, <2>2, <2>3
<1>6. SessionRight(t)
  BY <1>5 DEF SessionRight
<1>7. QED BY <1>6 DEF t, s, color

\* As many of a letter are colored as guess and word share, the greens first and
\* then from the left, in every guess of every session (game.go colorsFor).
THEOREM ColorsAlwaysRight == Spec => []ColorsRight
<1>1. Init => ColorsRight
  BY DEF Init, ColorsRight
<1>2. DailyInv /\ ColorsRight /\ [Next]_vars => ColorsRight'
  <2> SUFFICES ASSUME DailyInv, ColorsRight, [Next]_vars,
                      NEW a \in Accounts, session'[a] # None
               PROVE  SessionRight(session'[a])
    BY DEF ColorsRight, SessionRight
  <2>1. session[a] # None => SessionRight(session[a])
    BY DEF ColorsRight, SessionRight
  <2>2. session \in [Accounts -> Sessions \union {None}]
    BY DEF DailyInv, TypeOK, SessionsTyped
  <2>3. \A day : SessionRight(Fresh(day))
    BY DEF SessionRight, Fresh
  <2>4. CASE \E b \in Accounts, guess \in Guessable : Guess(b, guess)
    <3>1. PICK b \in Accounts, guess \in Guessable : Guess(b, guess)
      BY <2>4
    <3>2. CASE b = a
      <4> DEFINE s == session[a]
                 over == AllGreen(ColorsFor(guess, WordOf[s.date]))
                           \/ Len(Append(s.guesses, guess)) >= GuessesAllowed
                 t == [date |-> s.date, guesses |-> Append(s.guesses, guess),
                       colors |-> Append(s.colors, ColorsFor(guess, WordOf[s.date])),
                       done |-> over]
      <4>1. s # None /\ session' = [session EXCEPT ![a] = t]
        BY <3>1, <3>2, Zenon DEF Guess
      <4>2. session'[a] = t
        <5> HIDE DEF t
        <5>1. QED BY <2>2, <4>1
      <4>3. SessionRight(t)
        <5> HIDE DEF over
        <5>1. QED BY <2>1, <4>1, GuessRight
      <4> HIDE DEF t
      <4>4. QED BY <4>2, <4>3
    <3>3. CASE b # a
      <4>1. session'[a] = session[a]
        BY <2>2, <3>1, <3>3 DEF Guess
      <4>2. QED BY <2>1, <4>1
    <3>4. QED BY <3>2, <3>3
  <2>5. CASE \E b \in Accounts : Start(b)
    <3>1. session'[a] = session[a] \/ session'[a] = Fresh(today)
      BY <2>2, <2>5 DEF Start
    <3>2. QED BY <2>1, <2>3, <3>1
  <2>6. CASE Restart
    BY <2>6 DEF Restart
  <2>7. \/ \E b \in Accounts, guess \in Guessable : Guess(b, guess)
        \/ \E b \in Accounts : Start(b)
        \/ Restart
        \/ session' = session
    BY DEF Next, vars, memory, NextDay, Create, Delete, Admit, Connect, Disconnect, StartAsked,
           Insert, Tell
  <2>8. QED BY <2>1, <2>4, <2>5, <2>6, <2>7
<1>3. QED BY <1>1, <1>2, DailyInvariant, PTL DEF Spec
=============================================================================
