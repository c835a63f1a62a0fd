--------------------------- MODULE DuelLobbyProofs ---------------------------
(***************************************************************************)
(* Proofs about DuelLobby for any set of players and any number of         *)
(* challenges: the invariants the run checks on three players, and that    *)
(* the lobby implements Pairing.                                           *)
(***************************************************************************)
EXTENDS DuelLobby, TLAPS

USE DEF Busy, Opponent, Involves, Cancelled

(* The type of what endDuel and startDuel assign, for any duel. *)
LEMMA EndDuelType ==
    ASSUME TypeOK, NEW d \in Duel, NEW winners, EndDuel(d, winners)
    PROVE  /\ duels' \subseteq Duel
           /\ duel' \in [Players -> Duel \union {NoDuel}]
           /\ tally' \in [Players -> Tally]
           /\ rankedStarts' \in [Players -> Nat]
<1>1. Settled(d, winners) \in [Players -> Tally]
  <2>1. ASSUME NEW p \in Players, NEW o \in {"wins", "losses", "draws"}
        PROVE  Bump(tally[p], o) \in Tally
    BY DEF TypeOK, Bump, Tally
  <2>2. \A p \in Players : tally[p] \in Tally
    BY DEF TypeOK
  <2> QED BY <2>1, <2>2 DEF Settled, TypeOK
<1> QED BY <1>1 DEF EndDuel, TypeOK

LEMMA StartDuelType ==
    ASSUME TypeOK, NEW cs \in SUBSET Challenges, NEW a \in Players, NEW b \in Players,
           NEW r \in BOOLEAN, StartDuel(cs, a, b, r)
    PROVE  /\ challenges' \subseteq Challenges
           /\ duels' \subseteq Duel
           /\ duel' \in [Players -> Duel \union {NoDuel}]
           /\ tally' \in [Players -> Tally]
           /\ rankedStarts' \in [Players -> Nat]
<1>1. [a |-> a, b |-> b, ranked |-> r] \in Duel
  BY DEF Duel
<1> QED BY <1>1 DEF StartDuel, TypeOK

LEMMA TypeStep == TypeOK /\ [Next]_vars => TypeOK'
<1> SUFFICES ASSUME TypeOK, [Next]_vars PROVE TypeOK'
  OBVIOUS
<1> USE DEF rankVars
<1>1. ASSUME NEW p \in Players, Join(p) PROVE TypeOK'
  BY <1>1 DEF TypeOK, Join
<1>2. ASSUME NEW p \in Players, Leave(p) PROVE TypeOK'
  <2>1. CASE Busy(p)
    <3>1. duel[p] \in Duel
      BY <2>1 DEF TypeOK
    <3> QED BY <1>2, <2>1, <3>1, EndDuelType DEF TypeOK, Leave
  <2>2. CASE ~Busy(p)
    BY <1>2, <2>2 DEF TypeOK, Leave
  <2> QED BY <2>1, <2>2
<1>3. ASSUME NEW p \in Players, NEW t \in Players, NEW r \in BOOLEAN, Challenge(p, t, r)
      PROVE  TypeOK'
  <2>1. nextChallenge' \in Nat
    BY <1>3 DEF TypeOK, Challenge
  <2>2. [id |-> nextChallenge', from |-> p, to |-> t, ranked |-> r] \in Challenges
    BY <2>1 DEF Challenges
  <2>3. challenges' \subseteq Challenges
    BY <1>3, <2>2 DEF TypeOK, Challenge
  <2> QED BY <1>3, <2>1, <2>3 DEF TypeOK, Challenge
<1>4. ASSUME NEW p \in Players, NEW ch \in challenges, NEW y \in BOOLEAN, Respond(p, ch, y)
      PROVE  TypeOK'
  <2>1. /\ ch.from \in Players /\ ch.to \in Players /\ ch.ranked \in BOOLEAN
        /\ challenges \ {ch} \in SUBSET Challenges
    BY DEF TypeOK, Challenges
  <2>2. CASE y /\ ~Busy(p) /\ ~Busy(ch.from)
    <3>1. StartDuel(challenges \ {ch}, ch.from, p, ch.ranked)
      BY <1>4, <2>2 DEF Respond
    <3>2. /\ challenges' \subseteq Challenges
          /\ duels' \subseteq Duel
          /\ duel' \in [Players -> Duel \union {NoDuel}]
          /\ tally' \in [Players -> Tally]
          /\ rankedStarts' \in [Players -> Nat]
      BY <2>1, <3>1, StartDuelType
    <3> QED BY <1>4, <3>2 DEF Respond, TypeOK
  <2>3. CASE ~(y /\ ~Busy(p) /\ ~Busy(ch.from))
    BY <1>4, <2>1, <2>3 DEF Respond, TypeOK
  <2> QED BY <2>2, <2>3
<1>5. ASSUME NEW p \in Players, Forfeit(p) PROVE TypeOK'
  <2>1. duel[p] \in Duel
    BY <1>5 DEF Forfeit, TypeOK
  <2> QED BY <1>5, <2>1, EndDuelType DEF Forfeit, TypeOK
<1>6. ASSUME NEW p \in Players, Solve(p) PROVE TypeOK'
  <2>1. duel[p] \in Duel
    BY <1>6 DEF Solve, TypeOK
  <2> QED BY <1>6, <2>1, EndDuelType DEF Solve, TypeOK
<1>7. ASSUME NEW d \in duels, DrawDuel(d) PROVE TypeOK'
  <2>1. d \in Duel
    BY DEF TypeOK
  <2> QED BY <1>7, <2>1, EndDuelType DEF DrawDuel, TypeOK
<1>8. ASSUME NEW id \in 1..MaxChallenges, ExpireChallenges(id) PROVE TypeOK'
  BY <1>8 DEF ExpireChallenges, TypeOK
<1>9. CASE UNCHANGED vars
  BY <1>9 DEF vars, TypeOK
<1> QED BY <1>1, <1>2, <1>3, <1>4, <1>5, <1>6, <1>7, <1>8, <1>9 DEF Next

(* Every variable keeps its type, for any players and any bound: what the  *)
(* handlers and the tick assign is always of the type the code declares.   *)
THEOREM TypeCorrect == Spec => []TypeOK
<1>1. Init => TypeOK
  BY DEF Init, TypeOK, Tally
<1>2. TypeOK /\ [Next]_vars => TypeOK'
  BY TypeStep
<1> QED BY <1>1, <1>2, PTL DEF Spec

-----------------------------------------------------------------------------
(* The inductive invariant.  A challenge stays acceptable only because      *)
(* starting a duel and leaving call off every challenge of the player, and  *)
(* a duel stays mutual only because a challenge is between free players:    *)
(* neither part is inductive without the other.                             *)
LobbyInv == TypeOK /\ ChallengesAcceptable /\ OnePendingPerSender /\ DuelsMutual

\* What the invariant says of the players and duels alone, without present
DuelsPaired ==
    /\ \A d \in duels : d.a # d.b /\ duel[d.a] = d /\ duel[d.b] = d
    /\ \A p \in Players : Busy(p) => duel[p] \in duels /\ p \in {duel[p].a, duel[p].b}

(* Ending a duel keeps the others paired, and makes nobody busy. *)
LEMMA EndDuelKeeps ==
    ASSUME TypeOK, DuelsMutual, NEW d \in duels, NEW winners, EndDuel(d, winners)
    PROVE  /\ DuelsPaired'
           /\ \A q \in Players : q \in {d.a, d.b} => ~Busy(q)'
           /\ \A q \in Players : q \notin {d.a, d.b} => duel'[q] = duel[q]
           /\ duels' = duels \ {d}
<1>1. /\ d \in Duel /\ d.a \in Players /\ d.b \in Players
      /\ duels \subseteq Duel
  BY DEF TypeOK, Duel
<1>2. \A e \in duels : e.a \in Players /\ e.b \in Players
  BY <1>1 DEF Duel
<1>3. duels' = duels \ {d}
  BY DEF EndDuel
<1>4. /\ \A q \in Players : q \in {d.a, d.b} => duel'[q] = NoDuel
      /\ \A q \in Players : q \notin {d.a, d.b} => duel'[q] = duel[q]
  BY DEF EndDuel
<1>5. \A e \in duels' : e.a # e.b /\ duel'[e.a] = e /\ duel'[e.b] = e
  <2> TAKE e \in duels'
  <2>1. e \in duels /\ e # d
    BY <1>3
  <2>2. e.a \notin {d.a, d.b} /\ e.b \notin {d.a, d.b}
    BY <2>1 DEF DuelsMutual
  <2> QED BY <1>2, <1>4, <2>1, <2>2 DEF DuelsMutual
<1>6. ASSUME NEW q \in Players, duel'[q] # NoDuel
      PROVE  duel'[q] \in duels' /\ q \in {duel'[q].a, duel'[q].b}
  <2>1. q \notin {d.a, d.b} /\ duel'[q] = duel[q]
    BY <1>4, <1>6
  <2>2. duel[q] \in duels /\ q \in {duel[q].a, duel[q].b}
    BY <1>6, <2>1 DEF DuelsMutual
  <2>3. duel[q] # d
    BY <2>1, <2>2
  <2> QED BY <1>3, <2>1, <2>2, <2>3
<1> QED BY <1>3, <1>4, <1>5, <1>6 DEF DuelsPaired

(* Starting duel d between two free players pairs them and nobody else. *)
LEMMA StartDuelKeeps ==
    ASSUME TypeOK, DuelsMutual, NEW d \in Duel, d.a # d.b, ~Busy(d.a), ~Busy(d.b),
           duels' = duels \union {d},
           duel' = [p \in Players |-> IF p \in {d.a, d.b} THEN d ELSE duel[p]]
    PROVE  DuelsPaired'
<1>1. d # NoDuel /\ d.a \in Players /\ d.b \in Players
  BY NoDuelAssumption DEF Duel
<1>2. \A e \in duels : e.a \in Players /\ e.b \in Players
  BY DEF TypeOK, Duel
<1>3. \A e \in duels : e.a \notin {d.a, d.b} /\ e.b \notin {d.a, d.b}
  BY <1>2, NoDuelAssumption DEF DuelsMutual, TypeOK
<1>4. \A e \in duels' : e.a # e.b /\ duel'[e.a] = e /\ duel'[e.b] = e
  BY <1>1, <1>2, <1>3 DEF DuelsMutual
<1>5. \A q \in Players : duel'[q] # NoDuel =>
          duel'[q] \in duels' /\ q \in {duel'[q].a, duel'[q].b}
  BY DEF DuelsMutual
<1> QED BY <1>4, <1>5 DEF DuelsPaired

(* A step that ends duel d and leaves a set of challenges that were there   *)
(* before, out of the world at most one of d's players, keeps the           *)
(* invariant.  Forfeit, Solve, DrawDuel and Leave are such steps.           *)
LEMMA EndDuelInv ==
    ASSUME LobbyInv, TypeOK', NEW d \in duels, NEW winners, EndDuel(d, winners),
           challenges' \subseteq challenges, nextChallenge' = nextChallenge,
           \A q \in present : q \in present' \/ q \in {d.a, d.b},
           \A ch \in challenges' : {ch.from, ch.to} \subseteq present'
    PROVE  LobbyInv'
<1> USE DEF LobbyInv
<1>1. /\ DuelsPaired'
      /\ \A q \in Players : q \in {d.a, d.b} => ~Busy(q)'
      /\ \A q \in Players : q \notin {d.a, d.b} => duel'[q] = duel[q]
      /\ duels' = duels \ {d}
  BY EndDuelKeeps
<1>2. ChallengesAcceptable'
  <2> SUFFICES ASSUME NEW ch \in challenges'
               PROVE  /\ ch.from # ch.to
                      /\ {ch.from, ch.to} \subseteq present'
                      /\ ~Busy(ch.from)' /\ ~Busy(ch.to)'
    BY DEF ChallengesAcceptable
  <2>1. /\ ch \in challenges /\ ch.from \in Players /\ ch.to \in Players
    BY DEF TypeOK, Challenges
  <2> QED BY <1>1, <2>1 DEF ChallengesAcceptable
<1>3. OnePendingPerSender'
  BY DEF OnePendingPerSender
<1>4. DuelsMutual'
  <2>1. ASSUME NEW e \in duels' PROVE {e.a, e.b} \subseteq present'
    <3>1. e \in duels /\ e # d /\ d \in Duel /\ e \in Duel
      BY <1>1 DEF TypeOK
    <3>2. {e.a, e.b} \cap {d.a, d.b} = {}
      BY <3>1 DEF DuelsMutual
    <3> QED BY <3>1, <3>2 DEF DuelsMutual
  <2> QED BY <1>1, <2>1 DEF DuelsMutual, DuelsPaired
<1> QED BY <1>2, <1>3, <1>4

LEMMA LobbyStep == LobbyInv /\ [Next]_vars => LobbyInv'
<1> SUFFICES ASSUME LobbyInv, [Next]_vars PROVE LobbyInv'
  OBVIOUS
<1> USE DEF rankVars
<1>0. TypeOK /\ TypeOK'
  BY TypeStep DEF LobbyInv
<1>1. ASSUME NEW p \in Players, Join(p) PROVE LobbyInv'
  BY <1>0, <1>1 DEF LobbyInv, Join, ChallengesAcceptable, OnePendingPerSender, DuelsMutual
<1>2. ASSUME NEW p \in Players, Leave(p) PROVE LobbyInv'
  <2>1. \A ch \in challenges' : ch \in challenges /\ {ch.from, ch.to} \subseteq present'
    BY <1>2 DEF Leave, LobbyInv, ChallengesAcceptable
  <2>2. CASE Busy(p)
    <3>1. duel[p] \in duels /\ p \in {duel[p].a, duel[p].b}
      BY <2>2 DEF LobbyInv, DuelsMutual
    <3>2. EndDuel(duel[p], {Opponent(duel[p], p)})
      BY <1>2, <2>2 DEF Leave
    <3>3. challenges' \subseteq challenges /\ nextChallenge' = nextChallenge
      BY <1>2 DEF Leave
    <3>4. \A q \in present : q \in present' \/ q \in {duel[p].a, duel[p].b}
      BY <1>2, <3>1 DEF Leave
    <3> HIDE DEF Opponent
    <3> QED BY <1>0, <2>1, <3>1, <3>2, <3>3, <3>4, EndDuelInv
  <2>3. CASE ~Busy(p)
    <3>1. ChallengesAcceptable' /\ OnePendingPerSender'
      BY <1>2, <2>1, <2>3 DEF Leave, LobbyInv, ChallengesAcceptable, OnePendingPerSender
    <3>2. p \notin UNION {{d.a, d.b} : d \in duels}
      BY <1>0, <2>3, NoDuelAssumption DEF LobbyInv, DuelsMutual, TypeOK
    <3>3. DuelsMutual'
      BY <1>2, <2>3, <3>2 DEF Leave, LobbyInv, DuelsMutual
    <3> QED BY <1>0, <3>1, <3>3 DEF LobbyInv
  <2> QED BY <2>2, <2>3
<1>3. ASSUME NEW p \in Players, NEW t \in Players, NEW r \in BOOLEAN, Challenge(p, t, r)
      PROVE  LobbyInv'
  <2> DEFINE new == [id |-> nextChallenge + 1, from |-> p, to |-> t, ranked |-> r]
  <2>1. /\ challenges' = {ch \in challenges : ch.from # p} \union {new}
        /\ nextChallenge' = nextChallenge + 1
        /\ UNCHANGED <<present, duels, duel>>
    BY <1>3 DEF Challenge
  <2>2. ChallengesAcceptable'
    BY <1>3, <2>1 DEF Challenge, LobbyInv, ChallengesAcceptable
  <2>3. OnePendingPerSender'
    <3> SUFFICES ASSUME NEW x \in challenges', NEW y \in challenges'
                 PROVE  /\ x.id \in 1..nextChallenge'
                        /\ (x.from = y.from \/ x.id = y.id) => x = y
      BY DEF OnePendingPerSender
    <3>1. nextChallenge \in Nat /\ challenges \subseteq Challenges
      BY <1>0 DEF TypeOK
    <3>2. new.id = nextChallenge + 1 /\ new.from = p
      OBVIOUS
    <3>3. \A z \in challenges : z.id \in 1..nextChallenge
      BY DEF LobbyInv, OnePendingPerSender
    <3> HIDE DEF new
    <3>4. x.id \in 1..nextChallenge'
      BY <2>1, <3>1, <3>2, <3>3
    <3>5. (x.from = y.from \/ x.id = y.id) => x = y
      BY <2>1, <3>1, <3>2, <3>3 DEF LobbyInv, OnePendingPerSender
    <3> QED BY <3>4, <3>5
  <2>4. DuelsMutual'
    BY <2>1 DEF LobbyInv, DuelsMutual
  <2> QED BY <1>0, <2>2, <2>3, <2>4 DEF LobbyInv
<1>4. ASSUME NEW p \in Players, NEW ch \in challenges, NEW y \in BOOLEAN, Respond(p, ch, y)
      PROVE  LobbyInv'
  <2>1. /\ ch.from \in Players /\ ch.ranked \in BOOLEAN /\ ch.to = p /\ ch.from # p
        /\ ~Busy(p) /\ ~Busy(ch.from) /\ {p, ch.from} \subseteq present
        /\ UNCHANGED <<present, nextChallenge>>
    BY <1>0, <1>4 DEF Respond, TypeOK, Challenges, LobbyInv, ChallengesAcceptable
  <2>2. CASE y
    <3>1. StartDuel(challenges \ {ch}, ch.from, p, ch.ranked)
      BY <1>4, <2>1, <2>2 DEF Respond
    <3> DEFINE d == [a |-> ch.from, b |-> p, ranked |-> ch.ranked]
    <3>d. d \in Duel /\ d.a = ch.from /\ d.b = p
      BY <2>1 DEF Duel
    <3>e. /\ duels' = duels \union {d}
          /\ duel' = [q \in Players |-> IF q \in {d.a, d.b} THEN d ELSE duel[q]]
      BY <3>1 DEF StartDuel
    <3> HIDE DEF d
    <3>2. DuelsPaired'
      BY <1>0, <2>1, <3>d, <3>e, StartDuelKeeps DEF LobbyInv
    <3>3. \A c \in challenges' : /\ c \in challenges /\ c.from \in Players /\ c.to \in Players
                                 /\ c.from \notin {ch.from, p} /\ c.to \notin {ch.from, p}
      BY <1>0, <3>1 DEF StartDuel, TypeOK, Challenges
    <3>4. ChallengesAcceptable' /\ OnePendingPerSender'
      BY <2>1, <3>d, <3>e, <3>3 DEF LobbyInv, ChallengesAcceptable, OnePendingPerSender
    <3>5. DuelsMutual'
      BY <2>1, <3>d, <3>e, <3>2 DEF DuelsPaired, DuelsMutual, LobbyInv
    <3> QED BY <1>0, <3>4, <3>5 DEF LobbyInv
  <2>3. CASE ~y
    BY <1>0, <1>4, <2>1, <2>3
       DEF Respond, LobbyInv, ChallengesAcceptable, OnePendingPerSender, DuelsMutual
  <2> QED BY <2>2, <2>3
<1>5. ASSUME NEW p \in Players, Forfeit(p) \/ Solve(p) PROVE LobbyInv'
  <2>1. duel[p] \in duels
    BY <1>5 DEF Forfeit, Solve, LobbyInv, DuelsMutual
  <2>2. PICK winners : EndDuel(duel[p], winners)
    BY <1>5 DEF Forfeit, Solve
  <2>3. UNCHANGED <<present, challenges, nextChallenge>>
    BY <1>5 DEF Forfeit, Solve
  <2> QED BY <1>0, <2>1, <2>2, <2>3, EndDuelInv DEF LobbyInv, ChallengesAcceptable
<1>6. ASSUME NEW d \in duels, DrawDuel(d) PROVE LobbyInv'
  <2>1. EndDuel(d, {}) /\ UNCHANGED <<present, challenges, nextChallenge>>
    BY <1>6 DEF DrawDuel
  <2> QED BY <1>0, <2>1, EndDuelInv DEF LobbyInv, ChallengesAcceptable
<1>7. ASSUME NEW id \in 1..MaxChallenges, ExpireChallenges(id) PROVE LobbyInv'
  BY <1>0, <1>7
     DEF ExpireChallenges, LobbyInv, ChallengesAcceptable, OnePendingPerSender, DuelsMutual
<1>8. CASE UNCHANGED vars
  BY <1>0, <1>8 DEF vars, LobbyInv, ChallengesAcceptable, OnePendingPerSender, DuelsMutual
<1> QED BY <1>1, <1>2, <1>3, <1>4, <1>5, <1>6, <1>7, <1>8 DEF Next

LEMMA LobbyInvariant == Spec => []LobbyInv
<1>1. Init => LobbyInv
  BY DEF Init, LobbyInv, TypeOK, Tally, ChallengesAcceptable, OnePendingPerSender, DuelsMutual
<1>2. LobbyInv /\ [Next]_vars => LobbyInv'
  BY LobbyStep
<1> QED BY <1>1, <1>2, PTL DEF Spec

(* Every pending challenge can be accepted: its players are in the world,  *)
(* different and free, so RespondDuel's DuelBusy answer is never given.    *)
THEOREM ChallengesStayAcceptable == Spec => []ChallengesAcceptable
<1>1. LobbyInv => ChallengesAcceptable
  BY DEF LobbyInv
<1> QED BY <1>1, LobbyInvariant, PTL

(* A sender never has two challenges waiting, and no id is given twice.    *)
THEOREM PendingStayUnique == Spec => []OnePendingPerSender
<1>1. LobbyInv => OnePendingPerSender
  BY DEF LobbyInv
<1> QED BY <1>1, LobbyInvariant, PTL

(* Both players of every duel point at it and are in the world, and no     *)
(* player points at a duel that is over.                                   *)
THEOREM DuelsStayMutual == Spec => []DuelsMutual
<1>1. LobbyInv => DuelsMutual
  BY DEF LobbyInv
<1> QED BY <1>1, LobbyInvariant, PTL

-----------------------------------------------------------------------------
(* Ranked duels count exactly once.                                         *)

(* A finished ranked duel adds one game to both players' records, and a     *)
(* casual one none.                                                         *)
LEMMA SettledAddsOne ==
    ASSUME TypeOK, NEW d \in Duel, NEW winners, EndDuel(d, winners), NEW p \in Players
    PROVE  Games(p)' = Games(p) + IF d.ranked /\ p \in {d.a, d.b} THEN 1 ELSE 0
<1>1. tally[p] \in Tally
  BY DEF TypeOK
<1>2. ASSUME NEW o \in {"wins", "losses", "draws"}
      PROVE  LET t == Bump(tally[p], o) IN
             t.wins + t.losses + t.draws = tally[p].wins + tally[p].losses + tally[p].draws + 1
  BY <1>1 DEF Bump, Tally
<1>3. CASE d.ranked /\ p \in {d.a, d.b}
  <2>1. \E o \in {"wins", "losses", "draws"} : tally'[p] = Bump(tally[p], o)
    BY <1>3 DEF EndDuel, Settled
  <2> QED BY <1>2, <1>3, <2>1 DEF Games
<1>4. CASE ~(d.ranked /\ p \in {d.a, d.b})
  <2>1. tally'[p] = tally[p]
    BY <1>4 DEF EndDuel, Settled, TypeOK
  <2>2. Games(p) \in Nat
    BY <1>1 DEF Games, Tally
  <2> QED BY <1>4, <2>1, <2>2 DEF Games
<1> QED BY <1>3, <1>4

LEMMA EndDuelSettles ==
    ASSUME LobbyInv, RankedSettledOnce, NEW d \in duels, NEW winners, EndDuel(d, winners)
    PROVE  RankedSettledOnce'
<1> SUFFICES ASSUME NEW p \in Players
             PROVE  rankedStarts'[p] = Games(p)' + IF InRanked(p)' THEN 1 ELSE 0
  BY DEF RankedSettledOnce
<1>1. d \in Duel /\ TypeOK /\ DuelsMutual
  BY DEF LobbyInv, TypeOK
<1>2. /\ rankedStarts'[p] = Games(p) + IF InRanked(p) THEN 1 ELSE 0
      /\ Games(p)' = Games(p) + IF d.ranked /\ p \in {d.a, d.b} THEN 1 ELSE 0
  BY <1>1, SettledAddsOne DEF RankedSettledOnce, EndDuel
<1>3. Games(p) \in Nat
  BY <1>1 DEF TypeOK, Tally, Games
<1>4. /\ p \in {d.a, d.b} => ~Busy(p)' /\ Busy(p) /\ duel[p] = d
      /\ p \notin {d.a, d.b} => duel'[p] = duel[p]
  BY <1>1, EndDuelKeeps, NoDuelAssumption DEF DuelsMutual
<1>5. CASE p \in {d.a, d.b}
  BY <1>2, <1>3, <1>4, <1>5 DEF InRanked
<1>6. CASE p \notin {d.a, d.b}
  BY <1>2, <1>3, <1>4, <1>6 DEF InRanked
<1> QED BY <1>5, <1>6

LEMMA RankedStep == LobbyInv /\ RankedSettledOnce /\ [Next]_vars => RankedSettledOnce'
<1> SUFFICES ASSUME LobbyInv, RankedSettledOnce, [Next]_vars PROVE RankedSettledOnce'
  OBVIOUS
<1> USE DEF rankVars
<1>0. TypeOK
  BY DEF LobbyInv
<1>1. ASSUME UNCHANGED <<duel, tally, rankedStarts>> PROVE RankedSettledOnce'
  BY <1>1 DEF RankedSettledOnce, Games, InRanked
<1>2. ASSUME NEW p \in Players, Busy(p), NEW winners, EndDuel(duel[p], winners)
      PROVE  RankedSettledOnce'
  BY <1>2, EndDuelSettles DEF LobbyInv, DuelsMutual
<1>3. ASSUME NEW p \in Players, Leave(p) PROVE RankedSettledOnce'
  BY <1>1, <1>2, <1>3 DEF Leave
<1>4. ASSUME NEW p \in Players, Forfeit(p) \/ Solve(p) PROVE RankedSettledOnce'
  BY <1>2, <1>4 DEF Forfeit, Solve
<1>5. ASSUME NEW d \in duels, DrawDuel(d) PROVE RankedSettledOnce'
  BY <1>5, EndDuelSettles DEF DrawDuel
<1>6. ASSUME NEW p \in Players, NEW ch \in challenges, NEW y \in BOOLEAN, Respond(p, ch, y)
      PROVE  RankedSettledOnce'
  <2>1. CASE y /\ ~Busy(p) /\ ~Busy(ch.from)
    <3> SUFFICES ASSUME NEW q \in Players
                 PROVE  rankedStarts'[q] = Games(q)' + IF InRanked(q)' THEN 1 ELSE 0
      BY DEF RankedSettledOnce
    <3>1. StartDuel(challenges \ {ch}, ch.from, p, ch.ranked)
      BY <1>6, <2>1 DEF Respond
    <3>2. /\ Games(q)' = Games(q) /\ Games(q) \in Nat
          /\ rankedStarts[q] = Games(q) + IF InRanked(q) THEN 1 ELSE 0
      BY <1>0, <3>1 DEF StartDuel, Games, TypeOK, Tally, RankedSettledOnce
    <3> DEFINE d == [a |-> ch.from, b |-> p, ranked |-> ch.ranked]
    <3>3. d # NoDuel
      BY <1>0, NoDuelAssumption DEF TypeOK, Challenges, Duel
    <3>4. CASE q \in {ch.from, p}
      <4>1. /\ duel'[q] = d /\ ~Busy(q)
            /\ rankedStarts'[q] = IF ch.ranked THEN rankedStarts[q] + 1 ELSE rankedStarts[q]
        BY <2>1, <3>1, <3>4 DEF StartDuel
      <4> QED BY <3>2, <3>3, <4>1 DEF InRanked
    <3>5. CASE q \notin {ch.from, p}
      <4>1. duel'[q] = duel[q] /\ rankedStarts'[q] = rankedStarts[q]
        BY <3>1, <3>5 DEF StartDuel
      <4> QED BY <3>2, <4>1 DEF InRanked
    <3> QED BY <3>4, <3>5
  <2>2. CASE ~(y /\ ~Busy(p) /\ ~Busy(ch.from))
    BY <1>1, <1>6, <2>2 DEF Respond
  <2> QED BY <2>1, <2>2
<1>7. ASSUME NEW p \in Players, Join(p) PROVE RankedSettledOnce'
  BY <1>1, <1>7 DEF Join
<1>8. ASSUME NEW p \in Players, NEW t \in Players, NEW r \in BOOLEAN, Challenge(p, t, r)
      PROVE  RankedSettledOnce'
  BY <1>1, <1>8 DEF Challenge
<1>9. ASSUME NEW id \in 1..MaxChallenges, ExpireChallenges(id) PROVE RankedSettledOnce'
  BY <1>1, <1>9 DEF ExpireChallenges
<1>10. CASE UNCHANGED vars
  BY <1>1, <1>10 DEF vars
<1> QED BY <1>3, <1>4, <1>5, <1>6, <1>7, <1>8, <1>9, <1>10 DEF Next

(* Every ranked duel started adds exactly one game to both records, when it *)
(* ends: however it ends, and whoever leaves when.                          *)
THEOREM RankedCountsOnce == Spec => []RankedSettledOnce
<1>1. Init => RankedSettledOnce
  BY DEF Init, RankedSettledOnce, Games, InRanked
<1>2. LobbyInv /\ RankedSettledOnce /\ [Next]_vars => RankedSettledOnce'
  BY RankedStep
<1> QED BY <1>1, <1>2, LobbyInvariant, PTL DEF Spec

(* Only Leave takes a player out, and it settles the duel they were in.     *)
LEMMA LeaverStep ==
    ASSUME LobbyInv, [Next]_vars, NEW p \in Players, p \in present, p \notin present', InRanked(p)
    PROVE  /\ tally'[p].losses = tally[p].losses + 1
           /\ tally'[Opponent(duel[p], p)].wins = tally[Opponent(duel[p], p)].wins + 1
           /\ \A q \in Players \ {duel[p].a, duel[p].b} : tally'[q] = tally[q]
<1> USE DEF rankVars
<1>1. Leave(p)
  <2>1. ASSUME NEW q \in Players, Leave(q) PROVE q = p
    BY <2>1 DEF Leave
  <2> QED
    BY <2>1 DEF Next, vars, Join, Challenge, Respond, Forfeit, Solve, DrawDuel, ExpireChallenges
<1> DEFINE d == duel[p]
<1> DEFINE o == Opponent(duel[p], p)
<1>2. /\ d \in Duel /\ d.ranked /\ p \in {d.a, d.b} /\ d.a # d.b
      /\ o \in {d.a, d.b} /\ o # p /\ o \in Players
  BY DEF InRanked, LobbyInv, TypeOK, DuelsMutual, Duel
<1>3. tally' = Settled(d, {o})
  BY <1>1 DEF Leave, EndDuel, InRanked
<1>4. tally[p] \in Tally /\ tally[o] \in Tally
  BY <1>2 DEF LobbyInv, TypeOK
<1> HIDE DEF d, o
<1>5. /\ tally'[p] = Bump(tally[p], "losses")
      /\ tally'[o] = Bump(tally[o], "wins")
      /\ \A q \in Players \ {d.a, d.b} : tally'[q] = tally[q]
  BY <1>2, <1>3 DEF Settled
<1> QED BY <1>4, <1>5 DEF Bump, Tally, d, o

(* Leaving a ranked duel is a loss for the leaver, a win for the one left   *)
(* behind, and nothing for anybody else.                                    *)
THEOREM LeavingLoses == Spec => LeaverLoses
<1>1. LobbyInv /\ [Next]_vars =>
        [\A p \in Players :
          (p \in present /\ p \notin present' /\ InRanked(p)) =>
             /\ tally'[p].losses = tally[p].losses + 1
             /\ tally'[Opponent(duel[p], p)].wins = tally[Opponent(duel[p], p)].wins + 1
             /\ \A q \in Players \ {duel[p].a, duel[p].b} : tally'[q] = tally[q]]_vars
  BY LeaverStep
<1> QED BY <1>1, LobbyInvariant, PTL DEF Spec, LeaverLoses

-----------------------------------------------------------------------------
(* The lobby implements Pairing: every step pairs two who were alone, parts *)
(* a pair, or changes nobody's partner.                                     *)

LEMMA EndDuelParts ==
    ASSUME LobbyInv, NEW d \in duels, NEW winners, EndDuel(d, winners)
    PROVE  Pairs!Part(d.a, d.b) /\ d.a \in Players /\ d.b \in Players
<1>1. /\ d \in Duel /\ d # NoDuel /\ d.a \in Players /\ d.b \in Players /\ d.a # d.b
      /\ duel[d.a] = d /\ duel[d.b] = d
  BY NoDuelAssumption DEF LobbyInv, TypeOK, DuelsMutual, Duel
<1>2. Partner[d.a] = d.b /\ Partner[d.b] = d.a
  BY <1>1 DEF Partner
<1>3. Partner' = [Partner EXCEPT ![d.a] = NoDuel, ![d.b] = NoDuel]
  BY <1>1 DEF EndDuel, Partner
<1> QED BY <1>1, <1>2, <1>3 DEF Pairs!Part

LEMMA StartDuelPairs ==
    ASSUME LobbyInv, NEW p \in Players, NEW ch \in challenges, Respond(p, ch, TRUE)
    PROVE  Pairs!Pair(ch.from, p) /\ ch.from \in Players
<1>1. /\ ch.from \in Players /\ ch.from # p /\ ch.ranked \in BOOLEAN
      /\ duel[ch.from] = NoDuel /\ duel[p] = NoDuel
  BY DEF Respond, LobbyInv, TypeOK, Challenges, ChallengesAcceptable
<1> DEFINE d == [a |-> ch.from, b |-> p, ranked |-> ch.ranked]
<1>2. d \in Duel /\ d # NoDuel /\ d.a = ch.from /\ d.b = p
  BY <1>1, NoDuelAssumption DEF Duel
<1>3. duel' = [q \in Players |-> IF q \in {ch.from, p} THEN d ELSE duel[q]]
  BY <1>1 DEF Respond, StartDuel
<1> HIDE DEF d
<1>4. Partner' = [Partner EXCEPT ![ch.from] = p, ![p] = ch.from]
  BY <1>1, <1>2, <1>3 DEF Partner
<1>5. Partner[ch.from] = NoDuel /\ Partner[p] = NoDuel
  BY <1>1 DEF Partner
<1> QED BY <1>1, <1>4, <1>5 DEF Pairs!Pair

LEMMA PairingStep == LobbyInv /\ [Next]_vars => [Pairs!Next]_Partner
<1> SUFFICES ASSUME LobbyInv, [Next]_vars PROVE Pairs!Next \/ UNCHANGED Partner
  OBVIOUS
<1> USE DEF rankVars
<1>1. ASSUME UNCHANGED duel PROVE UNCHANGED Partner
  BY <1>1 DEF Partner
<1>2. ASSUME NEW d \in duels, NEW winners, EndDuel(d, winners) PROVE Pairs!Next
  BY <1>2, EndDuelParts DEF Pairs!Next
<1>3. ASSUME NEW p \in Players, Busy(p), NEW winners, EndDuel(duel[p], winners) PROVE Pairs!Next
  BY <1>2, <1>3 DEF LobbyInv, DuelsMutual
<1>4. ASSUME NEW p \in Players, Leave(p) PROVE Pairs!Next \/ UNCHANGED Partner
  BY <1>1, <1>3, <1>4 DEF Leave
<1>5. ASSUME NEW p \in Players, Forfeit(p) \/ Solve(p) PROVE Pairs!Next
  BY <1>3, <1>5 DEF Forfeit, Solve
<1>6. ASSUME NEW d \in duels, DrawDuel(d) PROVE Pairs!Next
  BY <1>2, <1>6 DEF DrawDuel
<1>7. ASSUME NEW p \in Players, NEW ch \in challenges, NEW y \in BOOLEAN, Respond(p, ch, y)
      PROVE  Pairs!Next \/ UNCHANGED Partner
  <2>1. CASE y = TRUE
    BY <1>7, <2>1, StartDuelPairs DEF Pairs!Next
  <2>2. CASE y = FALSE
    BY <1>1, <1>7, <2>2 DEF Respond
  <2> QED BY <2>1, <2>2
<1>8. ASSUME NEW p \in Players, Join(p) PROVE UNCHANGED Partner
  BY <1>1, <1>8 DEF Join
<1>9. ASSUME NEW p \in Players, NEW t \in Players, NEW r \in BOOLEAN, Challenge(p, t, r)
      PROVE  UNCHANGED Partner
  BY <1>1, <1>9 DEF Challenge
<1>10. ASSUME NEW id \in 1..MaxChallenges, ExpireChallenges(id) PROVE UNCHANGED Partner
  BY <1>1, <1>10 DEF ExpireChallenges
<1>11. CASE UNCHANGED vars
  BY <1>1, <1>11 DEF vars
<1> QED BY <1>4, <1>5, <1>6, <1>7, <1>8, <1>9, <1>10, <1>11 DEF Next

(* The lobby implements Pairing, with each player's opponent as partner.    *)
THEOREM LobbyImplementsPairing == Spec => ImplementsPairing
<1>1. Init => Pairs!Init
  BY DEF Init, Pairs!Init, Partner
<1>2. LobbyInv /\ [Next]_vars => [Pairs!Next]_Partner
  BY PairingStep
<1> QED BY <1>1, <1>2, LobbyInvariant, PTL DEF Spec, ImplementsPairing, Pairs!Spec
=============================================================================
