------------------------------ MODULE OnlineSlot ------------------------------
(***************************************************************************)
(* One account, one player: the online slot a connection claims before it  *)
(* is upgraded, the takeover of a slot by a reconnect, the rating loaded   *)
(* on the way in, the world that settles ranked duels and frees the slot   *)
(* on the way out, and the server's shutdown.  Translated from             *)
(* internal/server/server.go, internal/game/presence.go, world.go (Run,    *)
(* Join, Leave) and, of the duels, what settles and saves ratings.         *)
(*                                                                         *)
(* The goroutines: one per connection, the world, the ranked service's     *)
(* worker (RankedService) and the one that shuts the server down.  The     *)
(* readers of RankedService are the connections.                           *)
(***************************************************************************)
EXTENDS RankedService, FiniteSets

CONSTANTS
    CharOf,         \* the character each connection asks to play
    AccountOf,      \* the account of each character
    MayTimeOut,     \* whether the shutdown's deadline may pass
    MaxGames        \* bound: ranked games of one character

ASSUME OnlineAssumption ==
    /\ CharOf \in [Readers -> Chars]
    /\ AccountOf \in [Chars -> Chars]
    /\ MayTimeOut \in BOOLEAN
    /\ MaxGames \in Nat

VARIABLES
    pc,         \* where each connection's goroutine is
    online,     \* presence.online, the accounts whose slot is taken
    sessions,   \* Server.sessions
    kicked,     \* the connections told to close
    cmds,       \* World.cmds, the joins and leaves in it
    players,    \* World.players
    rating,     \* each player's rating in the world
    duels,      \* the ranked duels going on, pairs of players
    world,      \* whether World.Run is "running" or "gone"
    phase,      \* how far the shutdown is
    settled     \* the ranked games the world has settled (a history)

slotVars == <<pc, online, sessions, kicked, cmds>>
worldVars == <<players, rating, duels, settled>>
onlineVars == <<serviceVars, slotVars, worldVars, world, phase>>

Account(c) == AccountOf[CharOf[c]]

OnlineInit ==
    /\ ServiceInit
    /\ pc = [c \in Readers |-> "out"]
    /\ online = {} /\ sessions = {} /\ kicked = {}
    /\ cmds = <<>>
    /\ players = {} /\ duels = {}
    /\ rating = [c \in Readers |-> 0]
    /\ settled = [x \in Chars |-> 0]
    /\ world = "running"
    /\ phase = "up"

Goto(c, from, to) == pc[c] = from /\ pc' = [pc EXCEPT ![c] = to]

-----------------------------------------------------------------------------
(* A connection.                                                           *)

\* takeOver's first claim
Arrive(c) ==
    /\ phase = "up"
    /\ IF Account(c) \in online
         THEN Goto(c, "out", "kicking") /\ UNCHANGED online
         ELSE Goto(c, "out", "claimed") /\ online' = online \union {Account(c)}
    /\ UNCHANGED <<sessions, kicked, cmds, serviceVars, worldVars, world, phase>>

\* takeOver tells the account's sessions to close
Kick(c) ==
    /\ Goto(c, "kicking", "waiting")
    /\ kicked' = kicked \union {s \in sessions : Account(s) = Account(c)}
    /\ UNCHANGED <<online, sessions, cmds, serviceVars, worldVars, world, phase>>

\* takeOver's loop finds the slot free
Retry(c) ==
    /\ Account(c) \notin online
    /\ Goto(c, "waiting", "claimed")
    /\ online' = online \union {Account(c)}
    /\ UNCHANGED <<sessions, kicked, cmds, serviceVars, worldVars, world, phase>>

\* a takeover that goes ahead when its time is up
GiveUpClaims(c) ==
    /\ Goto(c, "waiting", "claimed")
    /\ UNCHANGED <<online, sessions, kicked, cmds, serviceVars, worldVars, world, phase>>

\* takeOver's five seconds are over
GiveUp(c) ==
    /\ Goto(c, "waiting", "done")
    /\ UNCHANGED <<online, sessions, kicked, cmds, serviceVars, worldVars, world, phase>>

\* a failed upgrade that keeps the slot
UpgradeKeeps(c) ==
    /\ Goto(c, "claimed", "done")
    /\ UNCHANGED <<online, sessions, kicked, cmds, serviceVars, worldVars, world, phase>>

\* Serve returns an error and handleWS releases the slot
UpgradeFails(c) ==
    /\ Goto(c, "claimed", "done")
    /\ online' = online \ {Account(c)}
    /\ UNCHANGED <<sessions, kicked, cmds, serviceVars, worldVars, world, phase>>

\* Serve upgrades; join lists the session and asks for the rating
Upgrade(c) ==
    /\ Goto(c, "claimed", "loading")
    /\ sessions' = sessions \union {c}
    /\ Enqueue([reader |-> c, char |-> CharOf[c]])
    /\ UNCHANGED <<online, kicked, cmds, worldVars, world, phase>>

\* join has the rating and queues World.Join
Loaded(c) ==
    /\ answer[c] # <<>>
    /\ Goto(c, "loading", "live")
    /\ cmds' = Append(cmds, [op |-> "join", conn |-> c])
    /\ UNCHANGED <<online, sessions, kicked, serviceVars, worldVars, world, phase>>

\* a leave that frees the slot itself, before the world has run it
LeaveFrees(c) ==
    /\ Goto(c, "live", "done")
    /\ sessions' = sessions \ {c}
    /\ cmds' = Append(cmds, [op |-> "leave", conn |-> c])
    /\ online' = online \ {Account(c)}
    /\ UNCHANGED <<kicked, serviceVars, worldVars, world, phase>>

\* a leave that tells the world nothing of a session that was replaced
LeaveQuietly(c) ==
    /\ Goto(c, "live", "done")
    /\ sessions' = sessions \ {c}
    /\ cmds' = IF c \in kicked THEN cmds ELSE Append(cmds, [op |-> "leave", conn |-> c])
    /\ UNCHANGED <<online, kicked, serviceVars, worldVars, world, phase>>

\* The connection ends, kicked or by itself: leave unlists the session and
\* queues World.Leave.
Leave(c) ==
    /\ Goto(c, "live", "done")
    /\ sessions' = sessions \ {c}
    /\ cmds' = Append(cmds, [op |-> "leave", conn |-> c])
    /\ UNCHANGED <<online, kicked, serviceVars, worldVars, world, phase>>

Connection(c) ==
    \/ Arrive(c) \/ Kick(c) \/ Retry(c) \/ GiveUp(c)
    \/ UpgradeFails(c) \/ Upgrade(c) \/ Loaded(c) \/ Leave(c)

-----------------------------------------------------------------------------
(* The world.                                                              *)

\* settleRanked: both ratings change in the world and are handed off to be saved
Settle(duel) ==
    LET a == CHOOSE c \in duel : TRUE
        b == CHOOSE c \in duel : duel = {a, c}
    IN /\ rating' = [c \in Readers |-> IF c \in duel THEN rating[c] + 1 ELSE rating[c]]
       /\ settled' = [x \in Chars |-> IF x \in {CharOf[a], CharOf[b]}
                                       THEN settled[x] + 1 ELSE settled[x]]
       /\ Enqueue([a |-> CharOf[a], b |-> CharOf[b],
                   ratingA |-> rating'[a], ratingB |-> rating'[b]])
       /\ duels' = duels \ {duel}

Busy(c) == \E duel \in duels : c \in duel

\* World.Join's command
RunJoin(c) ==
    /\ players' = players \union {c}
    /\ rating' = [rating EXCEPT ![c] = answer[c][1]]
    /\ UNCHANGED <<online, duels, settled, serviceVars>>

\* a Leave that removes the player in the middle of a duel
RunLeaveDueling(c) ==
    IF c \notin players
      THEN UNCHANGED <<online, worldVars, serviceVars>>
      ELSE /\ players' = players \ {c}
           /\ online' = online \ {Account(c)}
           /\ UNCHANGED <<rating, duels, settled, serviceVars>>

\* World.Leave's command: the player loses the duel they were in, is removed,
\* and only then is the slot free
RunLeave(c) ==
    IF c \notin players
      THEN UNCHANGED <<online, worldVars, serviceVars>>
      ELSE /\ players' = players \ {c}
           /\ online' = online \ {Account(c)}
           /\ IF Busy(c)
                THEN Settle(CHOOSE duel \in duels : c \in duel)
                ELSE UNCHANGED <<rating, duels, settled, serviceVars>>

\* Run takes the next command
Run ==
    /\ world = "running"
    /\ cmds # <<>>
    /\ cmds' = Tail(cmds)
    /\ IF Head(cmds).op = "join" THEN RunJoin(Head(cmds).conn) ELSE RunLeave(Head(cmds).conn)
    /\ UNCHANGED <<pc, sessions, kicked, world, phase>>

\* a ranked challenge is accepted
StartRanked(c, d) ==
    /\ world = "running"
    /\ c # d /\ {c, d} \subseteq players
    /\ ~Busy(c) /\ ~Busy(d)
    /\ \A e \in {c, d} : settled[CharOf[e]] < MaxGames
    /\ duels' = duels \union {{c, d}}
    /\ UNCHANGED <<players, rating, settled, serviceVars, slotVars, world, phase>>

\* a ranked duel is solved, lost, forfeited or runs out of time
EndRanked(duel) ==
    /\ world = "running"
    /\ Settle(duel)
    /\ UNCHANGED <<players, slotVars, world, phase>>

\* Run finds the context done: any time after stopWorld, its select is random
RunReturns ==
    /\ world = "running" /\ phase \notin {"up", "draining", "closing"}
    /\ world' = "gone"
    /\ UNCHANGED <<serviceVars, slotVars, worldVars, phase>>

World ==
    \/ Run
    \/ \E c, d \in Readers : StartRanked(c, d)
    \/ \E duel \in duels : EndRanked(duel)
    \/ RunReturns

-----------------------------------------------------------------------------
(* Shutdown.                                                               *)

Phase(from, to) == phase = from /\ phase' = to

\* main stops the HTTP server
StopAccepting ==
    /\ Phase("up", "draining")
    /\ UNCHANGED <<serviceVars, slotVars, worldVars, world>>

\* its requests that are not upgraded are over, and Shutdown kicks the sessions
KickAll ==
    /\ Phase("draining", "closing")
    /\ MayTimeOut \/ \A c \in Readers : pc[c] \notin {"kicking", "waiting", "claimed"}
    /\ kicked' = kicked \union sessions
    /\ UNCHANGED <<pc, online, sessions, cmds, serviceVars, worldVars, world>>

\* conns.Wait returns and stopWorld cancels the world's context
StopWorld ==
    /\ Phase("closing", "stopped")
    /\ MayTimeOut \/ \A c \in Readers : pc[c] \in {"out", "kicking", "waiting", "done"}
    /\ UNCHANGED <<serviceVars, slotVars, worldVars, world>>

CloseRanked ==
    /\ Phase("stopped", "saving")
    /\ Close
    /\ UNCHANGED <<slotVars, worldVars, world>>

\* Close returns and the store is closed
CloseStore ==
    /\ Phase("saving", "closed")
    /\ worker = "gone"
    /\ UNCHANGED <<serviceVars, slotVars, worldVars, world>>

Shutdown == StopAccepting \/ KickAll \/ StopWorld \/ CloseRanked \/ CloseStore

Service == ServiceStep /\ UNCHANGED <<slotVars, worldVars, world, phase>>

OnlineNext == (\E c \in Readers : Connection(c)) \/ World \/ Service \/ Shutdown

OnlineSpec == OnlineInit /\ [][OnlineNext]_onlineVars

\* Every goroutine that can go on does: the worker and the callers poking it, the
\* world with its commands, a connection on its way in, or out once it was
\* told to close.  No client has to hang up by itself, nobody has to start or
\* end a duel, or shut the server down.
OnlineFairness ==
    /\ WF_onlineVars(Signal /\ UNCHANGED <<slotVars, worldVars, world, phase>>)
    /\ WF_onlineVars((Look \/ WakeUp \/ \E ok \in BOOLEAN : Work(ok))
                        /\ UNCHANGED <<slotVars, worldVars, world, phase>>)
    /\ WF_onlineVars(Run)
    /\ \A c \in Readers :
         /\ WF_onlineVars(UpgradeFails(c) \/ Upgrade(c))
         /\ WF_onlineVars(Loaded(c))
         /\ WF_onlineVars(c \in kicked /\ Leave(c))

OnlineFairSpec == OnlineSpec /\ OnlineFairness

-----------------------------------------------------------------------------
(* Properties.                                                             *)

OnlineTypeOK ==
    /\ ServiceTypeOK
    /\ pc \in [Readers -> {"out", "kicking", "waiting", "claimed",
                           "loading", "live", "done"}]
    /\ online \subseteq Chars
    /\ sessions \subseteq Readers /\ kicked \subseteq Readers /\ players \subseteq Readers
    /\ cmds \in Seq([op: {"join", "leave"}, conn: Readers])
    /\ rating \in [Readers -> Nat] /\ settled \in [Chars -> Nat]
    /\ duels \subseteq {{c, d} : c, d \in players}
    /\ world \in {"running", "gone"}
    /\ phase \in {"up", "draining", "closing", "stopped", "saving", "closed"}

Queued(c) == \E i \in DOMAIN cmds : cmds[i].conn = c

\* The connections the slot of their account is taken for
Holders ==
    {c \in Readers :
        \/ pc[c] \in {"claimed", "loading", "live"}
        \/ c \in players \/ Queued(c)}

\* No account ever has two players in the world, however its connections
\* reconnect, time out and replace each other (server.go takeOver).
OnePlayerPerAccount ==
    \A c, d \in players : Account(c) = Account(d) => c = d

\* A slot is taken exactly while one connection of the account is on its way in,
\* connected, or still to be removed by the world: no path leaks a slot, which
\* would lock the account out, or frees it early (handleWS, World.Leave).
SlotHeldOnce ==
    /\ online = {Account(c) : c \in Holders}
    /\ \A c, d \in Holders : Account(c) = Account(d) => c = d

\* The rating a player has in the world includes every ranked game their character
\* ever finished, also the one the takeover of their old connection just
\* ended (service.go 26-28, server.go join).  A store that failed excepted.
RatingIsCurrent ==
    \A c \in players : CharOf[c] \notin unsure => rating[c] = settled[CharOf[c]]

\* A session told to close is removed from the world and gives the slot up,
\* unless the world or the service has stopped by then.
KickedLeaves ==
    \A c \in Readers : (c \in kicked) ~> (c \notin Holders \/ world = "gone" \/ closed)

\* Every ranked result settled before the service is closed reaches the store, one
\* that was still queued then included.  A store that failed excepted.
ResultsReachStore ==
    \A x \in Chars, n \in 1..MaxGames :
        (settled[x] = n /\ ~closed) ~> (db[x] >= n \/ x \in unsure)

\* "Ranked results still queued get saved before the database closes" (server.go
\* 193): once the store is closed, it has every result players were told of.
ResultsSaved ==
    phase = "closed" => \A x \in Chars \ unsure : db[x] = settled[x]
=============================================================================
