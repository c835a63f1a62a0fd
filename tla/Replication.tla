------------------------------ MODULE Replication ------------------------------
(***************************************************************************)
(* What each player sees of the others: the world sends every player what  *)
(* changed near them since the last tick, through a bounded queue of the   *)
(* session's own, to a client that builds its picture from these           *)
(* differences alone.  Translated from internal/game/world.go,             *)
(* movement.go, grid.go and replication.go, internal/netconn/session.go    *)
(* (Send, writeLoop) and client/src/game.ts.                               *)
(*                                                                         *)
(* A client may reconnect: it keeps its picture until the new session's    *)
(* welcome, and gets a new entity.  Its own player is not in the picture.  *)
(* Which moves are possible is module Movement's; here any are.            *)
(***************************************************************************)
EXTENDS Integers, Sequences, FiniteSets

CONSTANTS
    Clients,
    Active,         \* bound: those whose players move and play, the others watch
    Places,         \* where players can be, <<x, y>>
    Spawns,         \* where Join may put a player
    CellSize,
    Elos,
    QueueSize,      \* sendQueueSize
    MaxIDs          \* bound: entities ever made

Vec == Int \X Int

ASSUME ReplicationAssumption ==
    /\ Active \subseteq Clients
    /\ Places \subseteq Vec /\ Spawns \subseteq Places
    /\ Spawns # {} /\ Elos # {}
    /\ CellSize \in Nat \ {0} /\ QueueSize \in Nat \ {0}
    /\ MaxIDs \in Nat

VARIABLES
    nextID,     \* the last entity's id
    players,    \* World.players
    ent,        \* each player's entity
    known,      \* player.known, the ids of the entities the client was told of
    sess,       \* each client's session: whether it is open, and its send queue
    view,       \* each client's picture, otherChars
    scene       \* what was near each player at the last tick (a history)

worldVars == <<nextID, players, ent, known, scene>>
vars == <<worldVars, sess, view>>

Empty == [id \in {} |-> 0]
Closed == [open |-> FALSE, queue |-> <<>>]

CellOf(pos) == <<pos[1] \div CellSize, pos[2] \div CellSize>>

Entity(id, pos, elo) ==
    [id |-> id, pos |-> pos, cell |-> CellOf(pos), elo |-> elo,
     moved |-> FALSE, eloChanged |-> FALSE]

\* What is left of a player who is not in the world: their rating
Gone(e) == Entity(0, CHOOSE pos \in Spawns : TRUE, e.elo)

Init ==
    /\ nextID = 0
    /\ players = {}
    /\ ent = [c \in Clients |-> Entity(0, CHOOSE pos \in Spawns : TRUE, CHOOSE elo \in Elos : TRUE)]
    /\ known = [c \in Clients |-> {}]
    /\ scene = [c \in Clients |-> Empty]
    /\ sess = [c \in Clients |-> Closed]
    /\ view = [c \in Clients |-> Empty]

-----------------------------------------------------------------------------
(* A session.                                                              *)

\* a Send that queues whatever comes
SentAlways(s, msg) == IF s.open THEN [s EXCEPT !.queue = Append(@, msg)] ELSE s

\* Send: a client too far behind is disconnected
Sent(s, msg) ==
    IF ~s.open THEN s
    ELSE IF Len(s.queue) < QueueSize THEN [s EXCEPT !.queue = Append(@, msg)]
    ELSE Closed

\* the client hangs up, a write or a ping fails, or the server closes it
Disconnect(c) ==
    /\ sess[c].open
    /\ sess' = [sess EXCEPT ![c] = Closed]
    /\ UNCHANGED <<worldVars, view>>

-----------------------------------------------------------------------------
(* The world.                                                              *)

\* newEntity
NewEntity(c, pos) == Entity(nextID + 1, pos, ent[c].elo)

\* Serve and Join: a session, an entity and a welcome
Join(c) ==
    /\ c \notin players /\ ~sess[c].open
    /\ nextID < MaxIDs
    /\ nextID' = nextID + 1
    /\ players' = players \union {c}
    /\ \E pos \in Spawns :
        LET e == NewEntity(c, pos)
        IN /\ ent' = [ent EXCEPT ![c] = e]
           /\ sess' = [sess EXCEPT ![c] =
                          Sent([open |-> TRUE, queue |-> <<>>], [type |-> "welcome"])]
    /\ UNCHANGED <<known, scene, view>>

\* Leave, once the session is gone and its reader with it
Leave(c) ==
    /\ c \in players /\ ~sess[c].open
    /\ players' = players \ {c}
    /\ ent' = [ent EXCEPT ![c] = Gone(@)]
    /\ known' = [known EXCEPT ![c] = {}]
    /\ scene' = [scene EXCEPT ![c] = Empty]
    /\ UNCHANGED <<nextID, sess, view>>

\* entityMoved, and grid.moved
Moved(e, pos) == [e EXCEPT !.pos = pos, !.moved = TRUE, !.cell = CellOf(pos)]

\* Move's command, when the move is possible
Move(c, pos) ==
    /\ c \in players \intersect Active /\ pos # ent[c].pos
    /\ ent' = [ent EXCEPT ![c] = Moved(@, pos)]
    /\ UNCHANGED <<nextID, players, known, scene, sess, view>>

\* setRating
SetRating(c, elo) ==
    /\ c \in players \intersect Active /\ elo # ent[c].elo
    /\ ent' = [ent EXCEPT ![c].elo = elo, ![c].eloChanged = TRUE]
    /\ UNCHANGED <<nextID, players, known, scene, sess, view>>

Adjacent(p, q) == \A i \in 1..2 : p[i] - q[i] \in -1..1

\* grid.near: the others in the 3 x 3 cells around c
Near(c) == {d \in players \ {c} : Adjacent(ent[d].cell, CellOf(ent[c].pos))}

Ids(ds) == {ent[d].id : d \in ds}

\* replicate, for one player
Update(c) ==
    LET old == {d \in Near(c) : ent[d].id \in known[c]}
    IN [type |-> "world",
        spawn |-> {[id |-> ent[d].id, pos |-> ent[d].pos, elo |-> ent[d].elo] : d \in Near(c) \ old},
        move |-> {[id |-> ent[d].id, pos |-> ent[d].pos] : d \in {d \in old : ent[d].moved}},
        elo |-> {[id |-> ent[d].id, elo |-> ent[d].elo] : d \in {d \in old : ent[d].eloChanged}},
        despawn |-> known[c] \ Ids(Near(c))]

Nothing(upd) == upd.spawn = {} /\ upd.move = {} /\ upd.elo = {} /\ upd.despawn = {}

\* What is to be seen around c
Scene(c) ==
    LET seen == {d \in players \ {c} : Adjacent(CellOf(ent[d].pos), CellOf(ent[c].pos))}
    IN [id \in Ids(seen) |-> LET d == CHOOSE d \in seen : ent[d].id = id
                             IN [pos |-> ent[d].pos, elo |-> ent[d].elo]]

\* a step that never forgets whom a client was told of
TickRemembers ==
    /\ UNCHANGED <<nextID, players, view>>
    /\ ent' = [c \in Clients |-> [ent[c] EXCEPT !.moved = FALSE, !.eloChanged = FALSE]]
    /\ known' = [c \in Clients |-> IF c \in players THEN known[c] \union Ids(Near(c)) ELSE known[c]]
    /\ scene' = [c \in Clients |-> IF c \in players THEN Scene(c) ELSE scene[c]]
    /\ sess' = [c \in Clients |-> IF c \in players /\ ~Nothing(Update(c))
                                    THEN Sent(sess[c], Update(c)) ELSE sess[c]]

\* step: every player is sent what changed, then the flags are cleared
Tick ==
    /\ UNCHANGED <<nextID, players, view>>
    /\ ent' = [c \in Clients |-> [ent[c] EXCEPT !.moved = FALSE, !.eloChanged = FALSE]]
    /\ known' = [c \in Clients |-> IF c \in players THEN Ids(Near(c)) ELSE known[c]]
    /\ scene' = [c \in Clients |-> IF c \in players THEN Scene(c) ELSE scene[c]]
    /\ sess' = [c \in Clients |-> IF c \in players /\ ~Nothing(Update(c))
                                    THEN Sent(sess[c], Update(c)) ELSE sess[c]]

-----------------------------------------------------------------------------
(* A client.                                                               *)

ById(recs, id) == CHOOSE r \in recs : r.id = id
IdsOf(recs) == {r.id : r \in recs}

\* applyWorldUpdate: spawns, moves, ratings, despawns
Applied(v, upd) ==
    LET spawned == [id \in DOMAIN v \union IdsOf(upd.spawn) |->
                       IF id \in IdsOf(upd.spawn)
                         THEN [pos |-> ById(upd.spawn, id).pos, elo |-> ById(upd.spawn, id).elo]
                         ELSE v[id]]
    IN [id \in DOMAIN spawned \ upd.despawn |->
           [pos |-> IF id \in IdsOf(upd.move) THEN ById(upd.move, id).pos ELSE spawned[id].pos,
            elo |-> IF id \in IdsOf(upd.elo) THEN ById(upd.elo, id).elo ELSE spawned[id].elo]]

\* a client that keeps its picture across a welcome
ReceivedWarm(v, msg) == IF msg.type = "world" THEN Applied(v, msg) ELSE v

\* The handlers of a world update and of a welcome
Received(v, msg) == IF msg.type = "world" THEN Applied(v, msg) ELSE Empty

\* writeLoop writes a message and the client handles it
Deliver(c) ==
    /\ sess[c].queue # <<>>
    /\ UNCHANGED worldVars
    /\ sess' = [sess EXCEPT ![c].queue = Tail(@)]
    /\ view' = [view EXCEPT ![c] = Received(@, Head(sess[c].queue))]

Next ==
    \/ Tick
    \/ \E c \in Clients :
        \/ Join(c) \/ Leave(c) \/ Disconnect(c) \/ Deliver(c)
        \/ \E pos \in Places : Move(c, pos)
        \/ \E elo \in Elos : SetRating(c, elo)

Spec == Init /\ [][Next]_vars

\* The world ticks and runs its commands; a message that is queued is written and
\* received, or the write fails and the session ends.
Fairness ==
    /\ WF_vars(Tick)
    /\ \A c \in Clients :
        /\ WF_vars(Leave(c))
        /\ WF_vars(sess[c].queue # <<>> /\ (Deliver(c) \/ Disconnect(c)))

FairSpec == Spec /\ Fairness

-----------------------------------------------------------------------------
(* Properties.                                                             *)

TypeOK ==
    /\ nextID \in 0..MaxIDs
    /\ players \subseteq Clients
    /\ ent \in [Clients -> [id: 0..MaxIDs, pos: Places, cell: Vec, elo: Elos,
                            moved: BOOLEAN, eloChanged: BOOLEAN]]
    /\ \A c \in Clients :
        /\ known[c] \subseteq 1..nextID
        /\ sess[c].open \in BOOLEAN /\ Len(sess[c].queue) <= QueueSize
        /\ DOMAIN view[c] \subseteq 1..nextID

\* The picture once a queue was handled
Read(v, queue) ==
    LET after[n \in 0..Len(queue)] == IF n = 0 THEN v ELSE Received(after[n - 1], queue[n])
    IN after[Len(queue)]

\* What a connected client has when it has handled everything queued for it is
\* exactly what was around its player at the last tick, each entity where it was
\* and with the rating it had: nobody is missed, left behind or shown as they
\* were, however they came, went, moved, played and reconnected
\* (replication.go replicate, game.ts applyWorldUpdate).
SceneReached ==
    \A c \in players :
        sess[c].open => Read(view[c], sess[c].queue) = scene[c]

Scenery == [c \in players |-> <<ent[c].id, ent[c].pos, ent[c].elo>>]

\* When the world comes to rest, every connected client's picture becomes what is
\* really there and stays so.
PicturesSettle ==
    (<>[][Scenery' = Scenery]_vars)
        => <>[](\A c \in players : sess[c].open => view[c] = Scene(c))
=============================================================================
