--------------------------- MODULE ReplicationProofs ---------------------------
(***************************************************************************)
(* What the clients see, for any number of clients, places, cells and any  *)
(* length of the send queues: the differences queued for a client add up   *)
(* to what was around its player at the last tick.                         *)
(***************************************************************************)
EXTENDS Replication, Loops, SequenceTheorems

-----------------------------------------------------------------------------
(* A queue is read message by message.                                     *)

\* The pictures a client can have when n entities were ever made, and the messages
Sights == [pos: Places, elo: Elos]
Pictures(n) == UNION {[D -> Sights] : D \in SUBSET (1..n)}
Worlds(n) ==
    [type: {"world"}, spawn: SUBSET [id: 1..n, pos: Places, elo: Elos],
     move: SUBSET [id: 1..n, pos: Places], elo: SUBSET [id: 1..n, elo: Elos],
     despawn: SUBSET (1..n)]
Messages(n) == [type: {"welcome"}] \union Worlds(n)

LEMMA PictureOf ==
  ASSUME NEW n, NEW v \in Pictures(n)
  PROVE  /\ v = [id \in DOMAIN v |-> v[id]] /\ DOMAIN v \subseteq 1..n
         /\ \A id \in DOMAIN v : v[id] \in Sights
<1>1. PICK D \in SUBSET (1..n) : v \in [D -> Sights]
  BY DEF Pictures
<1>2. QED BY <1>1

LEMMA MessageOf ==
  ASSUME NEW n, NEW msg \in Messages(n)
  PROVE  /\ msg.type = "world" => msg \in Worlds(n)
         /\ msg.type # "world" => msg.type = "welcome"
  BY DEF Messages, Worlds

LEMMA AppliedTyped ==
  ASSUME NEW n, NEW v \in Pictures(n), NEW upd \in Worlds(n)
  PROVE  Applied(v, upd) \in Pictures(n)
<1> DEFINE after == Applied(v, upd)
           spawned == [id \in DOMAIN v \union IdsOf(upd.spawn) |->
                       IF id \in IdsOf(upd.spawn)
                         THEN [pos |-> ById(upd.spawn, id).pos, elo |-> ById(upd.spawn, id).elo]
                         ELSE v[id]]
<1>1. /\ upd.spawn \in SUBSET [id: 1..n, pos: Places, elo: Elos]
      /\ upd.move \in SUBSET [id: 1..n, pos: Places]
      /\ upd.elo \in SUBSET [id: 1..n, elo: Elos]
  BY DEF Worlds
<1>2. \A S, id : id \in IdsOf(S) => ById(S, id) \in S
  BY DEF IdsOf, ById
<1>3. /\ \A id \in IdsOf(upd.spawn) : /\ id \in 1..n
                                      /\ ById(upd.spawn, id).pos \in Places
                                      /\ ById(upd.spawn, id).elo \in Elos
      /\ \A id \in IdsOf(upd.move) : ById(upd.move, id).pos \in Places
      /\ \A id \in IdsOf(upd.elo) : ById(upd.elo, id).elo \in Elos
  BY <1>1, <1>2 DEF IdsOf
<1>4. \A id \in DOMAIN spawned : id \in 1..n /\ spawned[id] \in Sights
  BY <1>3, PictureOf DEF Sights
<1>5. after = [id \in DOMAIN spawned \ upd.despawn |->
           [pos |-> IF id \in IdsOf(upd.move) THEN ById(upd.move, id).pos ELSE spawned[id].pos,
            elo |-> IF id \in IdsOf(upd.elo) THEN ById(upd.elo, id).elo ELSE spawned[id].elo]]
  BY DEF Applied
<1> HIDE DEF after, spawned
<1>6. \A id \in DOMAIN spawned : spawned[id].pos \in Places /\ spawned[id].elo \in Elos
  BY <1>4 DEF Sights
<1>7. after \in [DOMAIN spawned \ upd.despawn -> Sights]
  BY <1>3, <1>5, <1>6 DEF Sights
<1>8. DOMAIN spawned \ upd.despawn \in SUBSET (1..n)
  BY <1>4
<1>9. after \in Pictures(n)
  BY <1>7, <1>8 DEF Pictures
<1>10. QED BY <1>9 DEF after

LEMMA EmptyPicture ==
  ASSUME NEW n
  PROVE  Empty \in Pictures(n) /\ DOMAIN Empty = {}
<1>1. Empty \in [{} -> Sights] /\ DOMAIN Empty = {}
  BY DEF Empty
<1>2. {} \in SUBSET (1..n)
  OBVIOUS
<1>3. QED BY <1>1, <1>2 DEF Pictures

LEMMA ReceivedTyped ==
  ASSUME NEW n, NEW v \in Pictures(n), NEW msg \in Messages(n)
  PROVE  Received(v, msg) \in Pictures(n)
  BY AppliedTyped, EmptyPicture, MessageOf DEF Received

\* The pictures a client has while it reads a queue, and what Read is
Reading(f, v, queue) ==
    /\ f[0] = v
    /\ \A i \in 1..Len(queue) : f[i] = Received(f[i - 1], queue[i])

LEMMA ReadIs ==
  ASSUME NEW n, NEW v \in Pictures(n), NEW queue \in Seq(Messages(n))
  PROVE  \E f \in [0..Len(queue) -> Pictures(n)] :
            Reading(f, v, queue) /\ Read(v, queue) = f[Len(queue)]
<1> DEFINE len == Len(queue)
           S == Pictures(n)
           after[i \in 0..Len(queue)] ==
               IF i = 0 THEN v ELSE Received(after[i - 1], queue[i])
           G == [z \in (1..len) \X S |-> Received(z[2], queue[z[1]])]
<1>1. len \in Nat /\ \A i \in 1..len : queue[i] \in Messages(n)
  OBVIOUS
<1>2. \A i \in 1..len, w \in S : Received(w, queue[i]) \in S
  BY <1>1, ReceivedTyped
<1>3. PICK f \in [0..len -> S] : Reading(f, v, queue)
  <2>1. G \in [(1..len) \X S -> S]
    BY <1>2
  <2>2. PICK f \in [0..len -> S] : Stages(f, len, v, G)
    <3> HIDE DEF G, S, len
    <3>1. v \in S
      BY DEF S
    <3>2. QED BY <1>1, <2>1, <3>1, StagesExist
  <2>3. ASSUME NEW i \in 1..len PROVE f[i] = Received(f[i - 1], queue[i])
    <3>1. i - 1 \in 0..len
      BY <1>1
    <3>2. f[i - 1] \in S
      BY <2>2, <3>1
    <3>3. G[<<i, f[i - 1]>>] = Received(f[i - 1], queue[i])
      BY <3>2
    <3>4. QED BY <2>2, <3>3 DEF Stages
  <2>4. QED BY <2>2, <2>3 DEF Stages, Reading
<1>4. f = [i \in 0..len |-> IF i = 0 THEN v ELSE Received(f[i - 1], queue[i])]
  BY <1>1, <1>3 DEF Reading
<1>5. after = [i \in 0..len |-> IF i = 0 THEN v ELSE Received(after[i - 1], queue[i])]
  BY <1>4
<1>6. Read(v, queue) = after[len]
  BY DEF Read
<1> HIDE DEF after, S, len
<1>7. \A i \in 0..len : after[i] \in {f[i]}
  <2> DEFINE T == [i \in 0..len |-> {f[i]}]
  <2>1. after[0] \in T[0]
    BY <1>1, <1>3, <1>5 DEF Reading
  <2>2. ASSUME NEW i \in 1..len, after[i - 1] \in T[i - 1] PROVE after[i] \in T[i]
    <3>1. i \in 0..len /\ i - 1 \in 0..len /\ i # 0
      BY <1>1
    <3>2. after[i] = Received(f[i - 1], queue[i])
      BY <1>5, <2>2, <3>1
    <3>3. f[i] = Received(f[i - 1], queue[i])
      BY <1>3, <3>1 DEF Reading, len
    <3>4. QED BY <3>1, <3>2, <3>3
  <2>3. \A i \in 0..len : T[i] = {f[i]}
    OBVIOUS
  <2> HIDE DEF T
  <2>4. \A i \in 0..len : after[i] \in T[i]
    BY <1>1, <2>1, <2>2, StagesHold
  <2>5. QED BY <2>3, <2>4
<1>8. Read(v, queue) = f[len]
  BY <1>1, <1>6, <1>7
<1>9. QED BY <1>3, <1>8 DEF len, S

LEMMA ReadNothing ==
  ASSUME NEW n, NEW v \in Pictures(n)
  PROVE  Read(v, <<>>) = v
<1>1. <<>> \in Seq(Messages(n)) /\ Len(<<>>) = 0
  OBVIOUS
<1>2. PICK f \in [0..Len(<<>>) -> Pictures(n)] : Reading(f, v, <<>>) /\ Read(v, <<>>) = f[Len(<<>>)]
  BY <1>1, ReadIs, Zenon
<1>3. QED BY <1>1, <1>2 DEF Reading

LEMMA ReadTyped ==
  ASSUME NEW n, NEW v \in Pictures(n), NEW queue \in Seq(Messages(n))
  PROVE  Read(v, queue) \in Pictures(n)
<1>1. PICK f \in [0..Len(queue) -> Pictures(n)] : Read(v, queue) = f[Len(queue)]
  BY ReadIs
<1>2. Len(queue) \in 0..Len(queue)
  OBVIOUS
<1>3. QED BY <1>1, <1>2

\* A message more is one more to receive.
LEMMA ReadAppend ==
  ASSUME NEW n, NEW v \in Pictures(n), NEW queue \in Seq(Messages(n)), NEW msg \in Messages(n)
  PROVE  Read(v, Append(queue, msg)) = Received(Read(v, queue), msg)
<1> DEFINE len == Len(queue)
           more == Append(queue, msg)
<1>1. /\ more \in Seq(Messages(n)) /\ Len(more) = len + 1 /\ len \in Nat
      /\ more[len + 1] = msg /\ \A i \in 1..len : more[i] = queue[i]
  OBVIOUS
<1> HIDE DEF more
<1>2. PICK f \in [0..len -> Pictures(n)] : Reading(f, v, queue) /\ Read(v, queue) = f[len]
  BY ReadIs, Zenon
<1>3. PICK g \in [0..Len(more) -> Pictures(n)] : Reading(g, v, more) /\ Read(v, more) = g[Len(more)]
  BY <1>1, ReadIs, Zenon
<1> HIDE DEF len
<1>4. g[len] = f[len]
  <2>1. g[0] = f[0]
    BY <1>2, <1>3 DEF Reading
  <2>2. ASSUME NEW i \in 1..len, g[i - 1] = f[i - 1] PROVE g[i] = f[i]
    <3>1. i \in 1..Len(more)
      BY <1>1
    <3>2. g[i] = Received(g[i - 1], more[i])
      BY <1>3, <3>1 DEF Reading
    <3>3. f[i] = Received(f[i - 1], queue[i])
      BY <1>2 DEF Reading, len
    <3>4. QED BY <1>1, <2>2, <3>2, <3>3
  <2>3. QED BY <1>1, <2>1, <2>2, SameStages
<1>5. g[len + 1] = Received(g[len], msg)
  <2>1. len + 1 \in 1..Len(more) /\ (len + 1) - 1 = len
    BY <1>1
  <2>2. g[len + 1] = Received(g[(len + 1) - 1], more[len + 1])
    BY <1>3, <2>1 DEF Reading
  <2>3. QED BY <1>1, <2>1, <2>2
<1>6. QED BY <1>1, <1>2, <1>3, <1>4, <1>5 DEF more

\* What is received first leaves the rest to be read.
LEMMA ReadTail ==
  ASSUME NEW n, NEW v \in Pictures(n), NEW queue \in Seq(Messages(n)), queue # <<>>
  PROVE  Read(Received(v, Head(queue)), Tail(queue)) = Read(v, queue)
<1> DEFINE len == Len(queue)
           rest == Tail(queue)
           w == Received(v, Head(queue))
<1>1. /\ rest \in Seq(Messages(n)) /\ Len(rest) = len - 1 /\ len \in Nat \ {0}
      /\ Head(queue) = queue[1] /\ Head(queue) \in Messages(n)
      /\ \A i \in 1..(len - 1) : rest[i] = queue[i + 1]
  OBVIOUS
<1>2. w \in Pictures(n)
  BY <1>1, ReceivedTyped
<1> HIDE DEF rest, w
<1>3. PICK f \in [0..len -> Pictures(n)] : Reading(f, v, queue) /\ Read(v, queue) = f[len]
  BY ReadIs, Zenon
<1>4. PICK g \in [0..Len(rest) -> Pictures(n)] : Reading(g, w, rest) /\ Read(w, rest) = g[Len(rest)]
  <2>1. rest \in Seq(Messages(n))
    BY <1>1
  <2>2. QED BY <1>2, <2>1, ReadIs, Zenon
<1> DEFINE h == [i \in 0..(len - 1) |-> f[i + 1]]
<1>5. g[len - 1] = h[len - 1]
  <2>1. g[0] = h[0]
    <3>1. h[0] = f[1]
      BY <1>1
    <3>2. f[1] = Received(f[1 - 1], queue[1]) /\ 1 - 1 = 0
      BY <1>1, <1>3 DEF Reading
    <3>3. QED BY <1>1, <1>3, <1>4, <3>1, <3>2 DEF Reading, w
  <2>2. ASSUME NEW i \in 1..(len - 1), g[i - 1] = h[i - 1] PROVE g[i] = h[i]
    <3>1. /\ i \in 1..Len(rest) /\ i + 1 \in 1..len /\ (i + 1) - 1 = i
          /\ h[i] = f[i + 1] /\ h[i - 1] = f[i]
      BY <1>1
    <3>2. g[i] = Received(g[i - 1], rest[i])
      BY <1>4, <3>1 DEF Reading
    <3>3. f[i + 1] = Received(f[(i + 1) - 1], queue[i + 1])
      BY <1>3, <3>1 DEF Reading
    <3>4. QED BY <1>1, <2>2, <3>1, <3>2, <3>3
  <2> HIDE DEF h, len
  <2>3. len - 1 \in Nat
    BY <1>1
  <2>4. QED BY <2>1, <2>2, <2>3, SameStages
<1>6. h[len - 1] = f[len]
  BY <1>1
<1>7. QED BY <1>1, <1>3, <1>4, <1>5, <1>6 DEF rest, w

-----------------------------------------------------------------------------
(* The invariant.                                                          *)

ReplTypes ==
    /\ nextID \in 0..MaxIDs
    /\ players \subseteq Clients
    /\ ent \in [Clients -> [id: 0..MaxIDs, pos: Places, cell: Vec, elo: Elos,
                            moved: BOOLEAN, eloChanged: BOOLEAN]]
    /\ known \in [Clients -> SUBSET (1..nextID)]
    /\ scene \in [Clients -> Pictures(nextID)]
    /\ view \in [Clients -> Pictures(nextID)]
    /\ sess \in [Clients -> [open: BOOLEAN, queue: Seq(Messages(nextID))]]
    /\ \A c \in Clients : Len(sess[c].queue) <= QueueSize

\* Each player's entity has an id of its own, and is in the cell it is at
EntitiesApart ==
    /\ \A c \in players : ent[c].id \in 1..nextID /\ ent[c].cell = CellOf(ent[c].pos)
    /\ \A c, d \in players : ent[c].id = ent[d].id => c = d

\* The world knows of each client what was in view at the last tick, and marks what has
\* changed of it since: what is not marked is as it was
ChangesMarked ==
    \A c \in Clients :
        /\ DOMAIN scene[c] = known[c]
        /\ c \notin players => known[c] = {}
        /\ \A d \in players : ent[d].id \in known[c] =>
             /\ ~ent[d].moved => scene[c][ent[d].id].pos = ent[d].pos
             /\ ~ent[d].eloChanged => scene[c][ent[d].id].elo = ent[d].elo

SceneInv == ReplTypes /\ EntitiesApart /\ ChangesMarked /\ SceneReached

LEMMA CellTyped == \A pos \in Vec : CellOf(pos) \in Vec
  BY ReplicationAssumption DEF Vec, CellOf

LEMMA EntityOf ==
  ASSUME ReplTypes, NEW c \in Clients
  PROVE  /\ ent[c].id \in 0..MaxIDs /\ ent[c].pos \in Places /\ ent[c].cell \in Vec
         /\ ent[c].elo \in Elos /\ ent[c].moved \in BOOLEAN /\ ent[c].eloChanged \in BOOLEAN
         /\ ent[c].pos \in Vec
  BY ReplicationAssumption DEF ReplTypes

\* The grid's cells are those of the positions, so near is what is in view.
LEMMA NearIsSeen ==
  ASSUME SceneInv, NEW c \in players
  PROVE  /\ Near(c) = {d \in players \ {c} : Adjacent(CellOf(ent[d].pos), CellOf(ent[c].pos))}
         /\ Near(c) \subseteq players
         /\ Ids(Near(c)) \subseteq 1..nextID
  BY DEF SceneInv, EntitiesApart, Near, Ids

LEMMA SceneIs ==
  ASSUME SceneInv, NEW c \in players
  PROVE  /\ Scene(c) \in Pictures(nextID)
         /\ DOMAIN Scene(c) = Ids(Near(c))
         /\ \A d \in Near(c) : Scene(c)[ent[d].id] = [pos |-> ent[d].pos, elo |-> ent[d].elo]
<1> DEFINE seen == {d \in players \ {c} : Adjacent(CellOf(ent[d].pos), CellOf(ent[c].pos))}
           of(id) == CHOOSE d \in seen : ent[d].id = id
           sight(id) == [pos |-> ent[of(id)].pos, elo |-> ent[of(id)].elo]
<1>1. seen = Near(c) /\ seen \subseteq players /\ players \subseteq Clients
      /\ Ids(seen) \subseteq 1..nextID
  BY NearIsSeen DEF SceneInv, ReplTypes
<1>2. Scene(c) = [id \in Ids(seen) |-> sight(id)]
  BY DEF Scene
<1>3. \A d \in seen : of(ent[d].id) = d
  <2> SUFFICES ASSUME NEW d \in seen PROVE of(ent[d].id) = d
    OBVIOUS
  <2>1. of(ent[d].id) \in seen /\ ent[of(ent[d].id)].id = ent[d].id
    OBVIOUS
  <2>2. QED BY <1>1, <2>1 DEF SceneInv, EntitiesApart
<1> HIDE DEF seen, of
<1>4. \A id \in Ids(seen) : of(id) \in seen
  BY <1>3 DEF Ids
<1>5. \A id \in Ids(seen) : sight(id) \in Sights
  BY <1>1, <1>4, EntityOf DEF SceneInv, Sights
<1>6. Scene(c) \in [Ids(seen) -> Sights]
  BY <1>2, <1>5
<1>7. Scene(c) \in Pictures(nextID)
  BY <1>1, <1>6 DEF Pictures
<1>8. \A d \in seen : ent[d].id \in Ids(seen)
  BY DEF Ids
<1>9. \A d \in seen : Scene(c)[ent[d].id] = [pos |-> ent[d].pos, elo |-> ent[d].elo]
  BY <1>2, <1>3, <1>8
<1>10. QED BY <1>1, <1>2, <1>7, <1>9

LEMMA IdsAre ==
  ASSUME NEW recs, NEW ds,
         \A r \in recs : \E d \in ds : r.id = ent[d].id,
         \A d \in ds : \E r \in recs : r.id = ent[d].id
  PROVE  IdsOf(recs) = Ids(ds)
<1>1. ASSUME NEW id \in IdsOf(recs) PROVE id \in Ids(ds)
  BY DEF IdsOf, Ids
<1>2. ASSUME NEW id \in Ids(ds) PROVE id \in IdsOf(recs)
  <2>1. PICK d \in ds : id = ent[d].id
    BY DEF Ids
  <2>2. PICK r \in recs : r.id = ent[d].id
    OBVIOUS
  <2>3. QED BY <2>1, <2>2 DEF IdsOf
<1>3. QED BY <1>1, <1>2

\* What replicate sends a client, in terms of what it has: the entities that are
\* new to it, and what is marked of the others.
LEMMA UpdateIs ==
  ASSUME SceneInv, NEW c \in players
  PROVE  /\ Update(c) \in Worlds(nextID) /\ Update(c).type = "world"
         /\ Update(c).despawn = known[c] \ Ids(Near(c))
         /\ IdsOf(Update(c).spawn) = Ids(Near(c)) \ known[c]
         /\ \A d \in Near(c) :
              /\ ent[d].id \notin known[c] =>
                   /\ ById(Update(c).spawn, ent[d].id).pos = ent[d].pos
                   /\ ById(Update(c).spawn, ent[d].id).elo = ent[d].elo
              /\ ent[d].id \in IdsOf(Update(c).move) <=> ent[d].id \in known[c] /\ ent[d].moved
              /\ ent[d].id \in IdsOf(Update(c).move) =>
                   ById(Update(c).move, ent[d].id).pos = ent[d].pos
              /\ ent[d].id \in IdsOf(Update(c).elo) <=> ent[d].id \in known[c] /\ ent[d].eloChanged
              /\ ent[d].id \in IdsOf(Update(c).elo) =>
                   ById(Update(c).elo, ent[d].id).elo = ent[d].elo
<1> DEFINE old == {d \in Near(c) : ent[d].id \in known[c]}
           spawn == {[id |-> ent[d].id, pos |-> ent[d].pos, elo |-> ent[d].elo] : d \in Near(c) \ old}
           move == {[id |-> ent[d].id, pos |-> ent[d].pos] : d \in {d \in old : ent[d].moved}}
           rate == {[id |-> ent[d].id, elo |-> ent[d].elo] : d \in {d \in old : ent[d].eloChanged}}
           gone == known[c] \ Ids(Near(c))
<1>1. Update(c) = [type |-> "world", spawn |-> spawn, move |-> move, elo |-> rate, despawn |-> gone]
  BY DEF Update
<1>2. /\ Near(c) \subseteq players /\ players \subseteq Clients /\ Ids(Near(c)) \subseteq 1..nextID
      /\ known[c] \in SUBSET (1..nextID)
      /\ \A d, e \in Near(c) : ent[d].id = ent[e].id => d = e
  BY NearIsSeen DEF SceneInv, ReplTypes, EntitiesApart
<1>3. \A d \in Near(c) : ent[d].id \in 1..nextID /\ ent[d].pos \in Places /\ ent[d].elo \in Elos
  BY <1>2, EntityOf DEF SceneInv, Ids
<1>4. /\ spawn \in SUBSET [id: 1..nextID, pos: Places, elo: Elos]
      /\ move \in SUBSET [id: 1..nextID, pos: Places]
      /\ rate \in SUBSET [id: 1..nextID, elo: Elos]
      /\ gone \in SUBSET (1..nextID)
  BY <1>2, <1>3
<1>5. /\ IdsOf(spawn) = Ids(Near(c) \ old)
      /\ IdsOf(move) = Ids({d \in old : ent[d].moved})
      /\ IdsOf(rate) = Ids({d \in old : ent[d].eloChanged})
  <2>1. /\ \A r \in spawn : \E d \in Near(c) \ old : r.id = ent[d].id
        /\ \A r \in move : \E d \in {d \in old : ent[d].moved} : r.id = ent[d].id
        /\ \A r \in rate : \E d \in {d \in old : ent[d].eloChanged} : r.id = ent[d].id
    OBVIOUS
  <2>2. /\ \A d \in Near(c) \ old : \E r \in spawn : r.id = ent[d].id
        /\ \A d \in {d \in old : ent[d].moved} : \E r \in move : r.id = ent[d].id
        /\ \A d \in {d \in old : ent[d].eloChanged} : \E r \in rate : r.id = ent[d].id
    <3>1. ASSUME NEW d \in Near(c) \ old PROVE \E r \in spawn : r.id = ent[d].id
      <4>1. [id |-> ent[d].id, pos |-> ent[d].pos, elo |-> ent[d].elo] \in spawn
        OBVIOUS
      <4> HIDE DEF spawn
      <4>2. QED BY <4>1
    <3>2. ASSUME NEW d \in {d \in old : ent[d].moved} PROVE \E r \in move : r.id = ent[d].id
      <4>1. [id |-> ent[d].id, pos |-> ent[d].pos] \in move
        OBVIOUS
      <4> HIDE DEF move
      <4>2. QED BY <4>1
    <3>3. ASSUME NEW d \in {d \in old : ent[d].eloChanged} PROVE \E r \in rate : r.id = ent[d].id
      <4>1. [id |-> ent[d].id, elo |-> ent[d].elo] \in rate
        OBVIOUS
      <4> HIDE DEF rate
      <4>2. QED BY <4>1
    <3>4. QED BY <3>1, <3>2, <3>3
  <2> HIDE DEF spawn, move, rate, old
  <2>3. QED BY <2>1, <2>2, IdsAre
<1>6. \A d \in Near(c) :
        /\ ent[d].id \in IdsOf(spawn) <=> d \notin old
        /\ ent[d].id \in IdsOf(move) <=> d \in old /\ ent[d].moved
        /\ ent[d].id \in IdsOf(rate) <=> d \in old /\ ent[d].eloChanged
  BY <1>2, <1>5 DEF Ids
<1>7. IdsOf(spawn) = Ids(Near(c)) \ known[c]
  BY <1>5 DEF Ids
<1>8. \A d \in Near(c) :
        /\ ent[d].id \in IdsOf(spawn) =>
             /\ ById(spawn, ent[d].id).pos = ent[d].pos
             /\ ById(spawn, ent[d].id).elo = ent[d].elo
        /\ ent[d].id \in IdsOf(move) => ById(move, ent[d].id).pos = ent[d].pos
        /\ ent[d].id \in IdsOf(rate) => ById(rate, ent[d].id).elo = ent[d].elo
  <2> SUFFICES ASSUME NEW d \in Near(c)
      PROVE  /\ ent[d].id \in IdsOf(spawn) =>
                  /\ ById(spawn, ent[d].id).pos = ent[d].pos
                  /\ ById(spawn, ent[d].id).elo = ent[d].elo
             /\ ent[d].id \in IdsOf(move) => ById(move, ent[d].id).pos = ent[d].pos
             /\ ent[d].id \in IdsOf(rate) => ById(rate, ent[d].id).elo = ent[d].elo
    OBVIOUS
  <2>1. \A S : ent[d].id \in IdsOf(S) => /\ ById(S, ent[d].id) \in S
                                         /\ ById(S, ent[d].id).id = ent[d].id
    BY DEF IdsOf, ById
  <2>2. /\ \A r \in spawn : r.id = ent[d].id => r.pos = ent[d].pos /\ r.elo = ent[d].elo
        /\ \A r \in move : r.id = ent[d].id => r.pos = ent[d].pos
        /\ \A r \in rate : r.id = ent[d].id => r.elo = ent[d].elo
    BY <1>2
  <2> HIDE DEF spawn, move, rate
  <2>3. QED BY <2>1, <2>2
<1> HIDE DEF spawn, move, rate, gone
<1>9. Update(c) \in Worlds(nextID)
  BY <1>1, <1>4 DEF Worlds
<1>10. /\ Update(c).type = "world" /\ Update(c).spawn = spawn /\ Update(c).move = move
      /\ Update(c).elo = rate /\ Update(c).despawn = gone
  BY <1>1
<1>11. QED BY <1>6, <1>8, <1>9, <1>10, <1>7 DEF gone

\* The differences add up: an update takes a client from the last scene to the present one.
LEMMA UpdateReaches ==
  ASSUME SceneInv, NEW c \in players
  PROVE  /\ Applied(scene[c], Update(c)) = Scene(c)
         /\ Nothing(Update(c)) => Scene(c) = scene[c]
<1> DEFINE upd == Update(c)
           v == scene[c]
           spawned == [id \in DOMAIN v \union IdsOf(upd.spawn) |->
                       IF id \in IdsOf(upd.spawn)
                         THEN [pos |-> ById(upd.spawn, id).pos, elo |-> ById(upd.spawn, id).elo]
                         ELSE v[id]]
           after == Applied(v, upd)
<1>1. c \in Clients /\ v \in Pictures(nextID) /\ DOMAIN v = known[c]
  BY DEF SceneInv, ReplTypes, ChangesMarked
<1>2. /\ upd.despawn = known[c] \ Ids(Near(c))
      /\ IdsOf(upd.spawn) = Ids(Near(c)) \ known[c]
      /\ \A d \in Near(c) :
              /\ ent[d].id \notin known[c] =>
                   /\ ById(upd.spawn, ent[d].id).pos = ent[d].pos
                   /\ ById(upd.spawn, ent[d].id).elo = ent[d].elo
              /\ ent[d].id \in IdsOf(upd.move) <=> ent[d].id \in known[c] /\ ent[d].moved
              /\ ent[d].id \in IdsOf(upd.move) => ById(upd.move, ent[d].id).pos = ent[d].pos
              /\ ent[d].id \in IdsOf(upd.elo) <=> ent[d].id \in known[c] /\ ent[d].eloChanged
              /\ ent[d].id \in IdsOf(upd.elo) => ById(upd.elo, ent[d].id).elo = ent[d].elo
  BY UpdateIs
<1>3. /\ DOMAIN Scene(c) = Ids(Near(c))
      /\ Scene(c) = [id \in DOMAIN Scene(c) |-> Scene(c)[id]]
      /\ \A d \in Near(c) : Scene(c)[ent[d].id] = [pos |-> ent[d].pos, elo |-> ent[d].elo]
  BY SceneIs, PictureOf
<1>4. \A d \in Near(c) : ent[d].id \in known[c] =>
         /\ v[ent[d].id] = [pos |-> v[ent[d].id].pos, elo |-> v[ent[d].id].elo]
         /\ ~ent[d].moved => v[ent[d].id].pos = ent[d].pos
         /\ ~ent[d].eloChanged => v[ent[d].id].elo = ent[d].elo
  <2>1. \A id \in DOMAIN v : v[id] \in Sights
    BY <1>1, PictureOf
  <2>2. \A s \in Sights : s = [pos |-> s.pos, elo |-> s.elo]
    BY DEF Sights
  <2>3. QED BY <1>1, <2>1, <2>2, NearIsSeen DEF SceneInv, ChangesMarked
<1>5. after = [id \in DOMAIN spawned \ upd.despawn |->
           [pos |-> IF id \in IdsOf(upd.move) THEN ById(upd.move, id).pos ELSE spawned[id].pos,
            elo |-> IF id \in IdsOf(upd.elo) THEN ById(upd.elo, id).elo ELSE spawned[id].elo]]
  BY DEF Applied
<1>6. /\ DOMAIN spawned = known[c] \union IdsOf(upd.spawn)
      /\ \A id \in DOMAIN spawned : spawned[id] =
           IF id \in IdsOf(upd.spawn)
             THEN [pos |-> ById(upd.spawn, id).pos, elo |-> ById(upd.spawn, id).elo] ELSE v[id]
  BY <1>1
<1> HIDE DEF upd, v, spawned, after
<1>7. DOMAIN spawned \ upd.despawn = Ids(Near(c))
  BY <1>2, <1>6
<1>8. ASSUME NEW d \in Near(c)
      PROVE  after[ent[d].id] = [pos |-> ent[d].pos, elo |-> ent[d].elo]
  <2> DEFINE id == ent[d].id
  <2>1. id \in Ids(Near(c)) /\ id \in DOMAIN spawned
    BY <1>7 DEF Ids
  <2>2. after[id] =
           [pos |-> IF id \in IdsOf(upd.move) THEN ById(upd.move, id).pos ELSE spawned[id].pos,
            elo |-> IF id \in IdsOf(upd.elo) THEN ById(upd.elo, id).elo ELSE spawned[id].elo]
    BY <1>5, <1>7, <2>1
  <2>3. CASE id \in known[c]
    <3>1. spawned[id] = v[id]
      BY <1>2, <1>6, <2>1, <2>3
    <3>2. /\ id \in IdsOf(upd.move) <=> ent[d].moved
          /\ id \in IdsOf(upd.move) => ById(upd.move, id).pos = ent[d].pos
          /\ id \in IdsOf(upd.elo) <=> ent[d].eloChanged
          /\ id \in IdsOf(upd.elo) => ById(upd.elo, id).elo = ent[d].elo
      BY <1>2, <2>3
    <3>3. /\ ~ent[d].moved => spawned[id].pos = ent[d].pos
          /\ ~ent[d].eloChanged => spawned[id].elo = ent[d].elo
      BY <1>4, <2>3, <3>1
    <3>4. /\ (IF id \in IdsOf(upd.move) THEN ById(upd.move, id).pos ELSE spawned[id].pos)
               = ent[d].pos
          /\ (IF id \in IdsOf(upd.elo) THEN ById(upd.elo, id).elo ELSE spawned[id].elo)
               = ent[d].elo
      <4> HIDE DEF id
      <4>1. QED BY <3>2, <3>3
    <3>5. QED BY <2>2, <3>4
  <2>4. CASE id \notin known[c]
    <3>1. spawned[id] = [pos |-> ent[d].pos, elo |-> ent[d].elo]
      BY <1>2, <1>6, <2>1, <2>4
    <3>2. id \notin IdsOf(upd.move) /\ id \notin IdsOf(upd.elo)
      BY <1>2, <2>4
    <3>3. QED BY <2>2, <3>1, <3>2
  <2>5. QED BY <2>3, <2>4
<1>9. after = Scene(c)
  <2>1. DOMAIN after = Ids(Near(c)) /\ after = [id \in DOMAIN after |-> after[id]]
    BY <1>5, <1>7
  <2>2. ASSUME NEW id \in Ids(Near(c)) PROVE after[id] = Scene(c)[id]
    <3>1. PICK d \in Near(c) : id = ent[d].id
      BY DEF Ids
    <3>2. QED BY <1>3, <1>8, <3>1
  <2>3. QED BY <1>3, <2>1, <2>2
<1>10. ASSUME Nothing(upd) PROVE Scene(c) = v
  <2>1. upd.despawn = {} /\ IdsOf(upd.spawn) = {} /\ IdsOf(upd.move) = {} /\ IdsOf(upd.elo) = {}
    BY <1>10 DEF Nothing, IdsOf
  <2>2. known[c] = Ids(Near(c))
    <3>1. known[c] \subseteq Ids(Near(c)) /\ Ids(Near(c)) \subseteq known[c]
      BY <1>2, <2>1
    <3>2. QED BY <3>1
  <2>3. \A d \in Near(c) : ent[d].id \in known[c] /\ ~ent[d].moved /\ ~ent[d].eloChanged
    BY <1>2, <2>1, <2>2 DEF Ids
  <2>4. ASSUME NEW d \in Near(c) PROVE v[ent[d].id] = Scene(c)[ent[d].id]
    <3>1. /\ v[ent[d].id] = [pos |-> v[ent[d].id].pos, elo |-> v[ent[d].id].elo]
          /\ v[ent[d].id].pos = ent[d].pos /\ v[ent[d].id].elo = ent[d].elo
      BY <1>4, <2>3
    <3>2. Scene(c)[ent[d].id] = [pos |-> ent[d].pos, elo |-> ent[d].elo]
      BY <1>3
    <3>3. QED BY <3>1, <3>2
  <2>5. \A id \in Ids(Near(c)) : v[id] = Scene(c)[id]
    BY <2>4 DEF Ids
  <2>6. v = [id \in DOMAIN v |-> v[id]] /\ DOMAIN v = Ids(Near(c))
    BY <1>1, <2>2, PictureOf
  <2>7. QED BY <1>3, <2>5, <2>6
<1>11. QED BY <1>9, <1>10 DEF upd, v, after

-----------------------------------------------------------------------------
(* Every step keeps the invariant.                                         *)

\* What was made stays, when more entities are.
LEMMA MoreIDs ==
  ASSUME NEW n \in Nat, NEW m \in Nat, n <= m
  PROVE  /\ Pictures(n) \subseteq Pictures(m)
         /\ Messages(n) \subseteq Messages(m)
         /\ Seq(Messages(n)) \subseteq Seq(Messages(m))
<1>1. 1..n \subseteq 1..m
  OBVIOUS
<1>2. Pictures(n) \subseteq Pictures(m)
  <2>1. ASSUME NEW v \in Pictures(n) PROVE v \in Pictures(m)
    <3>1. PICK D \in SUBSET (1..n) : v \in [D -> Sights]
      BY DEF Pictures
    <3>2. D \in SUBSET (1..m)
      BY <1>1
    <3>3. QED BY <3>1, <3>2 DEF Pictures
  <2>2. QED BY <2>1
<1>3. Messages(n) \subseteq Messages(m)
  <2>1. /\ [id: 1..n, pos: Places, elo: Elos] \subseteq [id: 1..m, pos: Places, elo: Elos]
        /\ [id: 1..n, pos: Places] \subseteq [id: 1..m, pos: Places]
        /\ [id: 1..n, elo: Elos] \subseteq [id: 1..m, elo: Elos]
    BY <1>1
  <2>2. ASSUME NEW upd \in Worlds(n) PROVE upd \in Worlds(m)
    <3>1. /\ upd = [type |-> upd.type, spawn |-> upd.spawn, move |-> upd.move,
                    elo |-> upd.elo, despawn |-> upd.despawn]
          /\ upd.type = "world"
          /\ upd.spawn \subseteq [id: 1..n, pos: Places, elo: Elos]
          /\ upd.move \subseteq [id: 1..n, pos: Places]
          /\ upd.elo \subseteq [id: 1..n, elo: Elos] /\ upd.despawn \subseteq 1..n
      BY DEF Worlds
    <3>2. /\ upd.spawn \in SUBSET [id: 1..m, pos: Places, elo: Elos]
          /\ upd.move \in SUBSET [id: 1..m, pos: Places]
          /\ upd.elo \in SUBSET [id: 1..m, elo: Elos] /\ upd.despawn \in SUBSET (1..m)
      <4> HIDE <1>1
      <4>1. QED BY <1>1, <2>1, <3>1, Zenon
    <3>3. QED BY <3>1, <3>2 DEF Worlds
  <2>3. QED BY <2>2 DEF Messages
<1>4. Seq(Messages(n)) \subseteq Seq(Messages(m))
  <2>1. ASSUME NEW q \in Seq(Messages(n)) PROVE q \in Seq(Messages(m))
    <3>1. Len(q) \in Nat /\ q \in [1..Len(q) -> Messages(n)]
      OBVIOUS
    <3>2. q \in [1..Len(q) -> Messages(m)]
      BY <1>3, <3>1
    <3>3. QED BY <3>1, <3>2
  <2>2. QED BY <2>1
<1>5. QED BY <1>2, <1>3, <1>4

LEMMA EntityTyped ==
  ASSUME NEW id \in 0..MaxIDs, NEW pos \in Places, NEW elo \in Elos
  PROVE  Entity(id, pos, elo) \in [id: 0..MaxIDs, pos: Places, cell: Vec, elo: Elos,
                                   moved: BOOLEAN, eloChanged: BOOLEAN]
<1>1. CellOf(pos) \in Vec
  BY CellTyped, ReplicationAssumption
<1>2. QED BY <1>1 DEF Entity

LEMMA SceneInit == Init => SceneInv
<1> SUFFICES ASSUME Init PROVE SceneInv
  OBVIOUS
<1>1. (CHOOSE pos \in Spawns : TRUE) \in Places /\ (CHOOSE elo \in Elos : TRUE) \in Elos
  BY ReplicationAssumption
<1>2. Entity(0, CHOOSE pos \in Spawns : TRUE, CHOOSE elo \in Elos : TRUE)
        \in [id: 0..MaxIDs, pos: Places, cell: Vec, elo: Elos, moved: BOOLEAN, eloChanged: BOOLEAN]
  BY <1>1, EntityTyped, ReplicationAssumption
<1>3. Empty \in Pictures(0) /\ DOMAIN Empty = {}
  BY EmptyPicture
<1>4. Closed \in [open: BOOLEAN, queue: Seq(Messages(0))] /\ Len(Closed.queue) = 0
  BY DEF Closed
<1>5. ReplTypes
  BY <1>2, <1>3, <1>4, ReplicationAssumption DEF Init, ReplTypes
<1>6. EntitiesApart /\ ChangesMarked /\ SceneReached
  BY <1>3 DEF Init, EntitiesApart, ChangesMarked, SceneReached
<1>7. QED BY <1>5, <1>6 DEF SceneInv

\* A client in the world that is not known of anybody has nothing to be told.
LEMMA NothingSeen ==
  ASSUME SceneInv, NEW c \in Clients, c \notin players
  PROVE  known[c] = {} /\ scene[c] = Empty
<1>1. known[c] = {} /\ DOMAIN scene[c] = {} /\ scene[c] \in Pictures(nextID)
  BY DEF SceneInv, ReplTypes, ChangesMarked
<1>2. scene[c] = [id \in DOMAIN scene[c] |-> scene[c][id]]
  BY <1>1, PictureOf
<1>3. QED BY <1>1, <1>2 DEF Empty

LEMMA JoinStep ==
  ASSUME SceneInv, NEW c \in Clients, Join(c)
  PROVE  SceneInv'
<1> DEFINE Ents == [id: 0..MaxIDs, pos: Places, cell: Vec, elo: Elos,
                    moved: BOOLEAN, eloChanged: BOOLEAN]
           welcome == [type |-> "welcome"]
<1>1. /\ nextID \in 0..MaxIDs /\ nextID < MaxIDs /\ nextID \in Nat /\ nextID + 1 \in Nat
      /\ nextID' = nextID + 1 /\ nextID <= nextID + 1
      /\ c \notin players /\ players' = players \union {c} /\ players \subseteq Clients
      /\ known' = known /\ scene' = scene /\ view' = view
  BY ReplicationAssumption DEF Join, SceneInv, ReplTypes
<1>2. PICK pos \in Spawns :
        /\ ent' = [ent EXCEPT ![c] = NewEntity(c, pos)]
        /\ sess' = [sess EXCEPT ![c] = Sent([open |-> TRUE, queue |-> <<>>], welcome)]
  BY DEF Join
<1>3. /\ Pictures(nextID) \subseteq Pictures(nextID + 1)
      /\ Messages(nextID) \subseteq Messages(nextID + 1)
      /\ Seq(Messages(nextID)) \subseteq Seq(Messages(nextID + 1))
  BY <1>1, MoreIDs
<1>4. /\ NewEntity(c, pos) \in Ents /\ NewEntity(c, pos).id = nextID + 1
      /\ NewEntity(c, pos).cell = CellOf(NewEntity(c, pos).pos)
  <2>1. ent[c].elo \in Elos
    BY DEF SceneInv, ReplTypes
  <2>2. nextID + 1 \in 0..MaxIDs /\ pos \in Places
    BY <1>1, ReplicationAssumption
  <2>3. NewEntity(c, pos) \in Ents
    BY <2>1, <2>2, EntityTyped DEF NewEntity
  <2>4. QED BY <2>3 DEF NewEntity, Entity
<1>5. Sent([open |-> TRUE, queue |-> <<>>], welcome) = [open |-> TRUE, queue |-> <<welcome>>]
  <2>1. 0 < QueueSize
    BY ReplicationAssumption
  <2>2. Len(<<>>) = 0 /\ Append(<<>>, welcome) = <<welcome>>
    OBVIOUS
  <2>3. QED BY <2>1, <2>2 DEF Sent
<1>6. <<welcome>> \in Seq(Messages(nextID + 1)) /\ Len(<<welcome>>) = 1
  <2>1. welcome \in Messages(nextID + 1)
    BY DEF Messages
  <2>2. QED BY <2>1
<1>7. /\ sess'[c].open /\ sess'[c].queue = <<welcome>>
       /\ \A d \in Clients : d # c => sess'[d] = sess[d]
  BY <1>2, <1>5 DEF SceneInv, ReplTypes
<1> HIDE DEF Ents, welcome
<1>8. ReplTypes'
  <2>1. nextID' \in 0..MaxIDs /\ players' \subseteq Clients
    BY <1>1, ReplicationAssumption
  <2>2. ent' \in [Clients -> Ents]
    BY <1>2, <1>4 DEF SceneInv, ReplTypes, Ents
  <2>3. known' \in [Clients -> SUBSET (1..(nextID + 1))]
    <3>1. 1..nextID \subseteq 1..(nextID + 1)
      BY <1>1
    <3>2. QED BY <1>1, <3>1 DEF SceneInv, ReplTypes
  <2>4. scene' \in [Clients -> Pictures(nextID + 1)] /\ view' \in [Clients -> Pictures(nextID + 1)]
    BY <1>1, <1>3 DEF SceneInv, ReplTypes
  <2>5. sess' \in [Clients -> [open: BOOLEAN, queue: Seq(Messages(nextID + 1))]]
    <3>1. [open |-> TRUE, queue |-> <<welcome>>] \in [open: BOOLEAN, queue: Seq(Messages(nextID + 1))]
      BY <1>6
    <3>2. \A d \in Clients : sess[d] \in [open: BOOLEAN, queue: Seq(Messages(nextID + 1))]
      BY <1>3 DEF SceneInv, ReplTypes
    <3>3. QED BY <1>2, <1>5, <3>1, <3>2 DEF SceneInv, ReplTypes
  <2>6. \A d \in Clients : Len(sess'[d].queue) <= QueueSize
    <3>1. 1 <= QueueSize
      BY ReplicationAssumption
    <3>2. QED BY <1>6, <1>7, <3>1 DEF SceneInv, ReplTypes
  <2>7. QED BY <1>1, <2>1, <2>2, <2>3, <2>4, <2>5, <2>6 DEF ReplTypes, Ents
<1>9. /\ ent'[c].id = nextID + 1 /\ ent'[c].cell = CellOf(ent'[c].pos)
      /\ \A d \in players : d # c /\ ent'[d] = ent[d]
  BY <1>1, <1>2, <1>4 DEF SceneInv, ReplTypes
<1>10. \A d \in players : ent[d].id \in 1..nextID
  BY DEF SceneInv, EntitiesApart
<1>11. EntitiesApart'
  <2>1. \A d \in players' : ent'[d].id \in 1..nextID' /\ ent'[d].cell = CellOf(ent'[d].pos)
    BY <1>1, <1>9 DEF SceneInv, EntitiesApart
  <2>2. \A d, e \in players' : ent'[d].id = ent'[e].id => d = e
    BY <1>1, <1>9, <1>10 DEF SceneInv, EntitiesApart
  <2>3. QED BY <2>1, <2>2 DEF EntitiesApart
<1>12. ChangesMarked'
  <2> SUFFICES ASSUME NEW d \in Clients
      PROVE  /\ DOMAIN scene'[d] = known'[d]
             /\ d \notin players' => known'[d] = {}
             /\ \A e \in players' : ent'[e].id \in known'[d] =>
                  /\ ~ent'[e].moved => scene'[d][ent'[e].id].pos = ent'[e].pos
                  /\ ~ent'[e].eloChanged => scene'[d][ent'[e].id].elo = ent'[e].elo
    BY DEF ChangesMarked
  <2>1. known[d] \subseteq 1..nextID
    BY DEF SceneInv, ReplTypes
  <2>2. nextID + 1 \notin known[d]
    BY <1>1, <2>1
  <2>3. QED BY <1>1, <1>9, <2>2 DEF SceneInv, ChangesMarked
<1>13. SceneReached'
  <2>1. Read(view[c], <<welcome>>) = Empty
    <3>1. view[c] \in Pictures(nextID) /\ <<>> \in Seq(Messages(nextID)) /\ welcome \in Messages(nextID)
      BY DEF SceneInv, ReplTypes, Messages, welcome
    <3>2. Read(view[c], Append(<<>>, welcome)) = Received(Read(view[c], <<>>), welcome)
      BY <3>1, ReadAppend
    <3>3. Append(<<>>, welcome) = <<welcome>> /\ welcome.type # "world"
      BY DEF welcome
    <3>4. QED BY <3>2, <3>3 DEF Received
  <2>2. Read(view'[c], sess'[c].queue) = scene'[c]
    BY <1>1, <1>7, <2>1, NothingSeen
  <2>3. ASSUME NEW d \in players, sess'[d].open PROVE Read(view'[d], sess'[d].queue) = scene'[d]
    BY <1>1, <1>7, <2>3 DEF SceneInv, SceneReached
  <2>4. QED BY <1>1, <2>2, <2>3 DEF SceneReached
<1>14. QED BY <1>8, <1>11, <1>12, <1>13 DEF SceneInv

\* Whoever leaves forgets, and is known of no more than anybody who is away.
LEMMA LeaveStep ==
  ASSUME SceneInv, NEW c \in Clients, Leave(c)
  PROVE  SceneInv'
<1>1. /\ nextID' = nextID /\ sess' = sess /\ view' = view
      /\ players' = players \ {c}
      /\ \A d \in Clients : d # c => ent'[d] = ent[d] /\ known'[d] = known[d] /\ scene'[d] = scene[d]
      /\ ent'[c] = Gone(ent[c]) /\ known'[c] = {} /\ scene'[c] = Empty
      /\ ent' = [ent EXCEPT ![c] = Gone(@)]
      /\ known' = [known EXCEPT ![c] = {}]
      /\ scene' = [scene EXCEPT ![c] = Empty]
  BY DEF Leave, SceneInv, ReplTypes
<1>2. Empty \in Pictures(nextID) /\ DOMAIN Empty = {}
  BY EmptyPicture
<1>3. ReplTypes'
  <2>1. Gone(ent[c]) \in [id: 0..MaxIDs, pos: Places, cell: Vec, elo: Elos,
                          moved: BOOLEAN, eloChanged: BOOLEAN]
    <3>1. ent[c].elo \in Elos /\ 0 \in 0..MaxIDs /\ (CHOOSE pos \in Spawns : TRUE) \in Places
      BY ReplicationAssumption DEF SceneInv, ReplTypes
    <3>2. QED BY <3>1, EntityTyped DEF Gone
  <2>2. ent' \in [Clients -> [id: 0..MaxIDs, pos: Places, cell: Vec, elo: Elos,
                              moved: BOOLEAN, eloChanged: BOOLEAN]]
    BY <1>1, <2>1 DEF SceneInv, ReplTypes
  <2>3. known' \in [Clients -> SUBSET (1..nextID)] /\ scene' \in [Clients -> Pictures(nextID)]
    BY <1>1, <1>2 DEF SceneInv, ReplTypes
  <2>4. QED BY <1>1, <2>2, <2>3 DEF SceneInv, ReplTypes
<1>4. EntitiesApart'
  BY <1>1 DEF SceneInv, ReplTypes, EntitiesApart
<1>5. ChangesMarked'
  BY <1>1, <1>2 DEF SceneInv, ReplTypes, ChangesMarked
<1>6. SceneReached'
  BY <1>1 DEF SceneInv, ReplTypes, SceneReached
<1>7. QED BY <1>3, <1>4, <1>5, <1>6 DEF SceneInv

LEMMA DisconnectStep ==
  ASSUME SceneInv, NEW c \in Clients, Disconnect(c)
  PROVE  SceneInv'
<1>1. /\ UNCHANGED <<nextID, players, ent, known, scene, view>>
      /\ sess' = [sess EXCEPT ![c] = Closed]
  BY DEF Disconnect, worldVars
<1>2. /\ Closed \in [open: BOOLEAN, queue: Seq(Messages(nextID))]
      /\ Len(Closed.queue) = 0 /\ ~Closed.open
  BY DEF Closed
<1>3. ReplTypes'
  <2>1. sess' \in [Clients -> [open: BOOLEAN, queue: Seq(Messages(nextID))]]
    BY <1>1, <1>2 DEF SceneInv, ReplTypes
  <2>2. \A d \in Clients : Len(sess'[d].queue) <= QueueSize
    BY <1>1, <1>2, ReplicationAssumption DEF SceneInv, ReplTypes
  <2>3. QED BY <1>1, <2>1, <2>2 DEF SceneInv, ReplTypes
<1>4. EntitiesApart' /\ ChangesMarked'
  BY <1>1 DEF SceneInv, EntitiesApart, ChangesMarked
<1>5. SceneReached'
  BY <1>1, <1>2 DEF SceneInv, ReplTypes, SceneReached
<1>6. QED BY <1>3, <1>4, <1>5 DEF SceneInv

\* A move and a new rating mark what they change.
LEMMA MoveStep ==
  ASSUME SceneInv, NEW c \in Clients, NEW pos \in Places, Move(c, pos)
  PROVE  SceneInv'
<1>1. /\ UNCHANGED <<nextID, players, known, scene, sess, view>>
      /\ c \in players /\ ent' = [ent EXCEPT ![c] = Moved(@, pos)]
  BY DEF Move
<1>2. /\ Moved(ent[c], pos) \in [id: 0..MaxIDs, pos: Places, cell: Vec, elo: Elos,
                                 moved: BOOLEAN, eloChanged: BOOLEAN]
      /\ Moved(ent[c], pos).id = ent[c].id /\ Moved(ent[c], pos).moved
      /\ Moved(ent[c], pos).pos = pos /\ Moved(ent[c], pos).cell = CellOf(pos)
      /\ Moved(ent[c], pos).elo = ent[c].elo /\ Moved(ent[c], pos).eloChanged = ent[c].eloChanged
  <2>1. CellOf(pos) \in Vec
    BY CellTyped, ReplicationAssumption
  <2>2. ent[c] \in [id: 0..MaxIDs, pos: Places, cell: Vec, elo: Elos,
                    moved: BOOLEAN, eloChanged: BOOLEAN]
    BY DEF SceneInv, ReplTypes
  <2>3. QED BY <2>1, <2>2 DEF Moved
<1>3. \A d \in Clients : ent'[d] = IF d = c THEN Moved(ent[c], pos) ELSE ent[d]
  BY <1>1 DEF SceneInv, ReplTypes
<1>4. ReplTypes'
  BY <1>1, <1>2 DEF SceneInv, ReplTypes
<1>5. players \subseteq Clients
  BY DEF SceneInv, ReplTypes
<1>6. EntitiesApart'
  BY <1>1, <1>2, <1>3, <1>5 DEF SceneInv, EntitiesApart
<1>7. ChangesMarked'
  BY <1>1, <1>2, <1>3, <1>5 DEF SceneInv, ChangesMarked
<1>8. SceneReached'
  BY <1>1 DEF SceneInv, SceneReached
<1>9. QED BY <1>4, <1>6, <1>7, <1>8 DEF SceneInv

LEMMA SetRatingStep ==
  ASSUME SceneInv, NEW c \in Clients, NEW elo \in Elos, SetRating(c, elo)
  PROVE  SceneInv'
<1> DEFINE rated == [ent[c] EXCEPT !.elo = elo, !.eloChanged = TRUE]
<1>1. /\ UNCHANGED <<nextID, players, known, scene, sess, view>>
      /\ c \in players /\ ent' = [ent EXCEPT ![c] = rated]
  BY DEF SetRating, SceneInv, ReplTypes
<1>2. /\ rated \in [id: 0..MaxIDs, pos: Places, cell: Vec, elo: Elos,
                    moved: BOOLEAN, eloChanged: BOOLEAN]
      /\ rated.id = ent[c].id /\ rated.moved = ent[c].moved
      /\ rated.pos = ent[c].pos /\ rated.cell = ent[c].cell
      /\ rated.elo = elo /\ rated.eloChanged
  <2>1. ent[c] \in [id: 0..MaxIDs, pos: Places, cell: Vec, elo: Elos,
                    moved: BOOLEAN, eloChanged: BOOLEAN]
    BY DEF SceneInv, ReplTypes
  <2>2. QED BY <2>1
<1> HIDE DEF rated
<1>3. \A d \in Clients : ent'[d] = IF d = c THEN rated ELSE ent[d]
  BY <1>1 DEF SceneInv, ReplTypes
<1>4. ReplTypes'
  BY <1>1, <1>2 DEF SceneInv, ReplTypes
<1>5. players \subseteq Clients
  BY DEF SceneInv, ReplTypes
<1>6. EntitiesApart'
  BY <1>1, <1>2, <1>3, <1>5 DEF SceneInv, EntitiesApart
<1>7. ChangesMarked'
  BY <1>1, <1>2, <1>3, <1>5 DEF SceneInv, ChangesMarked
<1>8. SceneReached'
  BY <1>1 DEF SceneInv, SceneReached
<1>9. QED BY <1>4, <1>6, <1>7, <1>8 DEF SceneInv

\* A client that handles a message is nearer to the same scene.
LEMMA DeliverStep ==
  ASSUME SceneInv, NEW c \in Clients, Deliver(c)
  PROVE  SceneInv'
<1> DEFINE queue == sess[c].queue
           seen == Received(view[c], Head(queue))
<1>1. /\ UNCHANGED <<nextID, players, ent, known, scene>>
      /\ queue # <<>>
      /\ sess' = [sess EXCEPT ![c].queue = Tail(queue)]
      /\ view' = [view EXCEPT ![c] = seen]
  BY DEF Deliver, worldVars, SceneInv, ReplTypes
<1>2. /\ queue \in Seq(Messages(nextID)) /\ view[c] \in Pictures(nextID)
      /\ sess[c].open \in BOOLEAN /\ Len(queue) <= QueueSize
  BY DEF SceneInv, ReplTypes
<1>3. /\ Head(queue) \in Messages(nextID) /\ Tail(queue) \in Seq(Messages(nextID))
      /\ Len(Tail(queue)) = Len(queue) - 1 /\ Len(queue) \in Nat
  BY <1>1, <1>2
<1>4. seen \in Pictures(nextID)
  BY <1>2, <1>3, ReceivedTyped
<1>5. Read(seen, Tail(queue)) = Read(view[c], queue)
  <2> HIDE DEF queue
  <2>1. QED BY <1>1, <1>2, ReadTail
<1>6. /\ sess'[c].open = sess[c].open /\ sess'[c].queue = Tail(queue)
      /\ \A d \in Clients : d # c => sess'[d] = sess[d] /\ view'[d] = view[d]
      /\ view'[c] = seen
  BY <1>1 DEF SceneInv, ReplTypes
<1> HIDE DEF queue, seen
<1>7. ReplTypes'
  <2>1. sess' \in [Clients -> [open: BOOLEAN, queue: Seq(Messages(nextID))]]
    BY <1>1, <1>3 DEF SceneInv, ReplTypes
  <2>2. \A d \in Clients : Len(sess'[d].queue) <= QueueSize
    <3>1. Len(Tail(queue)) <= QueueSize
      BY <1>2, <1>3, ReplicationAssumption
    <3>2. QED BY <1>6, <3>1 DEF SceneInv, ReplTypes
  <2>3. view' \in [Clients -> Pictures(nextID)]
    BY <1>1, <1>4 DEF SceneInv, ReplTypes
  <2>4. QED BY <1>1, <2>1, <2>2, <2>3 DEF SceneInv, ReplTypes
<1>8. EntitiesApart' /\ ChangesMarked'
  BY <1>1 DEF SceneInv, EntitiesApart, ChangesMarked
<1>9. SceneReached'
  <2>1. c \in players /\ sess[c].open => Read(view[c], queue) = scene[c]
    BY DEF SceneInv, SceneReached, queue
  <2>2. ASSUME NEW d \in players', sess'[d].open
        PROVE  Read(view'[d], sess'[d].queue) = scene'[d]
    <3>1. d \in players /\ d \in Clients
      BY <1>1 DEF SceneInv, ReplTypes
    <3>2. CASE d = c
      BY <1>1, <1>5, <1>6, <2>1, <2>2, <3>1, <3>2
    <3>3. CASE d # c
      BY <1>1, <1>6, <2>2, <3>1, <3>3 DEF SceneInv, SceneReached
    <3>4. QED BY <3>2, <3>3
  <2>3. QED BY <2>2 DEF SceneReached
<1>10. QED BY <1>7, <1>8, <1>9 DEF SceneInv

\* A tick sends everybody what changed, and clears the marks.
LEMMA TickStep ==
  ASSUME SceneInv, Tick
  PROVE  SceneInv'
<1>1. /\ UNCHANGED <<nextID, players, view>>
      /\ ent' = [c \in Clients |-> [ent[c] EXCEPT !.moved = FALSE, !.eloChanged = FALSE]]
      /\ known' = [c \in Clients |-> IF c \in players THEN Ids(Near(c)) ELSE known[c]]
      /\ scene' = [c \in Clients |-> IF c \in players THEN Scene(c) ELSE scene[c]]
      /\ sess' = [c \in Clients |-> IF c \in players /\ ~Nothing(Update(c))
                                      THEN Sent(sess[c], Update(c)) ELSE sess[c]]
  BY DEF Tick
<1>2. players \subseteq Clients
  BY DEF SceneInv, ReplTypes
<1>3. \A c \in Clients :
        /\ ent'[c] \in [id: 0..MaxIDs, pos: Places, cell: Vec, elo: Elos,
                        moved: BOOLEAN, eloChanged: BOOLEAN]
        /\ ent'[c].id = ent[c].id /\ ent'[c].pos = ent[c].pos
        /\ ent'[c].cell = ent[c].cell /\ ent'[c].elo = ent[c].elo
  <2> SUFFICES ASSUME NEW c \in Clients
      PROVE  /\ ent'[c] \in [id: 0..MaxIDs, pos: Places, cell: Vec, elo: Elos,
                             moved: BOOLEAN, eloChanged: BOOLEAN]
             /\ ent'[c].id = ent[c].id /\ ent'[c].pos = ent[c].pos
             /\ ent'[c].cell = ent[c].cell /\ ent'[c].elo = ent[c].elo
    OBVIOUS
  <2>1. ent[c] \in [id: 0..MaxIDs, pos: Places, cell: Vec, elo: Elos,
                    moved: BOOLEAN, eloChanged: BOOLEAN]
    BY DEF SceneInv, ReplTypes
  <2>2. ent'[c] = [ent[c] EXCEPT !.moved = FALSE, !.eloChanged = FALSE]
    BY <1>1
  <2>3. QED BY <2>1, <2>2
<1>4. ASSUME NEW c \in players
      PROVE  /\ Update(c) \in Messages(nextID) /\ Update(c).type = "world"
             /\ Ids(Near(c)) \in SUBSET (1..nextID)
             /\ Scene(c) \in Pictures(nextID) /\ DOMAIN Scene(c) = Ids(Near(c))
  BY UpdateIs, NearIsSeen, SceneIs DEF Messages
<1>5. ASSUME NEW c \in Clients
      PROVE  /\ sess'[c] \in [open: BOOLEAN, queue: Seq(Messages(nextID))]
             /\ Len(sess'[c].queue) <= QueueSize
  <2> DEFINE upd == Update(c)
  <2>1. sess[c] \in [open: BOOLEAN, queue: Seq(Messages(nextID))] /\ Len(sess[c].queue) <= QueueSize
    BY DEF SceneInv, ReplTypes
  <2>2. CASE c \in players /\ ~Nothing(Update(c))
    <3>1. sess'[c] = Sent(sess[c], Update(c)) /\ Update(c) \in Messages(nextID)
      BY <1>1, <1>4, <2>2
    <3>2. CASE ~sess[c].open
      BY <2>1, <3>1, <3>2 DEF Sent
    <3>3. CASE sess[c].open /\ Len(sess[c].queue) < QueueSize
      <4>1. sess'[c] = [sess[c] EXCEPT !.queue = Append(@, Update(c))]
        BY <3>1, <3>3 DEF Sent
      <4>2. /\ Append(sess[c].queue, Update(c)) \in Seq(Messages(nextID))
            /\ Len(Append(sess[c].queue, Update(c))) = Len(sess[c].queue) + 1
            /\ Len(sess[c].queue) \in Nat
        BY <2>1, <3>1
      <4>3. /\ sess'[c].open = sess[c].open /\ sess'[c].queue = Append(sess[c].queue, Update(c))
            /\ sess'[c] \in [open: BOOLEAN, queue: Seq(Messages(nextID))]
        BY <2>1, <4>1, <4>2
      <4>4. QED BY <3>3, <4>2, <4>3, ReplicationAssumption
    <3>4. CASE sess[c].open /\ ~(Len(sess[c].queue) < QueueSize)
      <4>1. sess'[c] = Closed
        BY <3>1, <3>4 DEF Sent
      <4>2. Closed \in [open: BOOLEAN, queue: Seq(Messages(nextID))] /\ Len(Closed.queue) = 0
        BY DEF Closed
      <4>3. QED BY <4>1, <4>2, ReplicationAssumption
    <3>5. QED BY <3>2, <3>3, <3>4
  <2>3. CASE ~(c \in players /\ ~Nothing(Update(c)))
    BY <1>1, <2>1, <2>3
  <2>4. QED BY <2>2, <2>3
<1>6. ReplTypes'
  <2>1. ent' \in [Clients -> [id: 0..MaxIDs, pos: Places, cell: Vec, elo: Elos,
                              moved: BOOLEAN, eloChanged: BOOLEAN]]
    BY <1>1, <1>3
  <2>2. known' \in [Clients -> SUBSET (1..nextID)] /\ scene' \in [Clients -> Pictures(nextID)]
    BY <1>1, <1>4 DEF SceneInv, ReplTypes
  <2>3. sess' \in [Clients -> [open: BOOLEAN, queue: Seq(Messages(nextID))]]
    BY <1>1, <1>5
  <2>4. QED BY <1>1, <1>5, <2>1, <2>2, <2>3 DEF SceneInv, ReplTypes
<1>7. EntitiesApart'
  <2>1. players' = players /\ \A c \in players : /\ ent'[c].id = ent[c].id
                                               /\ ent'[c].pos = ent[c].pos
                                               /\ ent'[c].cell = ent[c].cell
    BY <1>1, <1>2, <1>3
  <2>2. nextID' = nextID
    BY <1>1
  <2>3. QED BY <2>1, <2>2 DEF SceneInv, EntitiesApart
<1>8. ChangesMarked'
  <2> SUFFICES ASSUME NEW c \in Clients
      PROVE  /\ DOMAIN scene'[c] = known'[c]
             /\ c \notin players' => known'[c] = {}
             /\ \A d \in players' : ent'[d].id \in known'[c] =>
                  /\ ~ent'[d].moved => scene'[c][ent'[d].id].pos = ent'[d].pos
                  /\ ~ent'[d].eloChanged => scene'[c][ent'[d].id].elo = ent'[d].elo
    BY DEF ChangesMarked
  <2>1. CASE c \notin players
    BY <1>1, <2>1 DEF SceneInv, ChangesMarked
  <2>2. CASE c \in players
    <3>1. known'[c] = Ids(Near(c)) /\ scene'[c] = Scene(c)
      BY <1>1, <2>2
    <3>2. ASSUME NEW d \in players, ent[d].id \in Ids(Near(c))
          PROVE  Scene(c)[ent[d].id] = [pos |-> ent[d].pos, elo |-> ent[d].elo]
      <4>1. PICK e \in Near(c) : ent[d].id = ent[e].id
        BY <3>2 DEF Ids
      <4>2. e = d
        BY <2>2, <4>1, NearIsSeen DEF SceneInv, EntitiesApart
      <4>3. QED BY <2>2, <4>1, <4>2, SceneIs
    <3>3. ASSUME NEW d \in players', ent'[d].id \in known'[c]
          PROVE  /\ scene'[c][ent'[d].id].pos = ent'[d].pos
                 /\ scene'[c][ent'[d].id].elo = ent'[d].elo
      <4>1. d \in players /\ ent'[d].id = ent[d].id /\ ent'[d].pos = ent[d].pos
            /\ ent'[d].elo = ent[d].elo
        BY <1>1, <1>2, <1>3
      <4>2. Scene(c)[ent[d].id] = [pos |-> ent[d].pos, elo |-> ent[d].elo]
        BY <3>1, <3>2, <3>3, <4>1
      <4>3. QED BY <3>1, <4>1, <4>2
    <3>4. DOMAIN scene'[c] = known'[c] /\ c \in players'
      BY <1>1, <1>4, <2>2, <3>1
    <3>5. QED BY <3>3, <3>4
  <2>3. QED BY <2>1, <2>2
<1>9. ASSUME NEW c \in players, sess'[c].open
      PROVE  Read(view[c], sess'[c].queue) = Scene(c)
  <2> DEFINE queue == sess[c].queue
             upd == Update(c)
  <2>1. c \in Clients /\ view[c] \in Pictures(nextID) /\ queue \in Seq(Messages(nextID))
    BY <1>2 DEF SceneInv, ReplTypes
  <2>2. upd \in Messages(nextID) /\ upd.type = "world"
    BY <1>4
  <2>3. Applied(scene[c], upd) = Scene(c) /\ (Nothing(upd) => Scene(c) = scene[c])
    BY UpdateReaches
  <2>4. sess'[c] = IF ~Nothing(upd) THEN Sent(sess[c], upd) ELSE sess[c]
    BY <1>1, <2>1
  <2>5. sess[c].open => Read(view[c], queue) = scene[c]
    BY DEF SceneInv, SceneReached
  <2>6. sess[c] \in [open: BOOLEAN, queue: Seq(Messages(nextID))]
    BY <1>2 DEF SceneInv, ReplTypes
  <2> HIDE DEF upd
  <2>7. CASE Nothing(upd)
    BY <1>9, <2>3, <2>4, <2>5, <2>7
  <2>8. CASE ~Nothing(upd)
    <3>1. sess[c].open /\ Len(queue) < QueueSize
      <4>1. sess'[c] = Sent(sess[c], upd) /\ ~Closed.open
        BY <2>4, <2>8 DEF Closed
      <4>2. QED BY <1>9, <4>1 DEF Sent
    <3>2. sess'[c].queue = Append(queue, upd)
      <4>1. sess'[c] = [sess[c] EXCEPT !.queue = Append(@, upd)]
        BY <2>4, <2>8, <3>1 DEF Sent
      <4>2. QED BY <2>6, <4>1
    <3>3. Read(view[c], Append(queue, upd)) = Received(Read(view[c], queue), upd)
      <4> HIDE DEF queue
      <4>1. QED BY <2>1, <2>2, ReadAppend
    <3>4. QED BY <2>2, <2>3, <2>5, <3>1, <3>2, <3>3 DEF Received
  <2>9. QED BY <2>7, <2>8
<1>10. SceneReached'
  <2>1. \A c \in players : scene'[c] = Scene(c)
    BY <1>1, <1>2
  <2>2. QED BY <1>1, <1>9, <2>1 DEF SceneReached
<1>11. QED BY <1>6, <1>7, <1>8, <1>10 DEF SceneInv

LEMMA SceneStep == SceneInv /\ [Next]_vars => SceneInv'
<1> SUFFICES ASSUME SceneInv, [Next]_vars PROVE SceneInv'
  OBVIOUS
<1>1. CASE Tick
  BY <1>1, TickStep
<1>2. CASE \E c \in Clients : Join(c) \/ Leave(c) \/ Disconnect(c) \/ Deliver(c)
  BY <1>2, JoinStep, LeaveStep, DisconnectStep, DeliverStep
<1>3. CASE \E c \in Clients, pos \in Places : Move(c, pos)
  BY <1>3, MoveStep
<1>4. CASE \E c \in Clients, elo \in Elos : SetRating(c, elo)
  BY <1>4, SetRatingStep
<1>5. CASE UNCHANGED vars
  <2>1. UNCHANGED <<nextID, players, ent, known, scene, sess, view>>
    BY <1>5 DEF vars, worldVars
  <2>2. ReplTypes' /\ EntitiesApart' /\ ChangesMarked' /\ SceneReached'
    <3>1. ReplTypes'
      BY <2>1 DEF SceneInv, ReplTypes
    <3>2. EntitiesApart' /\ ChangesMarked'
      BY <2>1 DEF SceneInv, EntitiesApart, ChangesMarked
    <3>3. SceneReached'
      BY <2>1 DEF SceneInv, SceneReached
    <3>4. QED BY <3>1, <3>2, <3>3
  <2>3. QED BY <2>2 DEF SceneInv
<1>6. QED BY <1>1, <1>2, <1>3, <1>4, <1>5 DEF Next

\* However many players come, go, move, play, fall behind and reconnect, whatever is
\* queued for a connected client makes of its picture exactly what was around its
\* player at the last tick (replication.go replicate, session.go Send,
\* game.ts applyWorldUpdate).
THEOREM SceneAlwaysReached == Spec => []SceneReached
<1>1. SceneInv => SceneReached
  BY DEF SceneInv
<1>2. QED BY <1>1, SceneInit, SceneStep, PTL DEF Spec

\* Ids only grow, no queue is ever longer than sendQueueSize, and neither the world nor
\* a client speaks of an entity that was never made (world.go newEntity, session.go Send).
THEOREM ReplicationTyped == Spec => []TypeOK
<1>1. SceneInv => TypeOK
  <2> SUFFICES ASSUME SceneInv PROVE TypeOK
    OBVIOUS
  <2>1. \A c \in Clients : DOMAIN view[c] \subseteq 1..nextID
    BY PictureOf DEF SceneInv, ReplTypes
  <2>2. QED BY <2>1 DEF SceneInv, ReplTypes, TypeOK
<1>2. QED BY <1>1, SceneInit, SceneStep, PTL DEF Spec
=============================================================================
