--------------------------- MODULE OnlineSlotProofs ---------------------------
(***************************************************************************)
(* The ranked service whoever its callers are, then the server around it,  *)
(* for every number of connections, characters and accounts: a slot is     *)
(* taken exactly while one connection holds it, no account has two players *)
(* in the world, and the rating a player has includes every game they      *)
(* finished.                                                               *)
(***************************************************************************)
EXTENDS OnlineSlot, TLAPS

-----------------------------------------------------------------------------
(* The service alone: the types of its state, and a worker that is never   *)
(* left asleep, whatever is queued.                                        *)

\* A poke outside of the lock is what makes the wakeup safe: the invariant has
\* the pokes still to come in it, and needs nothing but their type.
WakeInv == signals \in Nat /\ NoLostWakeup

\* What happens to the service other than that a job is queued
ServiceMoves == ServiceStep \/ Close \/ UNCHANGED serviceVars

LEMMA WakeInit == ServiceInit => WakeInv
  BY DEF ServiceInit, WakeInv, NoLostWakeup

LEMMA WakeStep ==
  ASSUME WakeInv, ServiceMoves \/ \E j : Enqueue(j)
  PROVE  WakeInv'
<1> USE DEF WakeInv, NoLostWakeup
<1>1. CASE Signal BY <1>1 DEF Signal
<1>2. CASE Look BY <1>2 DEF Look
<1>3. CASE WakeUp BY <1>3 DEF WakeUp
<1>4. ASSUME NEW ok \in BOOLEAN, Work(ok) PROVE WakeInv'
  BY <1>4 DEF Work
<1>5. ASSUME NEW j, Enqueue(j) PROVE WakeInv'
  BY <1>5 DEF Enqueue
<1>6. CASE Close BY <1>6 DEF Close
<1>7. CASE UNCHANGED serviceVars BY <1>7 DEF serviceVars
<1>8. QED
  BY <1>1, <1>2, <1>3, <1>4, <1>5, <1>6, <1>7 DEF ServiceMoves, ServiceStep

\* The worker never sleeps through a queued job or through Close (service.go
\* run, enqueue, Close), for any number of callers and jobs.
THEOREM WorkerNeverStranded == ServiceSpec => []NoLostWakeup
<1>1. WakeInv => NoLostWakeup BY DEF WakeInv
<1>2. WakeInv /\ [ServiceNext]_serviceVars => WakeInv'
  BY WakeStep DEF ServiceNext, ServiceMoves
<1>3. QED BY WakeInit, <1>1, <1>2, PTL DEF ServiceSpec

-----------------------------------------------------------------------------

LEMMA EmptyAndSingle ==
  ASSUME NEW S, NEW e \in S
  PROVE  /\ <<>> \in Seq(S) /\ Len(<<>>) = 0
         /\ <<e>> \in Seq(S) /\ Len(<<e>>) = 1
  OBVIOUS

LEMMA OnlyElement ==
  ASSUME NEW S, NEW s \in Seq(S), Len(s) = 1
  PROVE  s[1] \in S
  OBVIOUS

LEMMA JobKinds ==
  ASSUME NEW j \in Jobs
  PROVE  IF IsSave(j) THEN j \in Saves ELSE j \in Loads
<1>1. j \in Loads => DOMAIN j = {"reader", "char"}
  BY DEF Loads
<1>2. j \in Saves => DOMAIN j = {"a", "b", "ratingA", "ratingB"}
  BY DEF Saves
<1>3. QED
  BY <1>1, <1>2 DEF Jobs, IsSave

LEMMA NothingYet == <<>> \in Seq(Jobs) /\ <<>> \in Seq(Nat) /\ Len(<<>>) = 0
  OBVIOUS

LEMMA ServiceTypeInit == ServiceInit => ServiceTypeOK
<1> SUFFICES ASSUME ServiceInit PROVE ServiceTypeOK
  OBVIOUS
<1>1. answer \in [Readers -> Seq(Nat)] /\ \A r \in Readers : Len(answer[r]) <= 1
  BY NothingYet DEF ServiceInit
<1>2. job \in Seq(Jobs) /\ Len(job) <= 1 /\ (worker = "working" <=> Len(job) = 1)
  BY NothingYet DEF ServiceInit
<1>3. QED
  BY <1>1, <1>2, NothingYet DEF ServiceInit, ServiceTypeOK

LEMMA ServiceTypeStep ==
  ASSUME ServiceTypeOK, ServiceMoves \/ \E j \in Jobs : Enqueue(j)
  PROVE  ServiceTypeOK'
<1> USE DEF ServiceTypeOK
<1>1. CASE Signal BY <1>1 DEF Signal
<1>2. CASE Look
  <2>1. CASE queue # <<>>
    <3>1. Head(queue) \in Jobs /\ Tail(queue) \in Seq(Jobs)
      BY <2>1
    <3>2. job' \in Seq(Jobs) /\ Len(job') = 1 /\ worker' = "working"
      BY <1>2, <2>1, <3>1, EmptyAndSingle DEF Look
    <3>3. /\ queue' \in Seq(Jobs)
          /\ <<wake', signals', closed', db', answer', unsure'>>
               = <<wake, signals, closed, db, answer, unsure>>
      BY <1>2, <2>1, <3>1 DEF Look
    <3>4. QED
      BY <3>2, <3>3
  <2>2. CASE queue = <<>>
    BY <1>2, <2>2 DEF Look
  <2>3. QED BY <2>1, <2>2
<1>3. CASE WakeUp BY <1>3 DEF WakeUp
<1>4. ASSUME NEW ok \in BOOLEAN, Work(ok) PROVE ServiceTypeOK'
  <2> DEFINE j == job[1]
  <2>1. j \in Jobs
    <3>1. job \in Seq(Jobs) /\ Len(job) = 1
      BY <1>4 DEF Work
    <3>2. QED
      BY <3>1, OnlyElement
  <2>2. job' \in Seq(Jobs) /\ Len(job') = 0 /\ worker' = "looking"
    BY <1>4, NothingYet DEF Work
  <2>3. CASE IsSave(j)
    <3>1. j.a \in Chars /\ j.b \in Chars /\ j.ratingA \in Nat /\ j.ratingB \in Nat
      BY <2>1, <2>3, JobKinds DEF Saves
    <3>2. db' \in [Chars -> Nat] /\ unsure' \subseteq Chars /\ answer' = answer
      BY <1>4, <2>3, <3>1 DEF Work, Access
    <3>3. QED
      BY <1>4, <2>2, <3>2 DEF Work
  <2>4. CASE ~IsSave(j)
    <3>1. j.reader \in Readers /\ j.char \in Chars
      BY <2>1, <2>4, JobKinds DEF Loads
    <3>2. db' = db /\ unsure' \subseteq Chars
      BY <1>4, <2>4, <3>1 DEF Work, Access
    <3>3. PICK n \in Nat : answer' = [answer EXCEPT ![j.reader] = <<n>>]
      BY <1>4, <2>4, <3>1 DEF Work, Access
    <3>4. /\ answer' \in [Readers -> Seq(Nat)]
          /\ \A r \in Readers : Len(answer'[r]) <= 1
      BY <3>1, <3>3, EmptyAndSingle
    <3>5. QED
      BY <1>4, <2>2, <3>2, <3>4 DEF Work
  <2>5. QED BY <2>3, <2>4
<1>5. ASSUME NEW j \in Jobs, Enqueue(j) PROVE ServiceTypeOK'
  BY <1>5 DEF Enqueue
<1>6. CASE Close BY <1>6 DEF Close
<1>7. CASE UNCHANGED serviceVars BY <1>7 DEF serviceVars
<1>8. QED
  BY <1>1, <1>2, <1>3, <1>4, <1>5, <1>6, <1>7 DEF ServiceMoves, ServiceStep

\* The types of the service's state, whoever its callers are.
THEOREM ServiceTyped == ServiceSpec => []ServiceTypeOK
<1>1. ServiceTypeOK /\ [ServiceNext]_serviceVars => ServiceTypeOK'
  BY ServiceTypeStep DEF ServiceNext, ServiceMoves
<1>2. QED BY ServiceTypeInit, <1>1, PTL DEF ServiceSpec

-----------------------------------------------------------------------------
(* The slot.                                                               *)

Cmds == [op: {"join", "leave"}, conn: Readers]

Places == {"out", "kicking", "waiting", "claimed", "loading", "live", "done"}

SlotTypes ==
    /\ pc \in [Readers -> Places]
    /\ cmds \in Seq(Cmds)
    /\ players \subseteq Readers

\* A connection that has not joined has no command queued and no player
NotYetIn ==
    \A c \in Readers :
        pc[c] \in {"out", "kicking", "waiting", "claimed", "loading"}
            => c \notin players /\ ~Queued(c)

\* Nothing of a connection comes after its leave
LeavesLast ==
    \A i \in DOMAIN cmds : cmds[i].op = "leave" =>
        /\ pc[cmds[i].conn] = "done"
        /\ \A k \in DOMAIN cmds : k > i => cmds[k].conn # cmds[i].conn

\* A leave that gets to run finds its player, so it frees the slot
LeavesFind ==
    \A i \in DOMAIN cmds : cmds[i].op = "leave" =>
        \/ cmds[i].conn \in players
        \/ \E k \in DOMAIN cmds : k < i /\ cmds[k].op = "join" /\ cmds[k].conn = cmds[i].conn

\* A connection that is live has its player in the world or about to be
LiveIsIn ==
    \A c \in Readers : pc[c] = "live" =>
        \/ c \in players
        \/ \E k \in DOMAIN cmds : cmds[k].op = "join" /\ cmds[k].conn = c

Order == NotYetIn /\ LeavesLast /\ LeavesFind /\ LiveIsIn

SlotInv == SlotTypes /\ SlotHeldOnce /\ Order

-----------------------------------------------------------------------------

LEMMA TailOf ==
  ASSUME NEW S, NEW s \in Seq(S), s # <<>>
  PROVE  /\ Tail(s) \in Seq(S) /\ Head(s) = s[1] /\ 1 \in DOMAIN s
         /\ DOMAIN Tail(s) = 1..(Len(s) - 1) /\ DOMAIN s = 1..Len(s) /\ Len(s) \in Nat
         /\ \A i \in DOMAIN Tail(s) : Tail(s)[i] = s[i + 1] /\ i + 1 \in DOMAIN s
  OBVIOUS

LEMMA AppendOf ==
  ASSUME NEW S, NEW s \in Seq(S), NEW e \in S
  PROVE  /\ Append(s, e) \in Seq(S)
         /\ DOMAIN s = 1..Len(s) /\ Len(s) \in Nat
         /\ DOMAIN Append(s, e) = 1..(Len(s) + 1)
         /\ \A i \in DOMAIN s : Append(s, e)[i] = s[i]
         /\ Append(s, e)[Len(s) + 1] = e
  OBVIOUS

LEMMA CmdOf ==
  ASSUME SlotTypes, NEW i \in DOMAIN cmds
  PROVE  cmds[i].conn \in Readers /\ cmds[i].op \in {"join", "leave"}
<1>1. cmds[i] \in Cmds
  BY DEF SlotTypes
<1>2. QED BY <1>1 DEF Cmds

LEMMA SlotInit == OnlineInit => SlotInv
<1> SUFFICES ASSUME OnlineInit PROVE SlotInv
  OBVIOUS
<1>1. SlotTypes
  BY DEF OnlineInit, SlotTypes, Places
<1>2. DOMAIN cmds = {}
  BY DEF OnlineInit
<1>3. Holders = {}
  BY <1>2 DEF OnlineInit, Holders, Queued
<1>4. SlotHeldOnce
  BY <1>3 DEF OnlineInit, SlotHeldOnce
<1>5. Order
  BY <1>2 DEF OnlineInit, Order, NotYetIn, LeavesLast, LeavesFind, LiveIsIn, Queued
<1>6. QED BY <1>1, <1>4, <1>5 DEF SlotInv

\* A step of a connection that leaves the commands and the players alone, and
\* after which nothing is live that was not, keeps the order of the commands.
LEMMA OrderKept ==
  ASSUME SlotInv, NEW c \in Readers, NEW from \in Places, NEW to \in Places,
         Goto(c, from, to), UNCHANGED <<cmds, players>>,
         from \notin {"live", "done"}, to # "live"
  PROVE  SlotTypes' /\ Order' /\ (\A d \in Readers : Queued(d)' = Queued(d))
<1>1. SlotTypes'
  BY DEF SlotInv, SlotTypes, Goto
<1>2. \A d \in Readers : d # c => pc'[d] = pc[d]
  BY DEF Goto
<1>3. pc[c] = from /\ pc'[c] = to
  BY DEF Goto, SlotInv, SlotTypes
<1>4. \A d \in Readers : Queued(d)' = Queued(d)
  BY DEF Queued
<1>5. c \notin players /\ ~Queued(c)
  BY <1>3 DEF SlotInv, Order, NotYetIn, Places
<1>6. NotYetIn'
  BY <1>2, <1>4, <1>5 DEF SlotInv, Order, NotYetIn
<1>7. LeavesLast'
  <2>1. ASSUME NEW i \in DOMAIN cmds, cmds[i].op = "leave"
        PROVE  pc'[cmds[i].conn] = "done"
    <3>1. cmds[i].conn \in Readers
      BY CmdOf DEF SlotInv
    <3>2. pc[cmds[i].conn] = "done"
      BY <2>1 DEF SlotInv, Order, LeavesLast
    <3>3. QED BY <1>2, <1>3, <3>1, <3>2
  <2>2. QED BY <2>1 DEF SlotInv, Order, LeavesLast
<1>8. LeavesFind'
  BY DEF SlotInv, Order, LeavesFind
<1>9. LiveIsIn'
  BY <1>2, <1>3 DEF SlotInv, Order, LiveIsIn
<1>10. QED BY <1>1, <1>4, <1>6, <1>7, <1>8, <1>9 DEF Order

\* Every step preserves the invariant: the entries first, then what the
\* connection does once it is in, then the world's commands.
LEMMA EntryStep ==
  ASSUME SlotInv, NEW c \in Readers,
         \/ Arrive(c) \/ Kick(c) \/ Retry(c) \/ GiveUp(c)
         \/ UpgradeFails(c) \/ Upgrade(c)
  PROVE  SlotInv'
<1> DEFINE Same == \A d \in Readers : Queued(d)' = Queued(d)
<1>1. CASE Arrive(c) /\ Account(c) \in online
  <2>1. Goto(c, "out", "kicking") /\ UNCHANGED <<online, cmds, players>>
    BY <1>1 DEF Arrive, worldVars
  <2>2. SlotTypes' /\ Order' /\ Same
    BY <2>1, OrderKept DEF Places
  <2>3. Holders' = Holders
    BY <2>1, <2>2 DEF Holders, Goto, SlotInv, SlotTypes
  <2>4. QED BY <2>1, <2>2, <2>3 DEF SlotInv, SlotHeldOnce
<1>2. CASE (Arrive(c) /\ Account(c) \notin online) \/ Retry(c)
  <2>1. /\ Account(c) \notin online
        /\ online' = online \union {Account(c)}
        /\ UNCHANGED <<cmds, players>>
        /\ \E from \in {"out", "waiting"} : Goto(c, from, "claimed")
    BY <1>2 DEF Arrive, Retry, worldVars
  <2>2. SlotTypes' /\ Order' /\ Same
    BY <2>1, OrderKept DEF Places
  <2>3. Holders' = Holders \union {c}
    BY <2>1, <2>2 DEF Holders, Goto, SlotInv, SlotTypes
  <2>4. QED BY <2>1, <2>2, <2>3 DEF SlotInv, SlotHeldOnce
<1>3. CASE Kick(c) \/ GiveUp(c)
  <2>1. /\ UNCHANGED <<online, cmds, players>>
        /\ \E from \in {"kicking", "waiting"}, to \in {"waiting", "done"} : Goto(c, from, to)
    BY <1>3 DEF Kick, GiveUp, worldVars
  <2>2. SlotTypes' /\ Order' /\ Same
    BY <2>1, OrderKept DEF Places
  <2>3. Holders' = Holders
    BY <2>1, <2>2 DEF Holders, Goto, SlotInv, SlotTypes
  <2>4. QED BY <2>1, <2>2, <2>3 DEF SlotInv, SlotHeldOnce
<1>4. CASE UpgradeFails(c)
  <2>1. /\ Goto(c, "claimed", "done")
        /\ online' = online \ {Account(c)}
        /\ UNCHANGED <<cmds, players>>
    BY <1>4 DEF UpgradeFails, worldVars
  <2>2. SlotTypes' /\ Order' /\ Same
    BY <2>1, OrderKept DEF Places
  <2>3. c \in Holders /\ c \notin players /\ ~Queued(c)
    BY <2>1 DEF Holders, Goto, SlotInv, Order, NotYetIn
  <2>4. Holders' = Holders \ {c}
    BY <2>1, <2>2, <2>3 DEF Holders, Goto, SlotInv, SlotTypes
  <2>5. QED BY <2>1, <2>2, <2>3, <2>4 DEF SlotInv, SlotHeldOnce, Holders
<1>5. CASE Upgrade(c)
  <2>1. Goto(c, "claimed", "loading") /\ UNCHANGED <<online, cmds, players>>
    BY <1>5 DEF Upgrade, worldVars
  <2>2. SlotTypes' /\ Order' /\ Same
    BY <2>1, OrderKept DEF Places
  <2>3. Holders' = Holders
    BY <2>1, <2>2 DEF Holders, Goto, SlotInv, SlotTypes
  <2>4. QED BY <2>1, <2>2, <2>3 DEF SlotInv, SlotHeldOnce
<1>6. QED BY <1>1, <1>2, <1>3, <1>4, <1>5 DEF Arrive

LEMMA LoadedStep ==
  ASSUME SlotInv, NEW c \in Readers, Loaded(c)
  PROVE  SlotInv'
<1> DEFINE join == [op |-> "join", conn |-> c]
<1>1. /\ pc[c] = "loading" /\ pc' = [pc EXCEPT ![c] = "live"]
      /\ cmds' = Append(cmds, join)
      /\ UNCHANGED <<online, players>>
  BY DEF Loaded, Goto, worldVars
<1>2. join \in Cmds /\ join.op = "join" /\ join.conn = c
  BY DEF Cmds
<1>3. SlotTypes'
  BY <1>1, <1>2, AppendOf DEF SlotInv, SlotTypes, Places
<1>4. /\ DOMAIN cmds = 1..Len(cmds) /\ Len(cmds) \in Nat
      /\ DOMAIN cmds' = 1..(Len(cmds) + 1)
      /\ \A i \in DOMAIN cmds : cmds'[i] = cmds[i]
      /\ cmds'[Len(cmds) + 1] = join
  BY <1>1, <1>2, AppendOf DEF SlotInv, SlotTypes
<1>5. c \notin players /\ ~Queued(c)
  BY <1>1 DEF SlotInv, Order, NotYetIn
<1>6. \A d \in Readers : Queued(d)' <=> Queued(d) \/ d = c
  BY <1>2, <1>4 DEF Queued
<1>7. pc'[c] = "live" /\ \A d \in Readers : d # c => pc'[d] = pc[d]
  BY <1>1 DEF SlotInv, SlotTypes
<1>8. Holders' = Holders
  BY <1>1, <1>6, <1>7 DEF Holders
<1>9. SlotHeldOnce'
  BY <1>1, <1>8 DEF SlotInv, SlotHeldOnce
<1>10. NotYetIn'
  BY <1>1, <1>6, <1>7 DEF SlotInv, Order, NotYetIn
<1>11. ASSUME NEW i \in DOMAIN cmds', cmds'[i].op = "leave"
       PROVE  i \in DOMAIN cmds /\ cmds[i] = cmds'[i] /\ cmds[i].conn # c
                /\ cmds[i].conn \in Readers
  <2>1. i \in DOMAIN cmds /\ cmds[i] = cmds'[i]
    BY <1>2, <1>4, <1>11
  <2>2. QED BY <2>1, <1>5, CmdOf DEF Queued, SlotInv
<1>12. LeavesLast'
  BY <1>2, <1>4, <1>7, <1>11 DEF SlotInv, Order, LeavesLast
<1>13. LeavesFind'
  BY <1>1, <1>4, <1>11 DEF SlotInv, Order, LeavesFind
<1>14. LiveIsIn'
  BY <1>1, <1>2, <1>4, <1>7 DEF SlotInv, Order, LiveIsIn
<1>15. QED
  BY <1>3, <1>9, <1>10, <1>12, <1>13, <1>14 DEF SlotInv, Order

LEMMA LeaveStep ==
  ASSUME SlotInv, NEW c \in Readers, Leave(c)
  PROVE  SlotInv'
<1> DEFINE leave == [op |-> "leave", conn |-> c]
<1>1. /\ pc[c] = "live" /\ pc' = [pc EXCEPT ![c] = "done"]
      /\ cmds' = Append(cmds, leave)
      /\ UNCHANGED <<online, players>>
  BY DEF Leave, Goto, worldVars
<1>2. leave \in Cmds /\ leave.op = "leave" /\ leave.conn = c
  BY DEF Cmds
<1>3. SlotTypes'
  BY <1>1, <1>2, AppendOf DEF SlotInv, SlotTypes, Places
<1>4. /\ DOMAIN cmds = 1..Len(cmds) /\ Len(cmds) \in Nat
      /\ DOMAIN cmds' = 1..(Len(cmds) + 1)
      /\ \A i \in DOMAIN cmds : cmds'[i] = cmds[i]
      /\ cmds'[Len(cmds) + 1] = leave
  BY <1>1, <1>2, AppendOf DEF SlotInv, SlotTypes
<1>5. \A d \in Readers : Queued(d)' <=> Queued(d) \/ d = c
  BY <1>2, <1>4 DEF Queued
<1>6. pc'[c] = "done" /\ \A d \in Readers : d # c => pc'[d] = pc[d]
  BY <1>1 DEF SlotInv, SlotTypes
<1>7. Holders' = Holders
  BY <1>1, <1>5, <1>6 DEF Holders
<1>8. SlotHeldOnce'
  BY <1>1, <1>7 DEF SlotInv, SlotHeldOnce
<1>9. NotYetIn'
  BY <1>1, <1>5, <1>6 DEF SlotInv, Order, NotYetIn
<1>10. ASSUME NEW i \in DOMAIN cmds, cmds[i].op = "leave"
       PROVE  cmds[i].conn \in Readers /\ cmds[i].conn # c
  BY <1>1, <1>10, CmdOf DEF SlotInv, Order, LeavesLast
<1>11. LeavesLast'
  <2> SUFFICES ASSUME NEW i \in DOMAIN cmds', cmds'[i].op = "leave"
               PROVE  /\ pc'[cmds'[i].conn] = "done"
                      /\ \A k \in DOMAIN cmds' : k > i => cmds'[k].conn # cmds'[i].conn
    BY DEF LeavesLast
  <2>1. CASE i = Len(cmds) + 1
    BY <1>2, <1>4, <1>6, <2>1
  <2>2. CASE i \in DOMAIN cmds
    <3>1. cmds'[i] = cmds[i] /\ cmds[i].conn # c /\ pc'[cmds[i].conn] = "done"
      BY <1>4, <1>6, <1>10, <2>2 DEF SlotInv, Order, LeavesLast
    <3>2. ASSUME NEW k \in DOMAIN cmds', k > i PROVE cmds'[k].conn # cmds[i].conn
      <4>1. CASE k = Len(cmds) + 1
        BY <1>2, <1>4, <3>1, <4>1
      <4>2. CASE k \in DOMAIN cmds
        BY <1>4, <2>2, <3>1, <3>2, <4>2 DEF SlotInv, Order, LeavesLast
      <4>3. QED BY <1>4, <4>1, <4>2
    <3>3. QED BY <3>1, <3>2
  <2>3. QED BY <1>4, <2>1, <2>2
<1>12. LeavesFind'
  <2>1. \/ c \in players
        \/ \E k \in DOMAIN cmds : cmds[k].op = "join" /\ cmds[k].conn = c
    BY <1>1 DEF SlotInv, Order, LiveIsIn
  <2> SUFFICES ASSUME NEW i \in DOMAIN cmds', cmds'[i].op = "leave"
               PROVE  \/ cmds'[i].conn \in players
                      \/ \E k \in DOMAIN cmds' : /\ k < i
                                                /\ cmds'[k].op = "join"
                                                /\ cmds'[k].conn = cmds'[i].conn
    BY <1>1 DEF LeavesFind
  <2>2. CASE i = Len(cmds) + 1
    BY <1>2, <1>4, <2>1, <2>2
  <2>3. CASE i \in DOMAIN cmds
    BY <1>4, <2>3 DEF SlotInv, Order, LeavesFind
  <2>4. QED BY <1>4, <2>2, <2>3
<1>13. LiveIsIn'
  BY <1>1, <1>4, <1>6 DEF SlotInv, Order, LiveIsIn
<1>14. QED
  BY <1>3, <1>8, <1>9, <1>11, <1>12, <1>13 DEF SlotInv, Order

LEMMA RunStep ==
  ASSUME SlotInv, Run
  PROVE  SlotInv'
<1>1. /\ cmds # <<>> /\ cmds' = Tail(cmds) /\ pc' = pc
      /\ Head(cmds) = cmds[1] /\ 1 \in DOMAIN cmds
      /\ cmds' \in Seq(Cmds)
      /\ DOMAIN cmds' = 1..(Len(cmds) - 1) /\ DOMAIN cmds = 1..Len(cmds) /\ Len(cmds) \in Nat
      /\ \A i \in DOMAIN cmds' : cmds'[i] = cmds[i + 1] /\ i + 1 \in DOMAIN cmds
  BY TailOf DEF Run, SlotInv, SlotTypes
<1> PICK c \in Readers : c = cmds[1].conn /\ cmds[1].op \in {"join", "leave"}
  BY <1>1, CmdOf DEF SlotInv
<1>2. c \in Readers /\ c = cmds[1].conn /\ cmds[1].op \in {"join", "leave"}
  OBVIOUS
<1>3. \A i \in DOMAIN cmds : i # 1 => i - 1 \in DOMAIN cmds' /\ cmds'[i - 1] = cmds[i]
  BY <1>1
<1>4. \A d \in Readers : d # c => (Queued(d)' <=> Queued(d))
  <2> SUFFICES ASSUME NEW d \in Readers, d # c PROVE Queued(d)' <=> Queued(d)
    OBVIOUS
  <2>1. ASSUME NEW i \in DOMAIN cmds', cmds'[i].conn = d PROVE Queued(d)
    BY <1>1, <2>1 DEF Queued
  <2>2. ASSUME NEW i \in DOMAIN cmds, cmds[i].conn = d PROVE Queued(d)'
    <3>1. i - 1 \in DOMAIN cmds' /\ cmds'[i - 1] = cmds[i]
      BY <1>2, <1>3, <2>2
    <3>2. QED BY <2>2, <3>1 DEF Queued
  <2>3. QED BY <2>1, <2>2 DEF Queued
<1>5. Queued(c)
  BY <1>1 DEF Queued
<1>6. LeavesLast'
  BY <1>1 DEF SlotInv, Order, LeavesLast
<1>7. CASE cmds[1].op = "join"
  <2>1. players' = players \union {c} /\ online' = online
    BY <1>1, <1>7 DEF Run, RunJoin
  <2>2. SlotTypes'
    BY <1>1, <1>2, <2>1 DEF SlotInv, SlotTypes
  <2>3. pc[c] \in {"live", "done"}
    BY <1>2, <1>5 DEF SlotInv, SlotTypes, Places, Order, NotYetIn
  <2>4. Holders' = Holders
    BY <1>1, <1>2, <1>4, <1>5, <2>1 DEF Holders
  <2>5. SlotHeldOnce'
    BY <2>1, <2>4 DEF SlotInv, SlotHeldOnce
  <2>6. NotYetIn'
    BY <1>1, <1>4, <2>1, <2>3 DEF SlotInv, Order, NotYetIn
  <2>7. LiveIsIn'
    <3> SUFFICES ASSUME NEW d \in Readers, pc[d] = "live"
                 PROVE  \/ d \in players'
                        \/ \E k \in DOMAIN cmds' : cmds'[k].op = "join" /\ cmds'[k].conn = d
      BY <1>1 DEF LiveIsIn
    <3>1. CASE d \in players
      BY <2>1, <3>1
    <3>2. ASSUME NEW k \in DOMAIN cmds, cmds[k].op = "join", cmds[k].conn = d
          PROVE  d \in players' \/ (k - 1 \in DOMAIN cmds' /\ cmds'[k - 1] = cmds[k])
      BY <1>3, <2>1, <3>2
    <3>3. QED BY <3>1, <3>2 DEF SlotInv, Order, LiveIsIn
  <2>8. LeavesFind'
    <3> SUFFICES ASSUME NEW i \in DOMAIN cmds', cmds'[i].op = "leave"
                 PROVE  \/ cmds'[i].conn \in players'
                        \/ \E k \in DOMAIN cmds' : /\ k < i
                                                  /\ cmds'[k].op = "join"
                                                  /\ cmds'[k].conn = cmds'[i].conn
      BY DEF LeavesFind
    <3> DEFINE d == cmds[i + 1].conn
    <3>1. i + 1 \in DOMAIN cmds /\ cmds'[i] = cmds[i + 1]
      BY <1>1
    <3>2. CASE d \in players
      BY <2>1, <3>1, <3>2
    <3>3. ASSUME NEW k \in DOMAIN cmds, k < i + 1, cmds[k].op = "join", cmds[k].conn = d
          PROVE  \/ d \in players'
                 \/ k - 1 \in DOMAIN cmds' /\ k - 1 < i /\ cmds'[k - 1] = cmds[k]
      BY <1>1, <1>3, <2>1, <3>3
    <3>4. QED BY <3>1, <3>2, <3>3 DEF SlotInv, Order, LeavesFind
  <2>9. QED BY <1>6, <2>2, <2>5, <2>6, <2>7, <2>8 DEF SlotInv, Order
<1>8. CASE cmds[1].op = "leave"
  <2>1. c \in players
    BY <1>1, <1>8 DEF SlotInv, Order, LeavesFind
  <2>2. players' = players \ {c} /\ online' = online \ {Account(c)}
    BY <1>1, <1>8, <2>1 DEF Run, RunLeave
  <2>3. pc[c] = "done" /\ ~Queued(c)'
    <3>1. /\ pc[c] = "done"
          /\ \A k \in DOMAIN cmds : k > 1 => cmds[k].conn # c
      BY <1>1, <1>8 DEF SlotInv, Order, LeavesLast
    <3>2. \A i \in DOMAIN cmds' : i + 1 > 1 /\ cmds'[i].conn # c
      BY <1>1, <3>1
    <3>3. QED BY <3>1, <3>2 DEF Queued
  <2>4. SlotTypes'
    BY <1>1, <2>2 DEF SlotInv, SlotTypes
  <2>5. Holders' = Holders \ {c}
    <3>1. c \notin Holders'
      BY <1>1, <2>2, <2>3 DEF Holders
    <3>2. ASSUME NEW d \in Readers, d # c
          PROVE  d \in Holders' <=> d \in Holders
      BY <1>1, <1>4, <2>2, <3>2 DEF Holders
    <3>3. QED BY <3>1, <3>2 DEF Holders
  <2>6. c \in Holders
    BY <1>2, <2>1 DEF Holders
  <2>7. SlotHeldOnce'
    BY <2>2, <2>5, <2>6 DEF SlotInv, SlotHeldOnce, Holders
  <2>8. NotYetIn'
    BY <1>1, <1>4, <2>2, <2>3 DEF SlotInv, Order, NotYetIn
  <2>9. LiveIsIn'
    <3> SUFFICES ASSUME NEW d \in Readers, pc[d] = "live"
                 PROVE  \/ d \in players'
                        \/ \E k \in DOMAIN cmds' : cmds'[k].op = "join" /\ cmds'[k].conn = d
      BY <1>1 DEF LiveIsIn
    <3>1. CASE d \in players
      BY <2>2, <2>3, <3>1
    <3>2. ASSUME NEW k \in DOMAIN cmds, cmds[k].op = "join", cmds[k].conn = d
          PROVE  k - 1 \in DOMAIN cmds' /\ cmds'[k - 1] = cmds[k]
      BY <1>3, <1>8, <3>2
    <3>3. QED BY <3>1, <3>2 DEF SlotInv, Order, LiveIsIn
  <2>10. LeavesFind'
    <3> SUFFICES ASSUME NEW i \in DOMAIN cmds', cmds'[i].op = "leave"
                 PROVE  \/ cmds'[i].conn \in players'
                        \/ \E k \in DOMAIN cmds' : /\ k < i
                                                  /\ cmds'[k].op = "join"
                                                  /\ cmds'[k].conn = cmds'[i].conn
      BY DEF LeavesFind
    <3>1. i + 1 \in DOMAIN cmds /\ cmds'[i] = cmds[i + 1] /\ cmds[i + 1].conn # c
      BY <1>1, <2>3 DEF Queued
    <3>2. CASE cmds[i + 1].conn \in players
      BY <2>2, <3>1, <3>2
    <3>3. CASE \E k \in DOMAIN cmds : k < i + 1 /\ cmds[k].op = "join"
                                       /\ cmds[k].conn = cmds[i + 1].conn
      <4>1. PICK k \in DOMAIN cmds : /\ k < i + 1 /\ cmds[k].op = "join"
                                     /\ cmds[k].conn = cmds[i + 1].conn
        BY <3>3
      <4>2. k - 1 \in DOMAIN cmds' /\ cmds'[k - 1] = cmds[k] /\ k - 1 < i
        BY <1>1, <1>3, <1>8, <4>1
      <4>3. QED BY <3>1, <4>1, <4>2
    <3>4. QED BY <3>1, <3>2, <3>3 DEF SlotInv, Order, LeavesFind
  <2>11. QED BY <1>6, <2>4, <2>7, <2>8, <2>9, <2>10 DEF SlotInv, Order
<1>9. QED BY <1>2, <1>7, <1>8

LEMMA SlotUntouched ==
  ASSUME SlotInv, UNCHANGED <<pc, online, cmds, players>>
  PROVE  SlotInv'
<1>1. SlotTypes' /\ \A c \in Readers : Queued(c)' = Queued(c)
  BY DEF SlotInv, SlotTypes, Queued
<1>2. Holders' = Holders
  BY <1>1 DEF Holders
<1>3. SlotHeldOnce'
  BY <1>2 DEF SlotInv, SlotHeldOnce
<1>4. Order'
  BY <1>1 DEF SlotInv, Order, NotYetIn, LeavesLast, LeavesFind, LiveIsIn
<1>5. QED BY <1>1, <1>3, <1>4 DEF SlotInv

LEMMA SlotStep == SlotInv /\ [OnlineNext]_onlineVars => SlotInv'
<1> SUFFICES ASSUME SlotInv, [OnlineNext]_onlineVars PROVE SlotInv'
  OBVIOUS
<1>1. ASSUME NEW c \in Readers, Connection(c) PROVE SlotInv'
  BY <1>1, EntryStep, LoadedStep, LeaveStep DEF Connection
<1>2. CASE World
  <2>1. CASE Run
    BY <2>1, RunStep
  <2>2. ASSUME NEW c \in Readers, NEW d \in Readers, StartRanked(c, d) PROVE SlotInv'
    BY <2>2, SlotUntouched DEF StartRanked, slotVars
  <2>3. ASSUME NEW duel \in duels, EndRanked(duel) PROVE SlotInv'
    BY <2>3, SlotUntouched DEF EndRanked, slotVars
  <2>4. CASE RunReturns
    BY <2>4, SlotUntouched DEF RunReturns, slotVars, worldVars
  <2>5. QED BY <1>2, <2>1, <2>2, <2>3, <2>4 DEF World
<1>3. CASE Service
  BY <1>3, SlotUntouched DEF Service, slotVars, worldVars
<1>4. CASE Shutdown
  BY <1>4, SlotUntouched
     DEF Shutdown, StopAccepting, KickAll, StopWorld, CloseRanked, CloseStore,
         slotVars, worldVars
<1>5. CASE UNCHANGED onlineVars
  BY <1>5, SlotUntouched DEF onlineVars, slotVars, worldVars
<1>6. QED BY <1>1, <1>2, <1>3, <1>4, <1>5 DEF OnlineNext

-----------------------------------------------------------------------------

\* The slot of an account is taken exactly while one of its connections is on its
\* way in, connected or still to be removed (handleWS, takeOver, World.Leave):
\* it is never leaked and never freed early.
THEOREM SlotAlwaysHeldOnce == OnlineSpec => []SlotHeldOnce
<1>1. SlotInv => SlotHeldOnce
  BY DEF SlotInv
<1>2. QED BY SlotInit, SlotStep, <1>1, PTL DEF OnlineSpec

\* No account ever has two players in the world (server.go takeOver, presence.go).
THEOREM AccountPlaysOnce == OnlineSpec => []OnePlayerPerAccount
<1>1. SlotInv => OnePlayerPerAccount
  BY DEF SlotInv, SlotTypes, SlotHeldOnce, Holders, OnePlayerPerAccount
<1>2. QED BY SlotInit, SlotStep, <1>1, PTL DEF OnlineSpec

\* For the service, every step of the server is one of its own or queues a job.
LEMMA ServerMoves ==
  ASSUME [OnlineNext]_onlineVars
  PROVE  ServiceMoves \/ \E j : Enqueue(j)
<1> USE DEF ServiceMoves
<1>1. ASSUME NEW c \in Readers, Connection(c) PROVE UNCHANGED serviceVars \/ \E j : Enqueue(j)
  BY <1>1 DEF Connection, Arrive, Kick, Retry, GiveUp, UpgradeFails, Upgrade, Loaded, Leave
<1>2. CASE World
  BY <1>2 DEF World, Run, RunJoin, RunLeave, Settle, StartRanked, EndRanked, RunReturns
<1>3. CASE Service
  BY <1>3 DEF Service
<1>4. CASE Shutdown
  BY <1>4 DEF Shutdown, StopAccepting, KickAll, StopWorld, CloseRanked, CloseStore
<1>5. CASE UNCHANGED onlineVars
  BY <1>5 DEF onlineVars
<1>6. QED BY <1>1, <1>2, <1>3, <1>4, <1>5 DEF OnlineNext

\* In the whole server, for any number of connections, the worker never sleeps
\* through a queued job or through Close (service.go run, enqueue, Close).
THEOREM ServerNeverStrandsWorker == OnlineSpec => []NoLostWakeup
<1>1. OnlineInit => WakeInv
  BY WakeInit DEF OnlineInit
<1>2. WakeInv /\ [OnlineNext]_onlineVars => WakeInv'
  BY ServerMoves, WakeStep
<1>3. WakeInv => NoLostWakeup
  BY DEF WakeInv
<1>4. QED BY <1>1, <1>2, <1>3, PTL DEF OnlineSpec

-----------------------------------------------------------------------------
(* The rating.                                                             *)

\* The jobs still to be done, the one at work first
Line == job \o queue

Touches(j, x) == IsSave(j) /\ x \in {j.a, j.b}
RatingIn(j, x) == IF x = j.b THEN j.ratingB ELSE j.ratingA

\* Once the line is done, the store has what the world has settled
SavesCurrent ==
    \A x \in Chars \ unsure :
        \/ /\ db[x] = settled[x]
           /\ \A i \in DOMAIN Line : ~Touches(Line[i], x)
        \/ \E i \in DOMAIN Line :
             /\ Touches(Line[i], x) /\ RatingIn(Line[i], x) = settled[x]
             /\ \A k \in DOMAIN Line : k > i => ~Touches(Line[k], x)

\* A load is its connection's only one, and no result of its character comes after it:
\* the account's last player left before it was queued, and no other can come
LoadsLast ==
    \A i \in DOMAIN Line : ~IsSave(Line[i]) =>
        /\ pc[Line[i].reader] = "loading" /\ answer[Line[i].reader] = <<>>
        /\ Line[i].char = CharOf[Line[i].reader]
        /\ \A k \in DOMAIN Line : k > i =>
             /\ ~Touches(Line[k], Line[i].char)
             /\ ~IsSave(Line[k]) => Line[k].reader # Line[i].reader

NotAsked ==
    \A c \in Readers : pc[c] \in {"out", "kicking", "waiting", "claimed"} => answer[c] = <<>>

JoinQueued(c) == \E i \in DOMAIN cmds : cmds[i].op = "join" /\ cmds[i].conn = c

\* A connection joins once, with the rating it was given
JoinsOnce ==
    \A i \in DOMAIN cmds : cmds[i].op = "join" =>
        /\ cmds[i].conn \notin players
        /\ answer[cmds[i].conn] # <<>>
        /\ \A k \in DOMAIN cmds : cmds[k].op = "join" /\ cmds[k].conn = cmds[i].conn => k = i

\* What was loaded is still current when the player joins
AnswersCurrent ==
    \A c \in Readers :
        (pc[c] = "loading" \/ JoinQueued(c)) /\ answer[c] # <<>> /\ CharOf[c] \notin unsure
            => answer[c][1] = settled[CharOf[c]]

DuelsApart ==
    /\ \A duel \in duels : \E c, d \in players : c # d /\ duel = {c, d}
    /\ \A duel1, duel2 \in duels : duel1 \cap duel2 # {} => duel1 = duel2

RateTypes ==
    /\ ServiceTypeOK
    /\ online \subseteq Chars
    /\ sessions \subseteq Readers /\ kicked \subseteq Readers
    /\ rating \in [Readers -> Nat] /\ settled \in [Chars -> Nat]
    /\ world \in {"running", "gone"}
    /\ phase \in {"up", "draining", "closing", "stopped", "saving", "closed"}

Ratings == SavesCurrent /\ LoadsLast /\ NotAsked /\ JoinsOnce /\ AnswersCurrent /\ DuelsApart
             /\ RatingIsCurrent

RateInv == SlotInv /\ RateTypes /\ Ratings

-----------------------------------------------------------------------------

LEMMA Prepend ==
  ASSUME NEW S, NEW s \in Seq(S), NEW e \in S
  PROVE  /\ <<e>> \o s \in Seq(S) /\ <<>> \o s = s
         /\ DOMAIN (<<e>> \o s) = 1..(Len(s) + 1) /\ DOMAIN s = 1..Len(s) /\ Len(s) \in Nat
         /\ (<<e>> \o s)[1] = e
         /\ \A i \in DOMAIN s : (<<e>> \o s)[i + 1] = s[i]
  OBVIOUS

LEMMA PrependHead ==
  ASSUME NEW S, NEW s \in Seq(S), s # <<>>
  PROVE  /\ <<Head(s)>> \o Tail(s) = s
         /\ Head(s) \in S /\ Tail(s) \in Seq(S)
  OBVIOUS

LEMMA AppendLater ==
  ASSUME NEW S, NEW s \in Seq(S), NEW t \in Seq(S), NEW e \in S
  PROVE  t \o Append(s, e) = Append(t \o s, e)
  OBVIOUS

LEMMA AtMostOne ==
  ASSUME NEW S, NEW s \in Seq(S), Len(s) <= 1
  PROVE  /\ s = <<>> \/ (s = <<s[1]>> /\ s[1] \in S)
         /\ Len(s) = 1 <=> s # <<>>
<1>1. CASE s = <<>>
  BY <1>1
<1>2. CASE s # <<>>
  <2>1. Len(s) = 1 /\ s[1] \in S
    BY <1>2
  <2>2. s = <<s[1]>>
    BY <2>1
  <2>3. QED BY <1>2, <2>1, <2>2
<1>3. QED BY <1>1, <1>2

LEMMA JobOf ==
  ASSUME ServiceTypeOK
  PROVE  /\ job = <<>> \/ (job = <<job[1]>> /\ job[1] \in Jobs)
         /\ worker = "working" <=> job # <<>>
         /\ queue \in Seq(Jobs)
<1>1. job \in Seq(Jobs) /\ Len(job) <= 1 /\ queue \in Seq(Jobs)
      /\ (worker = "working" <=> Len(job) = 1)
  BY DEF ServiceTypeOK
<1>2. QED BY <1>1, AtMostOne

LEMMA LineOf ==
  ASSUME ServiceTypeOK
  PROVE  /\ Line \in Seq(Jobs) /\ DOMAIN Line = 1..Len(Line) /\ Len(Line) \in Nat
         /\ \A i \in DOMAIN Line : Line[i] \in Jobs
<1>1. Line \in Seq(Jobs)
  BY DEF ServiceTypeOK, Line
<1>2. QED BY <1>1

LEMMA LineLook ==
  ASSUME ServiceTypeOK, Look
  PROVE  Line' = Line
<1>1. job = <<>> /\ queue \in Seq(Jobs)
  BY JobOf DEF Look
<1>2. CASE queue # <<>>
  <2>1. job' = <<Head(queue)>> /\ queue' = Tail(queue)
    BY <1>2 DEF Look
  <2>2. Line = queue
    BY <1>1, Prepend DEF Line
  <2>3. Line' = queue
    BY <1>1, <1>2, <2>1, PrependHead DEF Line
  <2>4. QED BY <2>2, <2>3
<1>3. CASE queue = <<>>
  BY <1>3 DEF Look, Line
<1>4. QED BY <1>2, <1>3

LEMMA LineAppend ==
  ASSUME ServiceTypeOK, NEW j \in Jobs, Enqueue(j)
  PROVE  /\ Line' = Append(Line, j)
         /\ DOMAIN Line' = 1..(Len(Line) + 1)
         /\ \A i \in DOMAIN Line : Line'[i] = Line[i]
         /\ Line'[Len(Line) + 1] = j
<1>1. job \in Seq(Jobs) /\ queue \in Seq(Jobs)
  BY DEF ServiceTypeOK
<1>2. Line' = Append(Line, j)
  BY <1>1, AppendLater DEF Line, Enqueue
<1>3. Line \in Seq(Jobs)
  BY LineOf
<1>4. QED BY <1>2, <1>3, AppendOf

LEMMA LineWork ==
  ASSUME ServiceTypeOK, NEW ok \in BOOLEAN, Work(ok)
  PROVE  /\ 1 \in DOMAIN Line /\ Line[1] = job[1] /\ job[1] \in Jobs
         /\ \A i \in DOMAIN Line' : i + 1 \in DOMAIN Line /\ Line'[i] = Line[i + 1] /\ i \in Nat /\ i + 1 > 1
         /\ \A i \in DOMAIN Line : i # 1 => i - 1 \in DOMAIN Line'
<1>1. job = <<job[1]>> /\ job[1] \in Jobs /\ queue \in Seq(Jobs)
  BY JobOf DEF Work
<1>2. Line = <<job[1]>> \o queue
  BY <1>1 DEF Line
<1>3. Line' = queue
  BY <1>1, Prepend DEF Line, Work
<1>4. QED BY <1>1, <1>2, <1>3, Prepend

-----------------------------------------------------------------------------

\* Two connections of one character cannot both hold its slot.
LEMMA OneHolder ==
  ASSUME SlotHeldOnce, NEW c \in Holders, NEW d \in Holders, CharOf[c] = CharOf[d]
  PROVE  c = d
  BY DEF SlotHeldOnce, Account

LEMMA SavesKept ==
  ASSUME SavesCurrent, UNCHANGED <<Line, db, settled, unsure>>
  PROVE  SavesCurrent'
  BY DEF SavesCurrent

LEMMA LoadOf ==
  ASSUME ServiceTypeOK, NEW i \in DOMAIN Line, ~IsSave(Line[i])
  PROVE  Line[i].reader \in Readers /\ Line[i].char \in Chars
<1>1. Line[i] \in Loads
  BY LineOf, JobKinds
<1>2. QED BY <1>1 DEF Loads

LEMMA SaveOf ==
  ASSUME ServiceTypeOK, NEW i \in DOMAIN Line, IsSave(Line[i])
  PROVE  /\ Line[i].a \in Chars /\ Line[i].b \in Chars
         /\ Line[i].ratingA \in Nat /\ Line[i].ratingB \in Nat
<1>1. Line[i] \in Saves
  BY LineOf, JobKinds
<1>2. QED BY <1>1 DEF Saves

LEMMA LoadsKept ==
  ASSUME ServiceTypeOK, LoadsLast, UNCHANGED <<Line, answer>>,
         \A c \in Readers : pc[c] = "loading" /\ answer[c] = <<>> => pc'[c] = "loading"
  PROVE  LoadsLast'
  BY LoadOf DEF LoadsLast

\* The worker finishes the job at the head of the line.
LEMMA WorkStep ==
  ASSUME RateInv, NEW ok \in BOOLEAN, Work(ok),
         UNCHANGED <<slotVars, worldVars, world, phase>>
  PROVE  Ratings'
<1> DEFINE j == job[1]
<1>1. ServiceTypeOK /\ SlotTypes /\ Ratings /\ unsure \subseteq Chars /\ settled \in [Chars -> Nat]
      /\ db \in [Chars -> Nat] /\ answer \in [Readers -> Seq(Nat)]
  BY DEF RateInv, SlotInv, RateTypes, ServiceTypeOK
<1>2. /\ 1 \in DOMAIN Line /\ Line[1] = j /\ j \in Jobs
      /\ \A i \in DOMAIN Line' : i + 1 \in DOMAIN Line /\ Line'[i] = Line[i + 1] /\ i \in Nat /\ i + 1 > 1
      /\ \A i \in DOMAIN Line : i # 1 => i - 1 \in DOMAIN Line'
      /\ DOMAIN Line \subseteq Nat
  BY <1>1, LineWork, LineOf
<1>3. /\ UNCHANGED <<pc, cmds, players, rating, settled, duels>>
      /\ \A c \in Readers : JoinQueued(c)' = JoinQueued(c)
  BY DEF slotVars, worldVars, JoinQueued
<1>4. CASE IsSave(j)
  <2>1. j.a \in Chars /\ j.b \in Chars /\ j.ratingA \in Nat /\ j.ratingB \in Nat
    BY <1>2, <1>4, <1>1, SaveOf
  <2>2. /\ db' = IF ok THEN [db EXCEPT ![j.a] = j.ratingA, ![j.b] = j.ratingB] ELSE db
        /\ unsure' = IF ok THEN unsure ELSE unsure \union {j.a, j.b}
        /\ answer' = answer
    BY <1>4 DEF Work, Access
  <2>3. \A x \in Chars \ unsure' :
          /\ x \in Chars \ unsure
          /\ Touches(j, x) => db'[x] = RatingIn(j, x)
          /\ ~Touches(j, x) => db'[x] = db[x]
    BY <1>1, <1>4, <2>1, <2>2 DEF Touches, RatingIn
  <2>4. SavesCurrent'
    <3> SUFFICES ASSUME NEW x \in Chars \ unsure'
        PROVE \/ /\ db'[x] = settled[x]
                 /\ \A i \in DOMAIN Line' : ~Touches(Line'[i], x)
              \/ \E i \in DOMAIN Line' :
                   /\ Touches(Line'[i], x) /\ RatingIn(Line'[i], x) = settled[x]
                   /\ \A k \in DOMAIN Line' : k > i => ~Touches(Line'[k], x)
      BY <1>3 DEF SavesCurrent, Touches, RatingIn, IsSave
    <3>1. x \in Chars \ unsure
      BY <2>3
    <3>2. CASE db[x] = settled[x] /\ \A i \in DOMAIN Line : ~Touches(Line[i], x)
      BY <1>2, <2>3, <3>2
    <3>3. CASE \E i \in DOMAIN Line :
                 /\ Touches(Line[i], x) /\ RatingIn(Line[i], x) = settled[x]
                 /\ \A k \in DOMAIN Line : k > i => ~Touches(Line[k], x)
      <4>1. PICK i \in DOMAIN Line :
                 /\ Touches(Line[i], x) /\ RatingIn(Line[i], x) = settled[x]
                 /\ \A k \in DOMAIN Line : k > i => ~Touches(Line[k], x)
        BY <3>3
      <4>2. CASE i = 1
        <5>1. db'[x] = settled[x]
          BY <1>2, <2>3, <4>1, <4>2
        <5>2. \A k \in DOMAIN Line' : ~Touches(Line'[k], x)
          BY <1>2, <4>1, <4>2
        <5>3. QED BY <5>1, <5>2
      <4>3. CASE i # 1
        <5>1. i - 1 \in DOMAIN Line' /\ i \in Nat
          BY <1>2, <4>3
        <5>2. Line'[i - 1] = Line[i]
          BY <1>2, <5>1
        <5>3. \A k \in DOMAIN Line' : k > i - 1 => ~Touches(Line'[k], x)
          BY <1>2, <4>1, <5>1
        <5>4. QED BY <4>1, <5>1, <5>2, <5>3
      <4>4. QED BY <4>2, <4>3
    <3>4. QED BY <1>1, <3>1, <3>2, <3>3 DEF Ratings, SavesCurrent
  <2>5. LoadsLast'
    <3> SUFFICES ASSUME NEW i \in DOMAIN Line', ~IsSave(Line'[i])
        PROVE  /\ pc[Line'[i].reader] = "loading" /\ answer[Line'[i].reader] = <<>>
               /\ Line'[i].char = CharOf[Line'[i].reader]
               /\ \A k \in DOMAIN Line' : k > i =>
                    /\ ~Touches(Line'[k], Line'[i].char)
                    /\ ~IsSave(Line'[k]) => Line'[k].reader # Line'[i].reader
      BY <1>3, <2>2 DEF LoadsLast, Touches, IsSave
    <3>1. i + 1 \in DOMAIN Line /\ Line'[i] = Line[i + 1] /\ i \in Nat /\ i + 1 > 1
      BY <1>2
    <3>2. QED BY <1>1, <1>2, <3>1 DEF Ratings, LoadsLast
  <2>6. AnswersCurrent' /\ NotAsked' /\ JoinsOnce' /\ DuelsApart' /\ RatingIsCurrent'
    <3>1. unsure \subseteq unsure'
      BY <2>2
    <3>2. QED
      BY <1>1, <1>3, <2>2, <3>1
         DEF Ratings, AnswersCurrent, NotAsked, JoinsOnce, DuelsApart, RatingIsCurrent
  <2>7. QED BY <2>4, <2>5, <2>6 DEF Ratings
<1>5. CASE ~IsSave(j)
  <2> DEFINE r == j.reader
             x == j.char
  <2>1. r \in Readers /\ x \in Chars /\ x = CharOf[r] /\ pc[r] = "loading" /\ answer[r] = <<>>
    BY <1>1, <1>2, <1>5, LoadOf DEF Ratings, LoadsLast
  <2>2. /\ answer' = [answer EXCEPT ![r] = <<IF ok THEN db[x] ELSE 0>>]
        /\ unsure' = IF ok THEN unsure ELSE unsure \union {x}
        /\ db' = db
    BY <1>5 DEF Work, Access
  <2>3. /\ \A c \in Readers : c # r => answer'[c] = answer[c]
        /\ answer'[r] # <<>>
        /\ ok => answer'[r][1] = db[x]
        /\ unsure \subseteq unsure'
    BY <1>1, <2>1, <2>2
  <2>4. ~Touches(j, x) /\ \A y \in Chars : ~Touches(j, y)
    BY <1>5 DEF Touches
  <2>5. \A k \in DOMAIN Line' : /\ ~Touches(Line'[k], x)
                                /\ ~IsSave(Line'[k]) => Line'[k].reader # r
    <3>1. \A k \in DOMAIN Line : k > 1 =>
             /\ ~Touches(Line[k], x)
             /\ ~IsSave(Line[k]) => Line[k].reader # r
      BY <1>1, <1>2, <1>5 DEF Ratings, LoadsLast
    <3>2. QED BY <1>2, <3>1
  <2>6. SavesCurrent'
    <3> SUFFICES ASSUME NEW y \in Chars \ unsure'
        PROVE \/ /\ db[y] = settled[y]
                 /\ \A i \in DOMAIN Line' : ~Touches(Line'[i], y)
              \/ \E i \in DOMAIN Line' :
                   /\ Touches(Line'[i], y) /\ RatingIn(Line'[i], y) = settled[y]
                   /\ \A k \in DOMAIN Line' : k > i => ~Touches(Line'[k], y)
      BY <1>3, <2>2 DEF SavesCurrent, Touches, RatingIn, IsSave
    <3>1. y \in Chars \ unsure
      BY <2>3
    <3>2. CASE db[y] = settled[y] /\ \A i \in DOMAIN Line : ~Touches(Line[i], y)
      BY <1>2, <3>2
    <3>3. CASE \E i \in DOMAIN Line :
                 /\ Touches(Line[i], y) /\ RatingIn(Line[i], y) = settled[y]
                 /\ \A k \in DOMAIN Line : k > i => ~Touches(Line[k], y)
      <4>1. PICK i \in DOMAIN Line :
                 /\ Touches(Line[i], y) /\ RatingIn(Line[i], y) = settled[y]
                 /\ \A k \in DOMAIN Line : k > i => ~Touches(Line[k], y)
        BY <3>3
      <4>2. i # 1
        BY <1>2, <2>4, <4>1
      <4>3. i - 1 \in DOMAIN Line' /\ i \in Nat
        BY <1>2, <4>2
      <4>4. Line'[i - 1] = Line[i]
        BY <1>2, <4>3
      <4>5. \A k \in DOMAIN Line' : k > i - 1 => ~Touches(Line'[k], y)
        BY <1>2, <4>1, <4>3
      <4>6. QED BY <4>1, <4>3, <4>4, <4>5
    <3>4. QED BY <1>1, <3>1, <3>2, <3>3 DEF Ratings, SavesCurrent
  <2>7. LoadsLast'
    <3> SUFFICES ASSUME NEW i \in DOMAIN Line', ~IsSave(Line'[i])
        PROVE  /\ pc[Line'[i].reader] = "loading" /\ answer'[Line'[i].reader] = <<>>
               /\ Line'[i].char = CharOf[Line'[i].reader]
               /\ \A k \in DOMAIN Line' : k > i =>
                    /\ ~Touches(Line'[k], Line'[i].char)
                    /\ ~IsSave(Line'[k]) => Line'[k].reader # Line'[i].reader
      BY <1>3 DEF LoadsLast, Touches, IsSave
    <3>1. i + 1 \in DOMAIN Line /\ Line'[i] = Line[i + 1] /\ i \in Nat /\ i + 1 > 1
      BY <1>2
    <3>2. Line'[i].reader \in Readers /\ Line'[i].reader # r
      BY <1>1, <2>5, <3>1, LoadOf
    <3>3. QED BY <1>1, <1>2, <2>3, <3>1, <3>2 DEF Ratings, LoadsLast
  <2>8. AnswersCurrent'
    <3> SUFFICES ASSUME NEW c \in Readers, pc[c] = "loading" \/ JoinQueued(c), answer'[c] # <<>>,
                        CharOf[c] \notin unsure'
                 PROVE  answer'[c][1] = settled[CharOf[c]]
      BY <1>3 DEF AnswersCurrent
    <3>1. CASE c # r
      BY <1>1, <2>3, <3>1 DEF Ratings, AnswersCurrent
    <3>2. CASE c = r
      <4>1. ok /\ x \in Chars \ unsure
        BY <2>1, <2>2, <2>3, <3>2
      <4>2. \A i \in DOMAIN Line : ~Touches(Line[i], x)
        BY <1>2, <2>4, <2>5
      <4>3. db[x] = settled[x]
        BY <1>1, <4>1, <4>2 DEF Ratings, SavesCurrent
      <4>4. QED BY <2>1, <2>3, <3>2, <4>1, <4>3
    <3>3. QED BY <3>1, <3>2
  <2>9. NotAsked'
    BY <1>1, <1>3, <2>1, <2>3 DEF Ratings, NotAsked
  <2>10. JoinsOnce'
    <3>1. \A i \in DOMAIN cmds : cmds[i].conn \in Readers
      BY <1>1, CmdOf
    <3>2. QED BY <1>1, <1>3, <2>3, <3>1 DEF Ratings, JoinsOnce
  <2>11. DuelsApart' /\ RatingIsCurrent'
    BY <1>1, <1>3, <2>3 DEF Ratings, DuelsApart, RatingIsCurrent
  <2>12. QED BY <2>6, <2>7, <2>8, <2>9, <2>10, <2>11 DEF Ratings
<1>6. QED BY <1>4, <1>5

\* A step of a connection on its way in, or of the shutdown.
LEMMA EntryRates ==
  ASSUME RateInv, NEW c \in Readers,
         pc[c] \in {"out", "kicking", "waiting", "claimed"}, NEW to \in Places \ {"loading"},
         Goto(c, pc[c], to), UNCHANGED <<cmds, serviceVars, worldVars>>
  PROVE  Ratings'
<1>1. /\ ServiceTypeOK /\ Ratings /\ pc \in [Readers -> Places]
      /\ UNCHANGED <<Line, queue, job, db, answer, unsure, cmds, players, rating, duels, settled>>
  BY DEF RateInv, SlotInv, SlotTypes, RateTypes, serviceVars, worldVars, Line
<1>2. /\ \A d \in Readers : JoinQueued(d)' = JoinQueued(d)
      /\ \A d \in Readers : d # c => pc'[d] = pc[d]
      /\ pc'[c] = to /\ pc[c] # "loading"
  BY <1>1 DEF JoinQueued, Goto
<1>3. SavesCurrent'
  BY <1>1, SavesKept DEF Ratings
<1>4. LoadsLast'
  BY <1>1, <1>2, LoadsKept DEF Ratings
<1>5. NotAsked'
  BY <1>1, <1>2 DEF Ratings, NotAsked
<1>6. AnswersCurrent'
  BY <1>1, <1>2 DEF Ratings, AnswersCurrent
<1>7. JoinsOnce' /\ DuelsApart' /\ RatingIsCurrent'
  BY <1>1 DEF Ratings, JoinsOnce, DuelsApart, RatingIsCurrent
<1>8. QED BY <1>3, <1>4, <1>5, <1>6, <1>7 DEF Ratings

LEMMA UpgradeRates ==
  ASSUME RateInv, NEW c \in Readers, Upgrade(c)
  PROVE  Ratings' /\ ServiceTypeOK'
<1> DEFINE load == [reader |-> c, char |-> CharOf[c]]
<1>1. /\ ServiceTypeOK /\ Ratings /\ pc \in [Readers -> Places]
      /\ pc[c] = "claimed" /\ pc' = [pc EXCEPT ![c] = "loading"] /\ Enqueue(load)
      /\ UNCHANGED <<db, answer, unsure, cmds, players, rating, duels, settled>>
  BY DEF RateInv, SlotInv, SlotTypes, RateTypes, Upgrade, Goto, Enqueue, worldVars
<1>2. load \in Loads /\ load \in Jobs /\ ~IsSave(load)
      /\ load.reader = c /\ load.char = CharOf[c]
  BY OnlineAssumption DEF Loads, Jobs, IsSave
<1> HIDE DEF load
<1>3. ServiceTypeOK'
  BY <1>1, <1>2, ServiceTypeStep
<1>4. /\ DOMAIN Line = 1..Len(Line) /\ Len(Line) \in Nat
      /\ DOMAIN Line' = 1..(Len(Line) + 1)
      /\ \A i \in DOMAIN Line : Line'[i] = Line[i]
      /\ Line'[Len(Line) + 1] = load
  BY <1>1, <1>2, LineAppend, LineOf
<1>5. /\ \A d \in Readers : JoinQueued(d)' = JoinQueued(d)
      /\ \A d \in Readers : d # c => pc'[d] = pc[d]
      /\ pc'[c] = "loading" /\ answer[c] = <<>>
  BY <1>1 DEF JoinQueued, Ratings, NotAsked
<1>6. SavesCurrent'
  <2>1. \A x : ~Touches(load, x)
    BY <1>2 DEF Touches
  <2> SUFFICES ASSUME NEW x \in Chars \ unsure
      PROVE \/ /\ db[x] = settled[x]
               /\ \A i \in DOMAIN Line' : ~Touches(Line'[i], x)
            \/ \E i \in DOMAIN Line' :
                 /\ Touches(Line'[i], x) /\ RatingIn(Line'[i], x) = settled[x]
                 /\ \A k \in DOMAIN Line' : k > i => ~Touches(Line'[k], x)
    BY <1>1 DEF SavesCurrent, Touches, RatingIn, IsSave
  <2>2. QED BY <1>1, <1>4, <2>1 DEF Ratings, SavesCurrent
<1>7. LoadsLast'
  <2> SUFFICES ASSUME NEW i \in DOMAIN Line', ~IsSave(Line'[i])
      PROVE  /\ pc'[Line'[i].reader] = "loading" /\ answer[Line'[i].reader] = <<>>
             /\ Line'[i].char = CharOf[Line'[i].reader]
             /\ \A k \in DOMAIN Line' : k > i =>
                  /\ ~Touches(Line'[k], Line'[i].char)
                  /\ ~IsSave(Line'[k]) => Line'[k].reader # Line'[i].reader
    BY <1>1 DEF LoadsLast, Touches, IsSave
  <2>1. CASE i = Len(Line) + 1
    BY <1>2, <1>4, <1>5, <2>1
  <2>2. CASE i \in DOMAIN Line
    <3>1. /\ Line'[i] = Line[i] /\ Line[i].reader \in Readers /\ Line[i].reader # c
          /\ pc[Line[i].reader] = "loading"
      BY <1>1, <1>4, <2>2, LoadOf DEF Ratings, LoadsLast
    <3>2. ASSUME NEW k \in DOMAIN Line', k > i
          PROVE  /\ ~Touches(Line'[k], Line'[i].char)
                 /\ ~IsSave(Line'[k]) => Line'[k].reader # Line'[i].reader
      <4>1. CASE k = Len(Line) + 1
        BY <1>2, <1>4, <3>1, <4>1 DEF Touches
      <4>2. CASE k \in DOMAIN Line
        BY <1>1, <1>4, <2>2, <3>1, <3>2, <4>2 DEF Ratings, LoadsLast
      <4>3. QED BY <1>4, <4>1, <4>2
    <3>3. QED BY <1>1, <1>5, <2>2, <3>1, <3>2 DEF Ratings, LoadsLast
  <2>3. QED BY <1>4, <2>1, <2>2
<1>8. NotAsked' /\ AnswersCurrent'
  BY <1>1, <1>5 DEF Ratings, NotAsked, AnswersCurrent
<1>9. JoinsOnce' /\ DuelsApart' /\ RatingIsCurrent'
  BY <1>1 DEF Ratings, JoinsOnce, DuelsApart, RatingIsCurrent
<1>10. QED BY <1>3, <1>6, <1>7, <1>8, <1>9 DEF Ratings

LEMMA LoadedRates ==
  ASSUME RateInv, NEW c \in Readers, Loaded(c)
  PROVE  Ratings'
<1> DEFINE join == [op |-> "join", conn |-> c]
<1>1. /\ ServiceTypeOK /\ SlotTypes /\ Ratings /\ answer[c] # <<>>
      /\ pc[c] = "loading" /\ pc' = [pc EXCEPT ![c] = "live"] /\ cmds' = Append(cmds, join)
      /\ UNCHANGED <<Line, db, answer, unsure, players, rating, duels, settled>>
  BY DEF RateInv, SlotInv, RateTypes, Loaded, Goto, serviceVars, worldVars, Line
<1>2. join \in Cmds /\ join.op = "join" /\ join.conn = c
  BY DEF Cmds
<1> HIDE DEF join
<1>3. /\ DOMAIN cmds = 1..Len(cmds) /\ Len(cmds) \in Nat
      /\ DOMAIN cmds' = 1..(Len(cmds) + 1)
      /\ \A i \in DOMAIN cmds : cmds'[i] = cmds[i]
      /\ cmds'[Len(cmds) + 1] = join
  BY <1>1, <1>2, AppendOf DEF SlotTypes
<1>4. c \notin players /\ \A i \in DOMAIN cmds : cmds[i].conn # c
  BY <1>1 DEF RateInv, SlotInv, Order, NotYetIn, Queued
<1>5. /\ \A d \in Readers : d # c => pc'[d] = pc[d]
      /\ pc'[c] = "live"
      /\ \A d \in Readers : JoinQueued(d)' => JoinQueued(d) \/ d = c
  BY <1>1, <1>2, <1>3 DEF JoinQueued, SlotTypes
<1>6. SavesCurrent'
  BY <1>1, SavesKept DEF Ratings
<1>7. LoadsLast'
  <2>1. \A d \in Readers : pc[d] = "loading" /\ answer[d] = <<>> => pc'[d] = "loading"
    BY <1>1, <1>5
  <2>2. QED BY <1>1, <2>1, LoadsKept DEF Ratings
<1>8. NotAsked' /\ AnswersCurrent'
  BY <1>1, <1>5 DEF Ratings, NotAsked, AnswersCurrent
<1>9. JoinsOnce'
  <2> SUFFICES ASSUME NEW i \in DOMAIN cmds', cmds'[i].op = "join"
      PROVE  /\ cmds'[i].conn \notin players
             /\ answer[cmds'[i].conn] # <<>>
             /\ \A k \in DOMAIN cmds' :
                  cmds'[k].op = "join" /\ cmds'[k].conn = cmds'[i].conn => k = i
    BY <1>1 DEF JoinsOnce
  <2>1. CASE i = Len(cmds) + 1
    BY <1>1, <1>2, <1>3, <1>4, <2>1
  <2>2. CASE i \in DOMAIN cmds
    <3>1. cmds'[i] = cmds[i] /\ cmds[i].conn # c
      BY <1>3, <1>4, <2>2
    <3>2. \A k \in DOMAIN cmds' : cmds'[k].conn = cmds[i].conn => k \in DOMAIN cmds /\ cmds'[k] = cmds[k]
      BY <1>2, <1>3, <3>1
    <3>3. QED BY <1>1, <2>2, <3>1, <3>2 DEF Ratings, JoinsOnce
  <2>3. QED BY <1>3, <2>1, <2>2
<1>10. DuelsApart' /\ RatingIsCurrent'
  BY <1>1 DEF Ratings, DuelsApart, RatingIsCurrent
<1>11. QED BY <1>6, <1>7, <1>8, <1>9, <1>10 DEF Ratings

LEMMA LeaveRates ==
  ASSUME RateInv, NEW c \in Readers, Leave(c)
  PROVE  Ratings'
<1> DEFINE leave == [op |-> "leave", conn |-> c]
<1>1. /\ ServiceTypeOK /\ SlotTypes /\ Ratings
      /\ pc[c] = "live" /\ pc' = [pc EXCEPT ![c] = "done"] /\ cmds' = Append(cmds, leave)
      /\ UNCHANGED <<Line, db, answer, unsure, players, rating, duels, settled>>
  BY DEF RateInv, SlotInv, RateTypes, Leave, Goto, serviceVars, worldVars, Line
<1>2. leave \in Cmds /\ leave.op = "leave"
  BY DEF Cmds
<1> HIDE DEF leave
<1>3. /\ DOMAIN cmds = 1..Len(cmds) /\ Len(cmds) \in Nat
      /\ DOMAIN cmds' = 1..(Len(cmds) + 1)
      /\ \A i \in DOMAIN cmds : cmds'[i] = cmds[i]
      /\ cmds'[Len(cmds) + 1] = leave
  BY <1>1, <1>2, AppendOf DEF SlotTypes
<1>4. \A i \in DOMAIN cmds' : cmds'[i].op = "join" => i \in DOMAIN cmds /\ cmds'[i] = cmds[i]
  BY <1>2, <1>3
<1>5. /\ \A d \in Readers : d # c => pc'[d] = pc[d]
      /\ pc'[c] = "done" /\ pc[c] # "loading"
      /\ \A d \in Readers : JoinQueued(d)' => JoinQueued(d)
  BY <1>1, <1>4 DEF JoinQueued, SlotTypes
<1>6. SavesCurrent'
  BY <1>1, SavesKept DEF Ratings
<1>7. LoadsLast'
  BY <1>1, <1>5, LoadsKept DEF Ratings
<1>8. NotAsked' /\ AnswersCurrent'
  BY <1>1, <1>5 DEF Ratings, NotAsked, AnswersCurrent
<1>9. JoinsOnce'
  BY <1>1, <1>4 DEF Ratings, JoinsOnce
<1>10. DuelsApart' /\ RatingIsCurrent'
  BY <1>1 DEF Ratings, DuelsApart, RatingIsCurrent
<1>11. QED BY <1>6, <1>7, <1>8, <1>9, <1>10 DEF Ratings

\* What settling a duel does: two players, of different characters, get a game more
\* in the world, and both ratings are queued.
SettledPair(a, b, duel) ==
    /\ a \in players /\ b \in players /\ a # b /\ duel = {a, b}
    /\ rating' = [c \in Readers |-> IF c \in {a, b} THEN rating[c] + 1 ELSE rating[c]]
    /\ settled' = [x \in Chars |-> IF x \in {CharOf[a], CharOf[b]} THEN settled[x] + 1 ELSE settled[x]]
    /\ Enqueue([a |-> CharOf[a], b |-> CharOf[b],
                ratingA |-> rating[a] + 1, ratingB |-> rating[b] + 1])
    /\ duels' = duels \ {duel}

LEMMA SettleSays ==
  ASSUME RateInv, NEW duel \in duels, Settle(duel)
  PROVE  \E a, b \in Readers : SettledPair(a, b, duel)
<1> DEFINE a == CHOOSE c \in duel : TRUE
           b == CHOOSE c \in duel : duel = {a, c}
<1>1. PICK c, d \in players : c # d /\ duel = {c, d}
  BY DEF RateInv, Ratings, DuelsApart
<1>2. a \in {c, d}
  BY <1>1
<1>3. b \in duel /\ duel = {a, b}
  <2>1. \E e \in duel : duel = {a, e}
    BY <1>1, <1>2
  <2>2. QED BY <2>1
<1>4. a # b
  BY <1>1, <1>3
<1>5. a \in Readers /\ b \in Readers /\ a \in players /\ b \in players
  BY <1>1, <1>2, <1>3 DEF RateInv, SlotInv, SlotTypes
<1>6. /\ rating' = [e \in Readers |-> IF e \in duel THEN rating[e] + 1 ELSE rating[e]]
      /\ settled' = [x \in Chars |-> IF x \in {CharOf[a], CharOf[b]}
                                       THEN settled[x] + 1 ELSE settled[x]]
      /\ Enqueue([a |-> CharOf[a], b |-> CharOf[b],
                  ratingA |-> rating'[a], ratingB |-> rating'[b]])
      /\ duels' = duels \ {duel}
  BY DEF Settle
<1> HIDE DEF a, b
<1>7. rating'[a] = rating[a] + 1 /\ rating'[b] = rating[b] + 1
  BY <1>3, <1>5, <1>6
<1>8. SettledPair(a, b, duel)
  BY <1>3, <1>4, <1>5, <1>6, <1>7 DEF SettledPair
<1>9. QED BY <1>5, <1>8

LEMMA SettleRates ==
  ASSUME RateInv, NEW a \in Readers, NEW b \in Readers, NEW duel \in duels,
         SettledPair(a, b, duel),
         UNCHANGED pc, players' \subseteq players, players \ players' \subseteq duel,
         \A c \in Readers : JoinQueued(c)' => JoinQueued(c),
         JoinsOnce'
  PROVE  Ratings' /\ ServiceTypeOK' /\ rating' \in [Readers -> Nat] /\ settled' \in [Chars -> Nat]
<1> DEFINE save == [a |-> CharOf[a], b |-> CharOf[b],
                    ratingA |-> rating[a] + 1, ratingB |-> rating[b] + 1]
<1>1. /\ ServiceTypeOK /\ SlotTypes /\ SlotHeldOnce /\ Order /\ Ratings
      /\ rating \in [Readers -> Nat] /\ settled \in [Chars -> Nat]
  BY DEF RateInv, SlotInv, RateTypes
<1>2. /\ a \in players /\ b \in players /\ a # b /\ duel = {a, b}
      /\ rating' = [c \in Readers |-> IF c \in {a, b} THEN rating[c] + 1 ELSE rating[c]]
      /\ settled' = [x \in Chars |-> IF x \in {CharOf[a], CharOf[b]} THEN settled[x] + 1 ELSE settled[x]]
      /\ Enqueue(save) /\ duels' = duels \ {duel}
      /\ UNCHANGED <<db, answer, unsure>>
  BY DEF SettledPair, Enqueue
<1>3. CharOf[a] \in Chars /\ CharOf[b] \in Chars
  BY OnlineAssumption
<1>4. rating[a] + 1 \in Nat /\ rating[b] + 1 \in Nat
  BY <1>1
<1>5. /\ save \in Jobs /\ IsSave(save)
      /\ save.a = CharOf[a] /\ save.b = CharOf[b]
      /\ save.ratingA = rating[a] + 1 /\ save.ratingB = rating[b] + 1
  BY <1>3, <1>4 DEF Saves, Jobs, IsSave
<1> HIDE DEF save
<1>6. /\ DOMAIN Line = 1..Len(Line) /\ Len(Line) \in Nat
      /\ DOMAIN Line' = 1..(Len(Line) + 1)
      /\ \A i \in DOMAIN Line : Line'[i] = Line[i]
      /\ Line'[Len(Line) + 1] = save
  BY <1>1, <1>2, <1>5, LineAppend, LineOf
<1>7. /\ a \in Holders /\ b \in Holders
      /\ pc[a] \in {"live", "done"} /\ pc[b] \in {"live", "done"}
      /\ \A c \in Readers : c \in players \/ JoinQueued(c) \/ pc[c] = "loading" => c \in Holders
  BY <1>1, <1>2 DEF Holders, Order, NotYetIn, SlotTypes, Places, JoinQueued, Queued
\* another connection with a player, or on its way to one, has another character
<1>8. ASSUME NEW c \in Holders, c \notin {a, b}
      PROVE  CharOf[c] \notin {CharOf[a], CharOf[b]}
  BY <1>1, <1>7, <1>8, OneHolder
<1>9. ~JoinQueued(a) /\ ~JoinQueued(b)
  BY <1>1, <1>2 DEF Ratings, JoinsOnce, JoinQueued
<1>10. \A x \in Chars \ {CharOf[a], CharOf[b]} : settled'[x] = settled[x] /\ ~Touches(save, x)
  BY <1>1, <1>2, <1>5 DEF Touches
<1>11. \A c \in {a, b} : /\ rating'[c] = rating[c] + 1
                         /\ settled'[CharOf[c]] = settled[CharOf[c]] + 1
                         /\ CharOf[c] \notin unsure => rating[c] = settled[CharOf[c]]
  BY <1>1, <1>2, <1>3 DEF Ratings, RatingIsCurrent
<1>12. \A x \in {CharOf[a], CharOf[b]} :
          Touches(save, x) /\ (x \notin unsure => RatingIn(save, x) = settled'[x])
  BY <1>5, <1>11 DEF Touches, RatingIn
<1>13. SavesCurrent'
  <2> SUFFICES ASSUME NEW x \in Chars \ unsure
      PROVE \/ /\ db[x] = settled'[x]
               /\ \A i \in DOMAIN Line' : ~Touches(Line'[i], x)
            \/ \E i \in DOMAIN Line' :
                 /\ Touches(Line'[i], x) /\ RatingIn(Line'[i], x) = settled'[x]
                 /\ \A k \in DOMAIN Line' : k > i => ~Touches(Line'[k], x)
    BY <1>2 DEF SavesCurrent, Touches, RatingIn, IsSave
  <2>1. CASE x \in {CharOf[a], CharOf[b]}
    <3>1. Len(Line) + 1 \in DOMAIN Line' /\ \A k \in DOMAIN Line' : ~(k > Len(Line) + 1)
      BY <1>6
    <3>2. QED BY <1>6, <1>12, <2>1, <3>1
  <2>2. CASE x \notin {CharOf[a], CharOf[b]}
    <3>1. settled'[x] = settled[x] /\ ~Touches(save, x)
      BY <1>10, <2>2
    <3>2. CASE db[x] = settled[x] /\ \A i \in DOMAIN Line : ~Touches(Line[i], x)
      BY <1>6, <3>1, <3>2
    <3>3. CASE \E i \in DOMAIN Line :
                 /\ Touches(Line[i], x) /\ RatingIn(Line[i], x) = settled[x]
                 /\ \A k \in DOMAIN Line : k > i => ~Touches(Line[k], x)
      <4>1. PICK i \in DOMAIN Line :
                 /\ Touches(Line[i], x) /\ RatingIn(Line[i], x) = settled[x]
                 /\ \A k \in DOMAIN Line : k > i => ~Touches(Line[k], x)
        BY <3>3
      <4>2. i \in DOMAIN Line' /\ Line'[i] = Line[i]
        BY <1>6
      <4>3. \A k \in DOMAIN Line' : k > i => ~Touches(Line'[k], x)
        BY <1>6, <3>1, <4>1
      <4>4. QED BY <3>1, <4>1, <4>2, <4>3
    <3>4. QED BY <1>1, <3>2, <3>3 DEF Ratings, SavesCurrent
  <2>3. QED BY <2>1, <2>2
<1>14. LoadsLast'
  <2> SUFFICES ASSUME NEW i \in DOMAIN Line', ~IsSave(Line'[i])
      PROVE  /\ pc[Line'[i].reader] = "loading" /\ answer[Line'[i].reader] = <<>>
             /\ Line'[i].char = CharOf[Line'[i].reader]
             /\ \A k \in DOMAIN Line' : k > i =>
                  /\ ~Touches(Line'[k], Line'[i].char)
                  /\ ~IsSave(Line'[k]) => Line'[k].reader # Line'[i].reader
    BY <1>2 DEF LoadsLast, Touches, IsSave
  <2>1. i \in DOMAIN Line /\ Line'[i] = Line[i]
    BY <1>5, <1>6
  <2>2. /\ pc[Line[i].reader] = "loading" /\ Line[i].reader \in Readers
        /\ Line[i].char = CharOf[Line[i].reader]
    BY <1>1, <2>1, LoadOf DEF Ratings, LoadsLast
  <2>3. ~Touches(save, Line[i].char)
    BY <1>5, <1>7, <1>8, <2>2 DEF Touches
  <2>4. ASSUME NEW k \in DOMAIN Line', k > i
        PROVE  /\ ~Touches(Line'[k], Line'[i].char)
               /\ ~IsSave(Line'[k]) => Line'[k].reader # Line'[i].reader
    <3>1. CASE k = Len(Line) + 1
      BY <1>5, <1>6, <2>1, <2>3, <3>1
    <3>2. CASE k \in DOMAIN Line
      BY <1>1, <1>6, <2>1, <2>4, <3>2 DEF Ratings, LoadsLast
    <3>3. QED BY <1>6, <3>1, <3>2
  <2>5. QED BY <1>1, <2>1, <2>4 DEF Ratings, LoadsLast
<1>15. NotAsked'
  BY <1>1, <1>2 DEF Ratings, NotAsked
<1>16. AnswersCurrent'
  <2> SUFFICES ASSUME NEW c \in Readers, pc[c] = "loading" \/ JoinQueued(c), answer[c] # <<>>,
                      CharOf[c] \notin unsure
               PROVE  answer[c][1] = settled'[CharOf[c]]
    BY <1>2 DEF AnswersCurrent
  <2>1. CharOf[c] \in Chars \ {CharOf[a], CharOf[b]}
    BY <1>7, <1>8, <1>9, OnlineAssumption
  <2>2. QED BY <1>1, <1>10, <2>1 DEF Ratings, AnswersCurrent
<1>17. DuelsApart'
  <2>1. ASSUME NEW other \in duels'
        PROVE  \E c, d \in players' : c # d /\ other = {c, d}
    <3>1. other \in duels /\ other \cap duel = {}
      BY <1>1, <1>2 DEF Ratings, DuelsApart
    <3>2. PICK c, d \in players : c # d /\ other = {c, d}
      BY <1>1, <3>1 DEF Ratings, DuelsApart
    <3>3. c \in players' /\ d \in players'
      BY <3>1, <3>2
    <3>4. QED BY <3>2, <3>3
  <2>2. QED BY <1>1, <1>2, <2>1 DEF Ratings, DuelsApart
<1>18. RatingIsCurrent'
  <2> SUFFICES ASSUME NEW c \in players', CharOf[c] \notin unsure
               PROVE  rating'[c] = settled'[CharOf[c]]
    BY <1>2 DEF RatingIsCurrent
  <2>1. CASE c \in {a, b}
    BY <1>11, <2>1
  <2>2. CASE c \notin {a, b}
    <3>1. c \in Readers /\ c \in Holders /\ CharOf[c] \in Chars \ {CharOf[a], CharOf[b]}
      BY <1>1, <1>7, <1>8, <2>2, OnlineAssumption DEF SlotTypes
    <3>2. rating'[c] = rating[c]
      BY <1>2, <2>2, <3>1
    <3>3. QED BY <1>1, <1>10, <3>1, <3>2 DEF Ratings, RatingIsCurrent
  <2>3. QED BY <2>1, <2>2
<1>19. ServiceTypeOK'
  BY <1>1, <1>2, <1>5, ServiceTypeStep
<1>20. rating' \in [Readers -> Nat] /\ settled' \in [Chars -> Nat]
  BY <1>1, <1>2
<1>21. QED BY <1>13, <1>14, <1>15, <1>16, <1>17, <1>18, <1>19, <1>20 DEF Ratings

\* The world runs a command.
LEMMA RunRates ==
  ASSUME RateInv, Run
  PROVE  /\ Ratings' /\ ServiceTypeOK' /\ online' \subseteq Chars
         /\ rating' \in [Readers -> Nat] /\ settled' \in [Chars -> Nat]
<1>1. /\ ServiceTypeOK /\ SlotTypes /\ Order /\ Ratings /\ online \subseteq Chars
      /\ rating \in [Readers -> Nat] /\ settled \in [Chars -> Nat]
      /\ answer \in [Readers -> Seq(Nat)]
  BY DEF RateInv, SlotInv, RateTypes, ServiceTypeOK
<1>2. /\ cmds # <<>> /\ cmds' = Tail(cmds) /\ pc' = pc
      /\ Head(cmds) = cmds[1] /\ 1 \in DOMAIN cmds
      /\ \A i \in DOMAIN cmds' : cmds'[i] = cmds[i + 1] /\ i + 1 \in DOMAIN cmds /\ i + 1 # 1
      /\ \A i, k \in DOMAIN cmds' : i + 1 = k + 1 => i = k
  <2>1. cmds \in Seq(Cmds) /\ cmds # <<>> /\ cmds' = Tail(cmds) /\ pc' = pc
    BY <1>1 DEF Run, SlotTypes
  <2>2. QED BY <2>1, TailOf
<1> PICK c \in Readers : c = cmds[1].conn /\ cmds[1].op \in {"join", "leave"}
  BY <1>1, <1>2, CmdOf
<1>3. c \in Readers /\ c = cmds[1].conn /\ cmds[1].op \in {"join", "leave"}
  OBVIOUS
<1>4. \A d \in Readers : JoinQueued(d)' => JoinQueued(d)
  BY <1>2 DEF JoinQueued
<1>5. ASSUME UNCHANGED serviceVars
      PROVE  /\ SavesCurrent' \/ settled' # settled
             /\ LoadsLast' /\ NotAsked'
             /\ AnswersCurrent' \/ settled' # settled
             /\ ServiceTypeOK'
             /\ UNCHANGED <<Line, db, answer, unsure>>
  <2>1. UNCHANGED <<Line, db, answer, unsure>>
    BY <1>5 DEF serviceVars, Line
  <2>2. LoadsLast'
    BY <1>1, <1>2, <2>1, LoadsKept DEF Ratings
  <2>3. NotAsked' /\ (AnswersCurrent' \/ settled' # settled)
    BY <1>1, <1>2, <1>4, <2>1 DEF Ratings, NotAsked, AnswersCurrent
  <2>4. SavesCurrent' \/ settled' # settled
    BY <1>1, <2>1, SavesKept DEF Ratings
  <2>5. ServiceTypeOK'
    BY <1>1, <1>5, ServiceTypeStep DEF ServiceMoves
  <2>6. QED BY <2>1, <2>2, <2>3, <2>4, <2>5
<1>6. CASE cmds[1].op = "join"
  <2>1. /\ players' = players \union {c} /\ rating' = [rating EXCEPT ![c] = answer[c][1]]
        /\ UNCHANGED <<online, duels, settled, serviceVars>>
    BY <1>2, <1>3, <1>6 DEF Run, RunJoin
  <2>2. c \notin players /\ answer[c] # <<>> /\ JoinQueued(c)
        /\ \A k \in DOMAIN cmds : cmds[k].op = "join" /\ k # 1 => cmds[k].conn # c
    BY <1>1, <1>2, <1>3, <1>6 DEF Ratings, JoinsOnce, JoinQueued
  <2>3. answer[c][1] \in Nat
    <3>1. answer[c] \in Seq(Nat) /\ Len(answer[c]) <= 1 /\ answer[c] # <<>>
      BY <1>1, <2>2 DEF ServiceTypeOK
    <3>2. QED BY <3>1, AtMostOne
  <2>4. rating' \in [Readers -> Nat] /\ rating'[c] = answer[c][1]
        /\ \A d \in Readers : d # c => rating'[d] = rating[d]
    BY <1>1, <2>1, <2>3
  <2>5. RatingIsCurrent'
    <3>1. CharOf[c] \notin unsure => answer[c][1] = settled[CharOf[c]]
      BY <1>1, <2>2 DEF Ratings, AnswersCurrent
    <3>2. players \subseteq Readers /\ UNCHANGED <<unsure, settled>>
      BY <1>1, <2>1, <1>5 DEF SlotTypes
    <3>3. QED BY <1>1, <2>1, <2>4, <3>1, <3>2 DEF Ratings, RatingIsCurrent
  <2>6. JoinsOnce'
    <3> SUFFICES ASSUME NEW i \in DOMAIN cmds', cmds'[i].op = "join"
        PROVE  /\ cmds'[i].conn \notin players'
               /\ answer'[cmds'[i].conn] # <<>>
               /\ \A k \in DOMAIN cmds' :
                    cmds'[k].op = "join" /\ cmds'[k].conn = cmds'[i].conn => k = i
      BY DEF JoinsOnce
    <3>1. cmds'[i] = cmds[i + 1] /\ i + 1 \in DOMAIN cmds /\ i + 1 # 1
      BY <1>2
    <3>2. cmds'[i].conn # c /\ answer' = answer
      BY <1>5, <2>1, <2>2, <3>1
    <3>3. /\ cmds[i + 1].conn \notin players /\ answer[cmds[i + 1].conn] # <<>>
          /\ \A k \in DOMAIN cmds :
               cmds[k].op = "join" /\ cmds[k].conn = cmds[i + 1].conn => k = i + 1
      BY <1>1, <3>1 DEF Ratings, JoinsOnce
    <3>4. \A k \in DOMAIN cmds' :
             cmds'[k].op = "join" /\ cmds'[k].conn = cmds'[i].conn => k + 1 = i + 1
      BY <1>2, <3>1, <3>3
    <3>5. QED BY <1>2, <2>1, <3>1, <3>2, <3>3, <3>4
  <2>7. DuelsApart'
    BY <1>1, <2>1 DEF Ratings, DuelsApart
  <2>8. QED BY <1>1, <1>5, <2>1, <2>4, <2>5, <2>6, <2>7 DEF Ratings
<1>7. CASE cmds[1].op = "leave"
  <2>1. c \in players
    BY <1>1, <1>2, <1>3, <1>7, TailOf DEF Order, LeavesFind, SlotTypes
  <2>2. /\ players' = players \ {c} /\ online' \subseteq Chars
        /\ IF Busy(c) THEN Settle(CHOOSE duel \in duels : c \in duel)
           ELSE UNCHANGED <<rating, duels, settled, serviceVars>>
    BY <1>1, <1>2, <1>3, <1>7, <2>1 DEF Run, RunLeave
  <2>3. ASSUME answer' = answer PROVE JoinsOnce'
    <3> SUFFICES ASSUME NEW i \in DOMAIN cmds', cmds'[i].op = "join"
        PROVE  /\ cmds'[i].conn \notin players'
               /\ answer[cmds'[i].conn] # <<>>
               /\ \A k \in DOMAIN cmds' :
                    cmds'[k].op = "join" /\ cmds'[k].conn = cmds'[i].conn => k = i
      BY <2>3 DEF JoinsOnce
    <3>1. cmds'[i] = cmds[i + 1] /\ i + 1 \in DOMAIN cmds
      BY <1>2
    <3>2. /\ cmds[i + 1].conn \notin players /\ answer[cmds[i + 1].conn] # <<>>
          /\ \A k \in DOMAIN cmds :
               cmds[k].op = "join" /\ cmds[k].conn = cmds[i + 1].conn => k = i + 1
      BY <1>1, <3>1 DEF Ratings, JoinsOnce
    <3>3. \A k \in DOMAIN cmds' :
             cmds'[k].op = "join" /\ cmds'[k].conn = cmds'[i].conn => k + 1 = i + 1
      BY <1>2, <3>1, <3>2
    <3>4. QED BY <1>2, <2>2, <3>1, <3>2, <3>3
  <2>4. CASE Busy(c)
    <3> DEFINE duel == CHOOSE duel \in duels : c \in duel
    <3>1. duel \in duels /\ c \in duel
      BY <2>4 DEF Busy
    <3>2. Settle(duel)
      BY <2>2, <2>4
    <3> HIDE DEF duel
    <3>3. PICK a, b \in Readers : SettledPair(a, b, duel)
      BY <3>1, <3>2, SettleSays
    <3>4. JoinsOnce'
      BY <2>3, <3>3 DEF SettledPair, Enqueue
    <3>5. players' \subseteq players /\ players \ players' \subseteq duel
      BY <2>2, <3>1
    <3>6. QED BY <1>2, <1>4, <2>2, <3>1, <3>3, <3>4, <3>5, SettleRates
  <2>5. CASE ~Busy(c)
    <3>1. UNCHANGED <<rating, duels, settled, serviceVars>>
      BY <2>2, <2>5
    <3>2. DuelsApart'
      <4>1. \A duel \in duels : c \notin duel
        BY <2>5 DEF Busy
      <4>2. ASSUME NEW duel \in duels PROVE \E d, e \in players' : d # e /\ duel = {d, e}
        BY <1>1, <2>2, <4>1 DEF Ratings, DuelsApart
      <4>3. QED BY <1>1, <3>1, <4>2 DEF Ratings, DuelsApart
    <3>3. RatingIsCurrent' /\ JoinsOnce'
      BY <1>1, <1>5, <2>2, <2>3, <3>1 DEF Ratings, RatingIsCurrent
    <3>4. QED BY <1>1, <1>5, <2>2, <3>1, <3>2, <3>3 DEF Ratings
  <2>6. QED BY <2>4, <2>5
<1>8. QED BY <1>3, <1>6, <1>7

\* Ranked duels start and end.
LEMMA DuelRates ==
  ASSUME RateInv,
         \/ \E c, d \in Readers : StartRanked(c, d)
         \/ \E duel \in duels : EndRanked(duel)
  PROVE  /\ Ratings' /\ ServiceTypeOK'
         /\ rating' \in [Readers -> Nat] /\ settled' \in [Chars -> Nat]
<1>1. /\ ServiceTypeOK /\ Ratings /\ rating \in [Readers -> Nat] /\ settled \in [Chars -> Nat]
  BY DEF RateInv, RateTypes
<1>2. ASSUME NEW c \in Readers, NEW d \in Readers, StartRanked(c, d)
      PROVE  Ratings' /\ ServiceTypeOK' /\ rating' \in [Readers -> Nat] /\ settled' \in [Chars -> Nat]
  <2>1. /\ c # d /\ c \in players /\ d \in players /\ duels' = duels \union {{c, d}}
        /\ \A duel \in duels : c \notin duel /\ d \notin duel
        /\ UNCHANGED <<Line, db, answer, unsure, pc, cmds, players, rating, settled, serviceVars>>
    BY <1>2 DEF StartRanked, Busy, slotVars, serviceVars, Line
  <2>2. DuelsApart'
    <3>1. \A duel \in duels' : \E e, f \in players' : e # f /\ duel = {e, f}
      BY <1>1, <2>1 DEF Ratings, DuelsApart
    <3>2. \A duel \in duels : duel \cap {c, d} = {}
      BY <2>1
    <3>3. QED BY <1>1, <2>1, <3>1, <3>2 DEF Ratings, DuelsApart
  <2>3. SavesCurrent' /\ LoadsLast'
    BY <1>1, <2>1, SavesKept, LoadsKept DEF Ratings
  <2>4. NotAsked' /\ JoinsOnce' /\ AnswersCurrent' /\ RatingIsCurrent'
    BY <1>1, <2>1 DEF Ratings, NotAsked, JoinsOnce, AnswersCurrent, JoinQueued, RatingIsCurrent
  <2>5. ServiceTypeOK'
    BY <1>1, <2>1, ServiceTypeStep DEF ServiceMoves
  <2>6. QED BY <1>1, <2>1, <2>2, <2>3, <2>4, <2>5 DEF Ratings
<1>3. ASSUME NEW duel \in duels, EndRanked(duel)
      PROVE  Ratings' /\ ServiceTypeOK' /\ rating' \in [Readers -> Nat] /\ settled' \in [Chars -> Nat]
  <2>1. Settle(duel) /\ UNCHANGED <<players, pc, cmds>>
    BY <1>3 DEF EndRanked, slotVars
  <2>2. PICK a, b \in Readers : SettledPair(a, b, duel)
    BY <2>1, SettleSays
  <2>3. JoinsOnce' /\ \A c \in Readers : JoinQueued(c)' => JoinQueued(c)
    BY <1>1, <2>1, <2>2 DEF Ratings, JoinsOnce, JoinQueued, SettledPair, Enqueue
  <2>4. QED BY <2>1, <2>2, <2>3, SettleRates
<1>4. QED BY <1>2, <1>3

LEMMA RatesUntouched ==
  ASSUME RateInv, UNCHANGED <<Line, db, answer, unsure, pc, cmds, worldVars>>
  PROVE  Ratings'
<1>1. ServiceTypeOK /\ Ratings /\ UNCHANGED <<players, rating, duels, settled>>
  BY DEF RateInv, RateTypes, worldVars
<1>2. SavesCurrent' /\ LoadsLast'
  BY <1>1, SavesKept, LoadsKept DEF Ratings
<1>3. NotAsked' /\ JoinsOnce' /\ AnswersCurrent' /\ DuelsApart' /\ RatingIsCurrent'
  BY <1>1 DEF Ratings, NotAsked, JoinsOnce, AnswersCurrent, JoinQueued, RatingIsCurrent, DuelsApart
<1>4. QED BY <1>2, <1>3 DEF Ratings

LEMMA RateInit == OnlineInit => RateInv
<1> SUFFICES ASSUME OnlineInit PROVE RateInv
  OBVIOUS
<1>1. SlotInv
  BY SlotInit
<1>2. ServiceTypeOK
  BY ServiceTypeInit DEF OnlineInit
<1>3. RateTypes
  BY <1>2 DEF OnlineInit, RateTypes
<1>4. Line = <<>> /\ DOMAIN Line = {} /\ DOMAIN cmds = {}
  BY DEF OnlineInit, ServiceInit, Line
<1>5. Ratings
  BY <1>4 DEF OnlineInit, ServiceInit, Ratings, SavesCurrent, LoadsLast, NotAsked, JoinsOnce,
              AnswersCurrent, JoinQueued, DuelsApart, RatingIsCurrent
<1>6. QED BY <1>1, <1>3, <1>5 DEF RateInv

LEMMA RateStep == RateInv /\ [OnlineNext]_onlineVars => RateInv'
<1> SUFFICES ASSUME RateInv, [OnlineNext]_onlineVars PROVE RateInv'
  OBVIOUS
<1>1. SlotInv'
  BY SlotStep DEF RateInv
<1> SUFFICES RateTypes' /\ Ratings'
  BY <1>1 DEF RateInv
<1>2. /\ RateTypes /\ ServiceTypeOK /\ pc \in [Readers -> Places]
      /\ \A c \in Readers : Account(c) \in Chars
  BY OnlineAssumption DEF RateInv, RateTypes, SlotInv, SlotTypes, Account
<1>3. ASSUME UNCHANGED serviceVars PROVE ServiceTypeOK' /\ UNCHANGED <<Line, db, answer, unsure>>
  BY <1>2, <1>3, ServiceTypeStep DEF ServiceMoves, serviceVars, Line
<1>4. ASSUME NEW c \in Readers, Connection(c) PROVE RateTypes' /\ Ratings'
  <2>1. CASE Arrive(c) \/ Kick(c) \/ Retry(c) \/ GiveUp(c) \/ UpgradeFails(c)
    <3>1. /\ UNCHANGED <<sessions, cmds, serviceVars, worldVars, world, phase>>
          /\ pc[c] \in {"out", "kicking", "waiting", "claimed"}
          /\ \E to \in Places \ {"loading"} : Goto(c, pc[c], to)
          /\ online' \subseteq Chars /\ kicked' \subseteq Readers
      BY <1>2, <2>1 DEF Arrive, Kick, Retry, GiveUp, UpgradeFails, Goto, Places, RateTypes
    <3>2. Ratings'
      BY <3>1, EntryRates
    <3>3. QED BY <1>2, <1>3, <3>1, <3>2 DEF RateTypes, worldVars
  <2>2. CASE Upgrade(c)
    <3>1. Ratings' /\ ServiceTypeOK'
      BY <2>2, UpgradeRates
    <3>2. QED BY <1>2, <2>2, <3>1 DEF Upgrade, RateTypes, worldVars
  <2>3. CASE Loaded(c)
    <3>1. Ratings'
      BY <2>3, LoadedRates
    <3>2. QED BY <1>2, <1>3, <2>3, <3>1 DEF Loaded, RateTypes, worldVars
  <2>4. CASE Leave(c)
    <3>1. Ratings'
      BY <2>4, LeaveRates
    <3>2. QED BY <1>2, <1>3, <2>4, <3>1 DEF Leave, RateTypes, worldVars
  <2>5. QED BY <1>4, <2>1, <2>2, <2>3, <2>4 DEF Connection
<1>5. CASE World
  <2>1. CASE Run
    BY <1>2, <2>1, RunRates DEF Run, RateTypes
  <2>2. CASE (\E c, d \in Readers : StartRanked(c, d)) \/ (\E duel \in duels : EndRanked(duel))
    <3>1. UNCHANGED <<online, sessions, kicked, world, phase>>
      BY <2>2 DEF StartRanked, EndRanked, slotVars
    <3>2. QED BY <1>2, <2>2, <3>1, DuelRates DEF RateTypes
  <2>3. CASE RunReturns
    <3>1. Ratings'
      BY <1>3, <2>3, RatesUntouched DEF RunReturns, slotVars
    <3>2. QED BY <1>2, <1>3, <2>3, <3>1 DEF RunReturns, RateTypes, slotVars, worldVars
  <2>4. QED BY <1>5, <2>1, <2>2, <2>3 DEF World
<1>6. CASE Service
  <2>1. ServiceStep /\ UNCHANGED <<slotVars, worldVars, world, phase>>
    BY <1>6 DEF Service
  <2>2. ServiceTypeOK'
    BY <1>2, <2>1, ServiceTypeStep DEF ServiceMoves
  <2>3. Ratings'
    <3>1. ASSUME NEW ok \in BOOLEAN, Work(ok) PROVE Ratings'
      BY <2>1, <3>1, WorkStep
    <3>2. CASE Signal \/ Look \/ WakeUp
      <4>1. UNCHANGED <<Line, db, answer, unsure>>
        BY <1>2, <3>2, LineLook DEF Signal, WakeUp, Look, Line
      <4>2. QED BY <2>1, <4>1, RatesUntouched DEF slotVars
    <3>3. QED BY <2>1, <3>1, <3>2 DEF ServiceStep
  <2>4. QED BY <1>2, <2>1, <2>2, <2>3 DEF RateTypes, slotVars, worldVars
<1>7. CASE Shutdown
  <2>1. /\ UNCHANGED <<pc, online, sessions, cmds, worldVars, world>>
        /\ UNCHANGED serviceVars \/ Close
        /\ kicked' \subseteq Readers
        /\ phase' \in {"up", "draining", "closing", "stopped", "saving", "closed"}
    BY <1>2, <1>7 DEF Shutdown, StopAccepting, KickAll, StopWorld, CloseRanked, CloseStore, Phase,
                      slotVars, RateTypes
  <2>2. ServiceTypeOK' /\ UNCHANGED <<Line, db, answer, unsure>>
    BY <1>2, <1>3, <2>1, ServiceTypeStep DEF ServiceMoves, Close, Line
  <2>3. Ratings'
    BY <2>1, <2>2, RatesUntouched
  <2>4. QED BY <1>2, <2>1, <2>2, <2>3 DEF RateTypes, worldVars
<1>8. CASE UNCHANGED onlineVars
  <2>1. UNCHANGED <<serviceVars, slotVars, worldVars, world, phase>>
    BY <1>8 DEF onlineVars
  <2>2. Ratings'
    BY <1>3, <2>1, RatesUntouched DEF slotVars
  <2>3. QED BY <1>2, <1>3, <2>1, <2>2 DEF RateTypes, slotVars, worldVars
<1>9. QED BY <1>4, <1>5, <1>6, <1>7, <1>8 DEF OnlineNext

-----------------------------------------------------------------------------

\* The rating a player has in the world includes every ranked game their character
\* finished, for any number of characters, connections and games (service.go,
\* server.go join, World.Leave). A store that failed excepted.
THEOREM RatingAlwaysCurrent == OnlineSpec => []RatingIsCurrent
<1>1. RateInv => RatingIsCurrent
  BY DEF RateInv, Ratings
<1>2. QED BY RateInit, RateStep, <1>1, PTL DEF OnlineSpec

\* The server's state keeps its types; in particular a ranked duel is always between
\* two players who are present (World.Leave ends it first).
THEOREM OnlineTyped == OnlineSpec => []OnlineTypeOK
<1>1. RateInv => OnlineTypeOK
  <2> SUFFICES ASSUME RateInv PROVE OnlineTypeOK
    OBVIOUS
  <2>1. duels \subseteq {{c, d} : c, d \in players}
    BY DEF RateInv, Ratings, DuelsApart
  <2>2. QED BY <2>1 DEF RateInv, RateTypes, SlotInv, SlotTypes, Places, Cmds, OnlineTypeOK
<1>2. QED BY RateInit, RateStep, <1>1, PTL DEF OnlineSpec
=============================================================================
