----------------------------- MODULE PrayersProofs -----------------------------
(***************************************************************************)
(* Prayers, for any words, costs, slots and capacity of the queue: a slot  *)
(* in use is that of a goroutine, and a cleric hears how a prayer ended    *)
(* once, in its duel.                                                      *)
(***************************************************************************)
EXTENDS Prayers, Loops, FiniteSetTheorems, SequenceTheorems

Steps == {"asking", "sending", "returning", "gone"}

Running == {i \in Casts : pc[i] # "gone"}

\* A prayer somebody still has to answer is pending, and what its goroutine is
\* about to hand on does not give the word away
Unanswered ==
    \A i \in Casts :
        /\ pc[i] \in {"asking", "sending"} => told[i] = "pending"
        /\ pc[i] = "sending" => answer[i] \in Texts /\ ~Leaks(i, answer[i])

\* A command is the only one of its prayer, which is still pending
QueuedOnce ==
    \A k \in DOMAIN cmds :
        /\ pc[cmds[k].prayer] \in {"returning", "gone"}
        /\ told[cmds[k].prayer] = "pending"
        /\ ~Leaks(cmds[k].prayer, cmds[k].answer)
        /\ \A l \in DOMAIN cmds : l # k => cmds[l].prayer # cmds[k].prayer

PrayInv == TypeOK /\ SlotsHeld /\ Unanswered /\ QueuedOnce

-----------------------------------------------------------------------------

LEMMA GrowOf ==
  ASSUME NEW S, NEW s \in Seq(S), NEW e \in S, NEW T, NEW f \in [DOMAIN s -> T], NEW x \in T
  PROVE  /\ Append(s, e) \in Seq(S)
         /\ Append(f, x) \in [DOMAIN Append(s, e) -> T]
         /\ DOMAIN Append(s, e) = DOMAIN s \union {Len(s) + 1}
         /\ Len(s) + 1 \notin DOMAIN s
         /\ Append(s, e)[Len(s) + 1] = e /\ Append(f, x)[Len(s) + 1] = x
         /\ \A i \in DOMAIN s : Append(s, e)[i] = s[i] /\ Append(f, x)[i] = f[i]
<1>1. DOMAIN s = 1..Len(s) /\ Len(s) \in Nat
  OBVIOUS
<1>2. f \in Seq(T) /\ Len(f) = Len(s)
  BY <1>1
<1>3. /\ Append(s, e) \in Seq(S) /\ DOMAIN Append(s, e) = 1..(Len(s) + 1)
      /\ Append(s, e)[Len(s) + 1] = e /\ \A i \in 1..Len(s) : Append(s, e)[i] = s[i]
  BY <1>1
<1>4. /\ Append(f, x) \in Seq(T) /\ DOMAIN Append(f, x) = 1..(Len(f) + 1)
      /\ Append(f, x)[Len(f) + 1] = x /\ \A i \in 1..Len(f) : Append(f, x)[i] = f[i]
  BY <1>2, <1>1
<1>5. Append(f, x) \in [DOMAIN Append(s, e) -> T]
  <2>1. Append(f, x) \in [1..Len(Append(f, x)) -> T] /\ Len(Append(f, x)) = Len(f) + 1
    BY <1>4, <1>2, LenProperties, AppendProperties
  <2>2. QED BY <2>1, <1>2, <1>3
<1>6. 1..(Len(s) + 1) = (1..Len(s)) \union {Len(s) + 1} /\ Len(s) + 1 \notin 1..Len(s)
  BY <1>1
<1>7. QED BY <1>1, <1>2, <1>3, <1>4, <1>5, <1>6

LEMMA LastOf ==
  ASSUME NEW S, NEW s \in Seq(S), NEW T, NEW f \in [DOMAIN s -> T], NEW x \in T
  PROVE  Append(f, x)[Len(s) + 1] = x
<1>1. DOMAIN s = 1..Len(s) /\ Len(s) \in Nat
  OBVIOUS
<1>2. f \in Seq(T) /\ Len(f) = Len(s)
  BY <1>1
<1>3. QED BY <1>2

LEMMA TailOf ==
  ASSUME NEW S, NEW s \in Seq(S), s # <<>>
  PROVE  /\ Tail(s) \in Seq(S) /\ Head(s) = s[1] /\ 1 \in DOMAIN s /\ Head(s) \in S
         /\ \A k \in DOMAIN Tail(s) : /\ k + 1 \in DOMAIN s /\ k + 1 # 1
                                      /\ Tail(s)[k] = s[k + 1]
         /\ \A k, l \in DOMAIN Tail(s) : k # l => k + 1 # l + 1
  OBVIOUS

LEMMA CmdOf ==
  ASSUME TypeOK, NEW k \in DOMAIN cmds
  PROVE  cmds[k].prayer \in Casts /\ cmds[k].answer \in Texts
<1> DEFINE Cmd == [prayer: Casts, answer: Texts]
<1>1. cmds \in Seq(Cmd)
  BY DEF TypeOK
<1> HIDE DEF Cmd
<1>2. cmds[k] \in Cmd
  BY <1>1, ElementOfSeq, LenProperties
<1>3. QED BY <1>2 DEF Cmd

LEMMA PrayerOf ==
  ASSUME TypeOK, NEW i \in Casts
  PROVE  /\ prayer[i].by \in Clerics /\ Cost[prayer[i].kind] \in Nat
         /\ prayer[i].duel \in 1..duels
<1> DEFINE Prayed == [by: Clerics, duel: 1..duels, kind: Kinds, word: Words]
<1>1. prayer \in Seq(Prayed)
  BY DEF TypeOK
<1> HIDE DEF Prayed
<1>2. prayer[i] \in Prayed
  BY <1>1, ElementOfSeq, LenProperties DEF Casts
<1>3. QED BY <1>2, PrayersAssumption DEF Prayed

\* The running goroutines are finitely many
LEMMA RunningFinite ==
  ASSUME TypeOK
  PROVE  IsFiniteSet(Casts) /\ IsFiniteSet(Running) /\ Cardinality(Running) \in Nat
<1>1. Casts = 1..Len(prayer) /\ Len(prayer) \in Nat
  BY DEF TypeOK, Casts
<1>2. IsFiniteSet(Casts)
  BY <1>1, FS_Interval
<1>3. Running \subseteq Casts
  BY DEF Running
<1>4. QED BY <1>2, <1>3, FS_Subset, FS_CardinalityType

LEMMA PrayInit == Init => PrayInv
<1> SUFFICES ASSUME Init PROVE PrayInv
  OBVIOUS
<1>1. Casts = {} /\ DOMAIN cmds = {}
  BY DEF Init, Casts
<1>2. TypeOK
  BY <1>1, PrayersAssumption DEF Init, TypeOK, SameWord, None, Casts
<1>3. Cardinality({i \in Casts : pc[i] # "gone"}) = 0
  <2>1. {i \in Casts : pc[i] # "gone"} = {}
    BY <1>1
  <2>2. QED BY <2>1, FS_EmptySet, Zenon
<1>4. SlotsHeld
  BY <1>3, PrayersAssumption DEF Init, SlotsHeld
<1>5. Unanswered /\ QueuedOnce
  BY <1>1 DEF Unanswered, QueuedOnce
<1>6. QED BY <1>2, <1>4, <1>5 DEF PrayInv

\* The duel goes on around the prayers.
LEMMA DuelStep ==
  ASSUME PrayInv,
         \/ StartDuel \/ EndDuel \/ CleanSlate \/ Fortune
         \/ \E c \in Clerics : Earn(c) \/ Lose(c) \/ ChangeWords({c})
         \/ ChangeWords(Clerics)
  PROVE  PrayInv'
<1>1. UNCHANGED <<oracle, prayer, told, goVars, slots, cmds>>
  BY DEF StartDuel, EndDuel, CleanSlate, Fortune, Earn, Lose, ChangeWords, Gain
<1>2. duels' \in 0..MaxDuels /\ duels' >= duels /\ duel' \in (1..duels') \union {NoDuel}
  BY PrayersAssumption
     DEF PrayInv, TypeOK, StartDuel, EndDuel, CleanSlate, Fortune, Earn, Lose, ChangeWords, Gain
<1>3. word' \in [Clerics -> Words]
  <2>1. CASE StartDuel
    BY <2>1 DEF StartDuel, SameWord
  <2>2. ASSUME NEW changed, ChangeWords(changed)
        PROVE  word' \in [Clerics -> Words]
    BY <2>2 DEF PrayInv, TypeOK, ChangeWords
  <2>3. CASE EndDuel \/ CleanSlate \/ Fortune \/ \E c \in Clerics : Earn(c) \/ Lose(c)
    BY <2>3 DEF PrayInv, TypeOK, EndDuel, CleanSlate, Fortune, Earn, Lose, Gain
  <2>4. QED BY <2>1, <2>2, <2>3
<1>4. energy' \in [Clerics -> Nat] /\ gained' \in [Clerics -> Int]
  <2>1. ASSUME NEW new \in [Clerics -> Nat], Gain(new)
        PROVE  energy' \in [Clerics -> Nat] /\ gained' \in [Clerics -> Int]
    BY <2>1 DEF PrayInv, TypeOK, Gain
  <2>2. CASE CleanSlate
    <3>1. None \in [Clerics -> Nat]
      BY DEF None
    <3>2. QED BY <2>1, <2>2, <3>1 DEF CleanSlate
  <2>3. ASSUME NEW c \in Clerics, Earn(c)
        PROVE  energy' \in [Clerics -> Nat] /\ gained' \in [Clerics -> Int]
    <3>1. [energy EXCEPT ![c] = @ + 1] \in [Clerics -> Nat]
      BY DEF PrayInv, TypeOK
    <3>2. QED BY <2>1, <2>3, <3>1 DEF Earn
  <2>3a. ASSUME NEW c \in Clerics, Lose(c)
        PROVE  energy' \in [Clerics -> Nat] /\ gained' \in [Clerics -> Int]
    <3>1. [energy EXCEPT ![c] = @ - 1] \in [Clerics -> Nat]
      BY <2>3a DEF PrayInv, TypeOK, Lose
    <3>2. QED BY <2>1, <2>3a, <3>1 DEF Lose
  <2>4. CASE Fortune
    <3>1. PICK swap \in [Clerics -> Clerics] : Gain([c \in Clerics |-> energy[swap[c]]])
      BY <2>4 DEF Fortune
    <3>2. [c \in Clerics |-> energy[swap[c]]] \in [Clerics -> Nat]
      BY DEF PrayInv, TypeOK
    <3>3. QED BY <2>1, <3>1, <3>2
  <2>5. CASE EndDuel
    BY <2>5 DEF EndDuel, None
  <2>6. ASSUME StartDuel \/ \E changed \in SUBSET Clerics : ChangeWords(changed)
        PROVE  energy' \in [Clerics -> Nat] /\ gained' \in [Clerics -> Int]
    BY <2>6 DEF PrayInv, TypeOK, StartDuel, ChangeWords
  <2>7. QED BY <2>2, <2>3, <2>4, <2>5, <2>6, <2>3a
<1>5. prayer \in Seq([by: Clerics, duel: 1..duels', kind: Kinds, word: Words])
  <2>1. [by: Clerics, duel: 1..duels, kind: Kinds, word: Words]
            \subseteq [by: Clerics, duel: 1..duels', kind: Kinds, word: Words]
    BY <1>2 DEF PrayInv, TypeOK
  <2>2. QED BY <2>1, SeqMonotonic DEF PrayInv, TypeOK
<1>6. TypeOK'
  BY <1>1, <1>2, <1>3, <1>4, <1>5 DEF PrayInv, TypeOK, goVars, Casts
<1>7. SlotsHeld' /\ Unanswered' /\ QueuedOnce'
  BY <1>1 DEF PrayInv, SlotsHeld, Unanswered, QueuedOnce, goVars, Casts, Leaks
<1>8. QED BY <1>6, <1>7 DEF PrayInv

\* A new prayer takes a slot or is told to have failed.
LEMMA CastStep ==
  ASSUME PrayInv, NEW c \in Clerics, NEW kind \in Kinds, Cast(c, kind)
  PROVE  PrayInv'
<1> DEFINE p == [by |-> c, duel |-> duel, kind |-> kind, word |-> word[c]]
           n == Len(prayer) + 1
           Prayed == [by: Clerics, duel: 1..duels, kind: Kinds, word: Words]
           starts == oracle /\ slots < MaxPrayers
           said == IF starts THEN "pending" ELSE "failed"
           place == IF starts THEN "asking" ELSE "gone"
<1>1. /\ prayer' = Append(prayer, p) /\ asked' = Append(asked, 0)
      /\ answer' = Append(answer, NoAnswer)
      /\ told' = Append(told, said) /\ pc' = Append(pc, place)
      /\ slots' = IF starts THEN slots + 1 ELSE slots
      /\ energy' = IF starts THEN Back(c, -Cost[kind]) ELSE energy
      /\ duel # NoDuel /\ energy[c] >= Cost[kind]
      /\ UNCHANGED <<oracle, duelVars, cmds>>
  BY DEF Cast
<1>2. /\ prayer \in Seq(Prayed) /\ p \in Prayed
      /\ told \in [Casts -> {"pending", "failed", "riddle", "theWord"}]
      /\ pc \in [Casts -> Steps] /\ asked \in [Casts -> 0..1]
      /\ answer \in [Casts -> Texts \union {NoAnswer}]
  BY <1>1 DEF PrayInv, TypeOK, Steps
<1> HIDE DEF p, Prayed, said, place
<1>3. /\ prayer' \in Seq(Prayed) /\ Casts' = Casts \union {n} /\ n \notin Casts
      /\ \A i \in Casts : prayer'[i] = prayer[i]
  BY <1>1, <1>2, GrowOf DEF Casts
\* what the other sequences become
<1>4. ASSUME NEW T, NEW f \in [Casts -> T], NEW x \in T
      PROVE  /\ Append(f, x) \in [Casts' -> T] /\ Append(f, x)[n] = x
             /\ \A i \in Casts : Append(f, x)[i] = f[i]
  <2>1. f \in [DOMAIN prayer -> T] /\ Casts = DOMAIN prayer /\ Casts' = DOMAIN Append(prayer, p)
    BY <1>1, <1>4 DEF Casts
  <2>2. QED BY <1>2, <2>1, GrowOf
<1>5. /\ told' \in [Casts' -> {"pending", "failed", "riddle", "theWord"}]
      /\ told'[n] = said /\ \A i \in Casts : told'[i] = told[i]
  <2>1. said \in {"pending", "failed", "riddle", "theWord"}
    BY DEF said
  <2>2. Append(told, said) \in [Casts' -> {"pending", "failed", "riddle", "theWord"}]
    BY <1>2, <1>4, <2>1
  <2>3. \A i \in Casts : Append(told, said)[i] = told[i]
    BY <1>2, <1>4, <2>1
  <2>4. Append(told, said)[n] = said
    BY <1>2, <2>1, LastOf DEF Casts
  <2>5. QED BY <1>1, <2>2, <2>3, <2>4
<1>6. /\ pc' \in [Casts' -> Steps]
      /\ pc'[n] = place /\ \A i \in Casts : pc'[i] = pc[i]
  <2>1. place \in Steps
    BY DEF place, Steps
  <2>2. Append(pc, place) \in [Casts' -> Steps]
    BY <1>2, <1>4, <2>1
  <2>3. \A i \in Casts : Append(pc, place)[i] = pc[i]
    BY <1>2, <1>4, <2>1
  <2>4. Append(pc, place)[n] = place
    BY <1>2, <2>1, LastOf DEF Casts
  <2>5. QED BY <1>1, <2>2, <2>3, <2>4
<1>7. asked' \in [Casts' -> 0..1]
  <2>1. 0 \in 0..1
    OBVIOUS
  <2>2. QED BY <1>1, <1>2, <1>4, <2>1
<1>8. /\ answer' \in [Casts' -> Texts \union {NoAnswer}]
      /\ \A i \in Casts : answer'[i] = answer[i]
  <2>1. NoAnswer \in Texts \union {NoAnswer}
    OBVIOUS
  <2>2. Append(answer, NoAnswer) \in [Casts' -> Texts \union {NoAnswer}]
    BY <1>2, <1>4, <2>1
  <2>3. \A i \in Casts : Append(answer, NoAnswer)[i] = answer[i]
    BY <1>2, <1>4, <2>1
  <2>4. QED BY <1>1, <2>2, <2>3
<1> USE DEF Prayed, said, place
<1>9. energy' \in [Clerics -> Nat]
  <2>1. Cost[kind] \in Nat /\ energy \in [Clerics -> Nat]
    BY PrayersAssumption DEF PrayInv, TypeOK
  <2>2. energy[c] + (-Cost[kind]) \in Nat
    BY <1>1, <2>1
  <2>3. QED BY <1>1, <2>1, <2>2 DEF Back
<1>10. cmds' \in Seq([prayer: Casts', answer: Texts])
  <2>1. [prayer: Casts, answer: Texts] \subseteq [prayer: Casts', answer: Texts]
    BY <1>3
  <2>2. QED BY <1>1, <2>1, SeqMonotonic DEF PrayInv, TypeOK
<1>11. slots' \in 0..MaxPrayers
  BY <1>1, PrayersAssumption DEF PrayInv, TypeOK
<1>12. TypeOK'
  BY <1>1, <1>3, <1>5, <1>6, <1>7, <1>8, <1>9, <1>10, <1>11
     DEF PrayInv, TypeOK, duelVars, Steps
<1>13. SlotsHeld'
  <2>1. slots = Cardinality(Running) /\ IsFiniteSet(Running) /\ Cardinality(Running) \in Nat
    BY RunningFinite DEF PrayInv, SlotsHeld, Running
  <2>2. n \notin Running
    BY <1>3 DEF Running
  <2>3. CASE starts
    <3>1. Running' = Running \union {n}
      BY <1>3, <1>6, <2>3 DEF Running
    <3>2. Cardinality(Running') = slots + 1
      BY <2>1, <2>2, <3>1, FS_AddElement
    <3>3. slots' = Cardinality(Running')
      BY <1>1, <2>3, <3>2
    <3>4. QED BY <1>11, <3>3, PrayersAssumption DEF SlotsHeld, Running
  <2>4. CASE ~starts
    <3>1. Running' = Running
      BY <1>3, <1>6, <2>4 DEF Running
    <3>2. slots' = Cardinality(Running')
      BY <1>1, <2>1, <2>4, <3>1
    <3>3. QED BY <1>11, <3>2, PrayersAssumption DEF SlotsHeld, Running
  <2>5. QED BY <2>3, <2>4
<1>14. Unanswered'
  BY <1>3, <1>5, <1>6, <1>8 DEF PrayInv, Unanswered, Leaks
<1>15. QueuedOnce'
  <2>1. \A k \in DOMAIN cmds : cmds[k].prayer \in Casts
    BY CmdOf DEF PrayInv
  <2>2. \A i \in Casts : pc'[i] = pc[i] /\ told'[i] = told[i] /\ prayer'[i] = prayer[i]
    BY <1>3, <1>5, <1>6
  <2>3. UNCHANGED cmds
    BY <1>1
  <2>4. QED BY <2>1, <2>2, <2>3 DEF PrayInv, QueuedOnce, Leaks
<1>16. QED BY <1>12, <1>13, <1>14, <1>15 DEF PrayInv

\* One goroutine takes a step.
LEMMA AskStep ==
  ASSUME PrayInv, NEW i \in Casts, NEW text \in Texts, Ask(i, text)
  PROVE  PrayInv'
<1>1. /\ pc[i] = "asking"
      /\ UNCHANGED <<oracle, duelVars, energy, prayer, told, slots, cmds>>
      /\ \/ /\ asked' = [asked EXCEPT ![i] = 1] /\ UNCHANGED <<pc, answer>>
         \/ \E res \in Texts : /\ ~Leaks(i, res)
                               /\ answer' = [answer EXCEPT ![i] = res]
                               /\ asked' = [asked EXCEPT ![i] = 0]
                               /\ pc' = [pc EXCEPT ![i] = "sending"]
  BY DEF Ask, Returns, AsksAgain, Leaks, Texts
<1>2. Casts' = Casts
  BY <1>1 DEF Casts
<1>3. /\ pc' \in [Casts -> Steps] /\ answer' \in [Casts -> Texts \union {NoAnswer}]
      /\ asked' \in [Casts -> 0..1]
  <2>1. /\ pc \in [Casts -> Steps] /\ answer \in [Casts -> Texts \union {NoAnswer}]
        /\ asked \in [Casts -> 0..1]
    BY DEF PrayInv, TypeOK, Steps
  <2>2. "sending" \in Steps /\ 0 \in 0..1 /\ 1 \in 0..1
    BY DEF Steps
  <2>3. QED BY <1>1, <2>1, <2>2
<1>4. TypeOK'
  BY <1>1, <1>2, <1>3 DEF PrayInv, TypeOK, duelVars, Steps
<1>5. SlotsHeld'
  <2>1. \A j \in Casts : pc'[j] = "gone" <=> pc[j] = "gone"
    BY <1>1, <1>3 DEF PrayInv, TypeOK
  <2>2. Running' = Running
    BY <1>2, <2>1 DEF Running
  <2>3. QED BY <1>1, <2>2 DEF PrayInv, SlotsHeld, Running
<1>6. Unanswered'
  BY <1>1, <1>2 DEF PrayInv, TypeOK, Unanswered, Leaks
<1>7. QueuedOnce'
  <2>1. \A k \in DOMAIN cmds : cmds[k].prayer \in Casts /\ cmds[k].prayer # i
    BY <1>1, CmdOf DEF PrayInv, QueuedOnce
  <2>2. \A j \in Casts : j # i => pc'[j] = pc[j]
    BY <1>1 DEF PrayInv, TypeOK
  <2>3. QED BY <1>1, <2>1, <2>2 DEF PrayInv, QueuedOnce, Leaks
<1>8. QED BY <1>4, <1>5, <1>6, <1>7 DEF PrayInv

LEMMA DoStep ==
  ASSUME PrayInv, NEW i \in Casts, Do(i)
  PROVE  PrayInv'
<1> DEFINE Cmd == [prayer: Casts, answer: Texts]
           cmd == [prayer |-> i, answer |-> answer[i]]
<1>1. /\ pc[i] = "sending" /\ cmds' = Append(cmds, cmd)
      /\ pc' = [pc EXCEPT ![i] = "returning"] /\ answer' = [answer EXCEPT ![i] = NoAnswer]
      /\ UNCHANGED <<oracle, duelVars, energy, prayer, told, asked, slots>>
  BY DEF Do
<1>2. /\ Casts' = Casts /\ cmds \in Seq(Cmd) /\ cmd \in Cmd
      /\ told[i] = "pending" /\ ~Leaks(i, answer[i])
  BY <1>1 DEF PrayInv, TypeOK, Unanswered, Casts
<1>3. /\ cmds' \in Seq(Cmd) /\ DOMAIN cmds' = DOMAIN cmds \union {Len(cmds) + 1}
      /\ Len(cmds) + 1 \notin DOMAIN cmds
      /\ cmds'[Len(cmds) + 1] = cmd /\ \A k \in DOMAIN cmds : cmds'[k] = cmds[k]
  <2>1. cmds \in [DOMAIN cmds -> Cmd]
    BY <1>2, LenProperties
  <2>2. QED BY <1>1, <1>2, <2>1, GrowOf
<1>4. /\ pc' \in [Casts -> Steps] /\ answer' \in [Casts -> Texts \union {NoAnswer}]
  BY <1>1 DEF PrayInv, TypeOK, Steps
<1>5. TypeOK'
  BY <1>1, <1>2, <1>3, <1>4 DEF PrayInv, TypeOK, duelVars, Steps
<1>6. SlotsHeld'
  <2>1. \A j \in Casts : pc'[j] = "gone" <=> pc[j] = "gone"
    BY <1>1, <1>4 DEF PrayInv, TypeOK
  <2>2. Running' = Running
    BY <1>2, <2>1 DEF Running
  <2>3. QED BY <1>1, <2>2 DEF PrayInv, SlotsHeld, Running
<1>7. \A j \in Casts : j # i => pc'[j] = pc[j] /\ answer'[j] = answer[j]
  BY <1>1 DEF PrayInv, TypeOK
<1>8. pc'[i] = "returning"
  BY <1>1 DEF PrayInv, TypeOK
<1>9. Unanswered'
  BY <1>1, <1>2, <1>7, <1>8 DEF PrayInv, Unanswered, Leaks
<1>10. QueuedOnce'
  <2>1. \A k \in DOMAIN cmds : cmds[k].prayer \in Casts /\ cmds[k].prayer # i
    BY <1>1, CmdOf DEF PrayInv, QueuedOnce
  <2>2. cmd.prayer = i /\ cmd.answer = answer[i]
    OBVIOUS
  <2> HIDE DEF cmd
  <2>3. QED BY <1>1, <1>2, <1>3, <1>7, <1>8, <2>1, <2>2 DEF PrayInv, QueuedOnce, Leaks
<1>11. QED BY <1>5, <1>6, <1>9, <1>10 DEF PrayInv

LEMMA ReturnStep ==
  ASSUME PrayInv, NEW i \in Casts, Return(i)
  PROVE  PrayInv'
<1>1. /\ pc[i] = "returning" /\ pc' = [pc EXCEPT ![i] = "gone"] /\ slots' = slots - 1
      /\ UNCHANGED <<oracle, duelVars, energy, prayer, told, asked, answer, cmds>>
  BY DEF Return
<1>2. /\ Casts' = Casts /\ pc' \in [Casts -> Steps] /\ pc'[i] = "gone"
      /\ \A j \in Casts : j # i => pc'[j] = pc[j]
  BY <1>1 DEF PrayInv, TypeOK, Casts, Steps
<1>3. /\ slots = Cardinality(Running) /\ IsFiniteSet(Running)
      /\ Cardinality(Running) \in Nat /\ i \in Running
  BY <1>1, RunningFinite DEF PrayInv, SlotsHeld, Running
<1>4. Running' = Running \ {i}
  BY <1>2 DEF Running
<1>5. Cardinality(Running') = slots - 1 /\ Cardinality(Running') \in Nat
  <2>1. Cardinality(Running') = slots - 1 /\ IsFiniteSet(Running')
    BY <1>3, <1>4, FS_RemoveElement
  <2>2. QED BY <2>1, FS_CardinalityType
<1>6. SlotsHeld' /\ slots' \in 0..MaxPrayers
  BY <1>1, <1>5, PrayersAssumption DEF PrayInv, TypeOK, SlotsHeld, Running
<1>7. TypeOK'
  BY <1>1, <1>2, <1>6 DEF PrayInv, TypeOK, duelVars, Steps
<1>8. Unanswered'
  BY <1>1, <1>2 DEF PrayInv, Unanswered, Leaks
<1>9. QueuedOnce'
  <2>1. \A k \in DOMAIN cmds : cmds[k].prayer \in Casts
    BY CmdOf DEF PrayInv
  <2>2. QED BY <1>1, <1>2, <2>1 DEF PrayInv, QueuedOnce, Leaks
<1>10. QED BY <1>6, <1>7, <1>8, <1>9 DEF PrayInv

\* The world runs a command: what it can do to what was told and to the energy.
LEMMA RunSays ==
  ASSUME PrayInv, Run
  PROVE  LET i == cmds[1].prayer
             p == prayer[i]
         IN /\ i \in Casts /\ 1 \in DOMAIN cmds /\ cmds[1].answer \in Texts
            /\ \/ UNCHANGED <<energy, told>>
               \/ /\ duel = p.duel /\ energy' = Back(p.by, Cost[p.kind])
                  /\ told' = [told EXCEPT ![i] = "failed"]
               \/ /\ duel = p.duel /\ word[p.by] = p.word /\ cmds[1].answer # "error"
                  /\ told' = [told EXCEPT ![i] = cmds[1].answer] /\ UNCHANGED energy
            /\ cmds' = Tail(cmds) /\ UNCHANGED <<oracle, duelVars, prayer, goVars, slots>>
<1>1. cmds \in Seq([prayer: Casts, answer: Texts]) /\ cmds # <<>>
  BY DEF PrayInv, TypeOK, Run
<1>2. 1 \in DOMAIN cmds /\ Head(cmds) = cmds[1] /\ cmds[1] \in [prayer: Casts, answer: Texts]
  BY <1>1, TailOf
<1>3. QED BY <1>2 DEF Run, Answered

LEMMA RunStep ==
  ASSUME PrayInv, Run
  PROVE  PrayInv'
<1> DEFINE Cmd == [prayer: Casts, answer: Texts]
           i == cmds[1].prayer
<1>1. /\ i \in Casts /\ 1 \in DOMAIN cmds /\ cmds[1].answer \in Texts
      /\ cmds' = Tail(cmds) /\ UNCHANGED <<oracle, duelVars, prayer, goVars, slots>>
  BY RunSays
<1>2. /\ Casts' = Casts /\ UNCHANGED <<pc, asked, answer>>
  BY <1>1 DEF Casts, goVars
<1>3. /\ told' \in [Casts -> {"pending", "failed", "riddle", "theWord"}]
      /\ \A j \in Casts : j # i => told'[j] = told[j]
  BY RunSays DEF PrayInv, TypeOK, Texts
<1>4. energy' \in [Clerics -> Nat]
  <2>2. Cost[prayer[i].kind] \in Nat /\ prayer[i].by \in Clerics
    BY <1>1, PrayerOf DEF PrayInv
  <2>3. \A c \in Clerics, cost \in Nat : Back(c, cost) \in [Clerics -> Nat]
    BY DEF Back, PrayInv, TypeOK
  <2>4. Back(prayer[i].by, Cost[prayer[i].kind]) \in [Clerics -> Nat]
    BY <2>2, <2>3, Zenon
  <2>5. \/ UNCHANGED energy
        \/ energy' = Back(prayer[i].by, Cost[prayer[i].kind])
    BY RunSays, Zenon
  <2>6. QED BY <2>4, <2>5 DEF PrayInv, TypeOK
<1>5. cmds \in Seq(Cmd) /\ cmds # <<>>
  BY DEF PrayInv, TypeOK, Run
<1>6. /\ cmds' \in Seq(Cmd)
      /\ \A k \in DOMAIN cmds' : k + 1 \in DOMAIN cmds /\ k + 1 # 1 /\ cmds'[k] = cmds[k + 1]
      /\ \A k, l \in DOMAIN cmds' : k # l => k + 1 # l + 1
  BY <1>1, <1>5, TailOf
<1>7. TypeOK'
  BY <1>1, <1>2, <1>3, <1>4, <1>6 DEF PrayInv, TypeOK, duelVars
<1>8. SlotsHeld'
  BY <1>1, <1>2 DEF PrayInv, SlotsHeld
<1>9. pc[i] \in {"returning", "gone"} /\ \A k \in DOMAIN cmds : k # 1 => cmds[k].prayer # i
  BY <1>1 DEF PrayInv, QueuedOnce
<1>10. Unanswered'
  BY <1>1, <1>2, <1>3, <1>9 DEF PrayInv, Unanswered, Leaks
<1>11. QueuedOnce'
  <2> SUFFICES ASSUME NEW k \in DOMAIN cmds'
      PROVE /\ pc[cmds'[k].prayer] \in {"returning", "gone"}
            /\ told'[cmds'[k].prayer] = "pending"
            /\ ~Leaks(cmds'[k].prayer, cmds'[k].answer)
            /\ \A l \in DOMAIN cmds' : l # k => cmds'[l].prayer # cmds'[k].prayer
    BY <1>1, <1>2 DEF QueuedOnce, Leaks
  <2>1. k + 1 \in DOMAIN cmds /\ cmds'[k] = cmds[k + 1] /\ cmds[k + 1].prayer # i
    BY <1>6, <1>9
  <2>2. cmds[k + 1].prayer \in Casts
    BY <2>1, CmdOf DEF PrayInv
  <2>3. told'[cmds[k + 1].prayer] = told[cmds[k + 1].prayer]
    BY <1>3, <2>1, <2>2
  <2>4. QED BY <1>6, <2>1, <2>3 DEF PrayInv, QueuedOnce
<1>12. QED BY <1>7, <1>8, <1>10, <1>11 DEF PrayInv

LEMMA PrayStep == PrayInv /\ [Next]_vars => PrayInv'
<1> SUFFICES ASSUME PrayInv, [Next]_vars PROVE PrayInv'
  OBVIOUS
<1>1. CASE UNCHANGED vars
  BY <1>1 DEF PrayInv, TypeOK, SlotsHeld, Unanswered, QueuedOnce, vars, duelVars, goVars,
              Casts, Leaks
<1>2. CASE Next
  BY <1>2, DuelStep, CastStep, AskStep, DoStep, ReturnStep, RunStep DEF Next
<1>3. QED BY <1>1, <1>2

\* The invariant everything below rests on: types, slots, what is still pending
\* and what is queued (cleric.go pray).
THEOREM PrayersInvariant == Spec => []PrayInv
<1>1. QED BY PrayInit, PrayStep, PTL DEF Spec

\* The state of prayers keeps its types; energy, in particular, never falls
\* below zero (cleric.go pray, abilities.go CastAbility).
THEOREM PrayersTyped == Spec => []TypeOK
<1>1. PrayInv => TypeOK
  BY DEF PrayInv
<1>2. QED BY <1>1, PrayersInvariant, PTL

\* A slot in use is always that of a goroutine which will free it, and the slots
\* are never overdrawn, for any number of prayers, duels and slots (cleric.go pray).
THEOREM SlotsAlwaysHeld == Spec => []SlotsHeld
<1>1. PrayInv => SlotsHeld
  BY DEF PrayInv
<1>2. QED BY <1>1, PrayersInvariant, PTL

\* A cleric hears how a prayer ended once, in its duel, and about the word they
\* have (cleric.go pray).
THEOREM HeardOnce == Spec => HeardOnceAndInTime
<1> DEFINE A(i) == told'[i] # told[i] =>
          /\ told[i] = "pending" /\ duel = prayer[i].duel
          /\ told'[i] # "failed" => /\ word[prayer[i].by] = prayer[i].word
                                    /\ ~Leaks(i, told'[i])
<1>1. ASSUME PrayInv, [Next]_vars, NEW i \in Casts
      PROVE  A(i)
  <2>1. CASE Run
    <3>1. told'[i] # told[i] => i = cmds[1].prayer
      BY <1>1, <2>1, RunSays DEF PrayInv, TypeOK
    <3>2. told[cmds[1].prayer] = "pending" /\ ~Leaks(cmds[1].prayer, cmds[1].answer)
      BY <1>1, <2>1, RunSays DEF PrayInv, QueuedOnce
    <3>3. told'[i] # told[i] => \/ duel = prayer[i].duel /\ told'[i] = "failed"
                                \/ /\ duel = prayer[i].duel /\ told'[i] = cmds[1].answer
                                   /\ word[prayer[i].by] = prayer[i].word
      BY <1>1, <2>1, <3>1, RunSays DEF PrayInv, TypeOK
    <3>4. QED BY <3>1, <3>2, <3>3
  <2>2. ASSUME NEW c \in Clerics, NEW kind \in Kinds, Cast(c, kind)
        PROVE  told'[i] = told[i]
    <3>1. /\ told \in [DOMAIN prayer -> {"pending", "failed", "riddle", "theWord"}]
          /\ prayer \in Seq([by: Clerics, duel: 1..duels, kind: Kinds, word: Words])
          /\ prayer' \in {Append(prayer, [by |-> c, duel |-> duel, kind |-> kind, word |-> word[c]])}
          /\ [by |-> c, duel |-> duel, kind |-> kind, word |-> word[c]]
                \in [by: Clerics, duel: 1..duels, kind: Kinds, word: Words]
          /\ \E said \in {"pending", "failed", "riddle", "theWord"} : told' = Append(told, said)
      BY <1>1, <2>2 DEF PrayInv, TypeOK, Cast, Casts
    <3>2. QED BY <1>1, <3>1, GrowOf DEF Casts
  <2>3. ASSUME ~Run, \A c \in Clerics, kind \in Kinds : ~Cast(c, kind)
        PROVE  told' = told
    BY <1>1, <2>3 DEF Next, StartDuel, EndDuel, CleanSlate, Fortune, Earn, Lose,
                      ChangeWords, Gain, Do, Return, Ask, vars
  <2>4. QED BY <2>1, <2>2, <2>3
<1>2. PrayInv /\ [Next]_vars => [\A i \in Casts : A(i)]_vars
  BY <1>1
<1>3. QED BY <1>2, PrayersInvariant, PTL DEF Spec, HeardOnceAndInTime

-----------------------------------------------------------------------------
(* Energy.                                                                 *)

\* A sum and its parts.
Sums(f, amounts) ==
    f[0] = 0 /\ \A n \in 1..Len(amounts) : f[n] = f[n - 1] + amounts[n]

LEMMA TotalIs ==
  ASSUME NEW amounts \in Seq(Int)
  PROVE  \E f \in [0..Len(amounts) -> Int] : Sums(f, amounts) /\ Total(amounts) = f[Len(amounts)]
<1> DEFINE len == Len(amounts)
           upto[n \in 0..Len(amounts)] == IF n = 0 THEN 0 ELSE upto[n - 1] + amounts[n]
           G == [z \in (1..len) \X Int |-> z[2] + amounts[z[1]]]
<1>1. len \in Nat /\ \A n \in 1..len : amounts[n] \in Int
  OBVIOUS
<1>2. PICK f \in [0..len -> Int] : Sums(f, amounts)
  <2>1. G \in [(1..len) \X Int -> Int]
    BY <1>1
  <2>2. PICK f \in [0..len -> Int] : Stages(f, len, 0, G)
    <3>1. 0 \in Int
      OBVIOUS
    <3> HIDE DEF G, len
    <3>2. QED BY <1>1, <2>1, <3>1, StagesExist
  <2>3. ASSUME NEW n \in 1..len PROVE f[n] = f[n - 1] + amounts[n]
    <3>1. f[n - 1] \in Int
      <4>1. n - 1 \in 0..len
        BY <1>1
      <4> HIDE DEF len, G
      <4>2. QED BY <2>2, <4>1
    <3>2. G[<<n, f[n - 1]>>] = f[n - 1] + amounts[n]
      BY <3>1
    <3>3. QED BY <2>2, <3>2 DEF Stages
  <2>4. QED BY <2>2, <2>3 DEF Stages, Sums
<1>3. f = [n \in 0..len |-> IF n = 0 THEN 0 ELSE f[n - 1] + amounts[n]]
  BY <1>1, <1>2 DEF Sums
<1>4. upto = [n \in 0..len |-> IF n = 0 THEN 0 ELSE upto[n - 1] + amounts[n]]
  BY <1>3
<1>5. Total(amounts) = upto[len]
  BY DEF Total
<1> HIDE DEF upto
<1>6. upto[len] = f[len]
  <2>1. upto[0] = f[0]
    BY <1>1, <1>2, <1>4 DEF Sums
  <2>2. ASSUME NEW n \in 1..len, upto[n - 1] = f[n - 1] PROVE upto[n] = f[n]
    BY <1>1, <1>2, <1>4, <2>2 DEF Sums
  <2> HIDE DEF len
  <2>3. QED BY <1>1, <2>1, <2>2, SameStages
<1>7. QED BY <1>2, <1>5, <1>6

\* A number more, and a number that changes.
LEMMA TotalAppend ==
  ASSUME NEW amounts \in Seq(Int), NEW x \in Int
  PROVE  Total(Append(amounts, x)) = Total(amounts) + x
<1> DEFINE len == Len(amounts)
           more == Append(amounts, x)
<1>1. /\ more \in Seq(Int) /\ Len(more) = len + 1 /\ len \in Nat
      /\ more[len + 1] = x /\ \A n \in 1..len : more[n] = amounts[n]
  OBVIOUS
<1> HIDE DEF more
<1>2. PICK f \in [0..len -> Int] : Sums(f, amounts) /\ Total(amounts) = f[len]
  BY TotalIs, Zenon
<1>3. PICK g \in [0..Len(more) -> Int] : Sums(g, more) /\ Total(more) = g[Len(more)]
  BY <1>1, TotalIs, Zenon
<1>4. g[len] = f[len]
  <2>1. g[0] = f[0]
    BY <1>2, <1>3 DEF Sums
  <2>2. ASSUME NEW n \in 1..len, g[n - 1] = f[n - 1] PROVE g[n] = f[n]
    BY <1>1, <1>2, <1>3, <2>2 DEF Sums
  <2> HIDE DEF len
  <2>3. QED BY <1>1, <2>1, <2>2, SameStages
<1>5. g[len + 1] = g[(len + 1) - 1] + more[len + 1]
  <2>1. len + 1 \in 1..Len(more)
    BY <1>1
  <2>2. QED BY <1>3, <2>1 DEF Sums
<1>6. QED BY <1>1, <1>2, <1>3, <1>4, <1>5 DEF more

LEMMA TotalChanges ==
  ASSUME NEW amounts \in Seq(Int), NEW others \in Seq(Int), NEW k \in 1..Len(amounts),
         Len(others) = Len(amounts),
         \A n \in 1..Len(amounts) : n # k => others[n] = amounts[n]
  PROVE  Total(others) = Total(amounts) + others[k] - amounts[k]
<1> DEFINE len == Len(amounts)
           diff == others[k] - amounts[k]
<1>1. len \in Nat /\ diff \in Int /\ \A n \in 1..len : others[n] \in Int /\ amounts[n] \in Int
  OBVIOUS
<1>2. PICK f \in [0..len -> Int] : Sums(f, amounts) /\ Total(amounts) = f[len]
  BY TotalIs, Zenon
<1>3. PICK g \in [0..Len(others) -> Int] : Sums(g, others) /\ Total(others) = g[Len(others)]
  BY TotalIs, Zenon
<1> DEFINE h == [n \in 0..len |-> IF n < k THEN f[n] ELSE f[n] + diff]
<1>4. g[len] = h[len]
  <2>1. g[0] = h[0]
    BY <1>1, <1>2, <1>3 DEF Sums
  <2>2. ASSUME NEW n \in 1..len, g[n - 1] = h[n - 1] PROVE g[n] = h[n]
    <3>1. g[n] = g[n - 1] + others[n] /\ f[n] = f[n - 1] + amounts[n]
      BY <1>2, <1>3 DEF Sums
    <3>2. n \in 0..len /\ n - 1 \in 0..len
      BY <1>1
    <3>3. f[n - 1] \in Int /\ f[n] \in Int
      <4> HIDE DEF len
      <4>1. QED BY <1>2, <3>2
    <3>4. /\ h[n] = IF n < k THEN f[n] ELSE f[n] + diff
          /\ h[n - 1] = IF n - 1 < k THEN f[n - 1] ELSE f[n - 1] + diff
      BY <3>2
    <3>5. /\ others[n] \in Int /\ amounts[n] \in Int /\ diff \in Int /\ n \in Int /\ k \in Int
          /\ n # k => others[n] = amounts[n]
      BY <1>1
    <3>6. n = k => others[n] = amounts[n] + diff
      BY <3>5
    <3> HIDE DEF h, diff, len
    <3>7. CASE n < k
      BY <2>2, <3>1, <3>3, <3>4, <3>5, <3>7
    <3>8. CASE n = k
      BY <2>2, <3>1, <3>3, <3>4, <3>5, <3>6, <3>8
    <3>9. CASE n > k
      <4>1. ~(n < k) /\ ~(n - 1 < k) /\ n # k
        BY <3>5, <3>9
      <4>2. others[n] = amounts[n] /\ g[n - 1] = f[n - 1] + diff /\ h[n] = f[n] + diff
        BY <2>2, <3>4, <3>5, <4>1
      <4>3. g[n] = (f[n - 1] + diff) + amounts[n] /\ h[n] = (f[n - 1] + amounts[n]) + diff
        BY <3>1, <4>2
      <4>4. QED BY <3>3, <3>5, <4>3
    <3>10. QED BY <3>5, <3>7, <3>8, <3>9
  <2> HIDE DEF len, h
  <2>3. QED BY <1>1, <2>1, <2>2, SameStages
<1>5. h[len] = f[len] + diff
  BY <1>1
<1>6. QED BY <1>1, <1>2, <1>3, <1>4, <1>5

LEMMA TotalNothing ==
  ASSUME NEW amounts \in Seq(Int), \A n \in 1..Len(amounts) : amounts[n] = 0
  PROVE  Total(amounts) = 0
<1> DEFINE len == Len(amounts)
           T == [n \in 0..len |-> {0}]
<1>1. PICK f \in [0..len -> Int] : Sums(f, amounts) /\ Total(amounts) = f[len]
  BY TotalIs, Zenon
<1>2. f[0] \in T[0] /\ \A n \in 1..len : f[n - 1] \in T[n - 1] => f[n] \in T[n]
  <2>1. T[0] = {0} /\ \A n \in 1..len : T[n - 1] = {0} /\ T[n] = {0}
    OBVIOUS
  <2>2. f[0] = 0 /\ \A n \in 1..len : f[n] = f[n - 1] + 0
    BY <1>1 DEF Sums
  <2> HIDE DEF T
  <2>3. QED BY <2>1, <2>2
<1>3. T[len] = {0} /\ len \in Nat
  OBVIOUS
<1> HIDE DEF T, len
<1>4. \A n \in 0..len : f[n] \in T[n]
  BY <1>2, <1>3, StagesHold
<1>5. QED BY <1>1, <1>3, <1>4

LEMMA TotalTyped ==
  ASSUME NEW amounts \in Seq(Int)
  PROVE  Total(amounts) \in Int
<1>1. PICK f \in [0..Len(amounts) -> Int] : Total(amounts) = f[Len(amounts)]
  BY TotalIs
<1>2. Len(amounts) \in 0..Len(amounts)
  OBVIOUS
<1>3. QED BY <1>1, <1>2

\* What a side has with the gods, prayer by prayer.
LEMMA OwedIs ==
  ASSUME TypeOK, NEW d, NEW c
  PROVE  /\ WithTheGods(d, c) \in Seq(Int)
         /\ Len(WithTheGods(d, c)) = Len(prayer) /\ Len(prayer) \in Nat
         /\ Casts = 1..Len(prayer)
<1>1. Casts = 1..Len(prayer) /\ Len(prayer) \in Nat
  BY DEF TypeOK, Casts
<1>2. \A i \in Casts : Cost[prayer[i].kind] \in Int
  BY PrayerOf
<1>3. WithTheGods(d, c) \in [1..Len(prayer) -> Int]
  BY <1>1, <1>2 DEF WithTheGods
<1>4. QED BY <1>1, <1>3

\* Without a duel there is no energy; with one, what a side has is what it came by
\* and did not give the gods
EnergyInv ==
    /\ PrayInv
    /\ EnergyAccounted
    /\ duel = NoDuel => energy = None /\ gained = None

LEMMA EnergyInit == Init => EnergyInv
  BY PrayInit DEF Init, EnergyInv, EnergyAccounted

\* What happens around the prayers leaves what is with the gods alone.
LEMMA DuelKeepsEnergy ==
  ASSUME EnergyInv,
         \/ StartDuel \/ EndDuel \/ CleanSlate \/ Fortune
         \/ \E c \in Clerics : Earn(c) \/ Lose(c) \/ ChangeWords({c})
         \/ ChangeWords(Clerics)
  PROVE  EnergyAccounted' /\ (duel' = NoDuel => energy' = None /\ gained' = None)
<1>1. UNCHANGED <<prayer, told>>
  BY DEF StartDuel, EndDuel, CleanSlate, Fortune, Earn, Lose, ChangeWords, Gain
<1>2. \A d, c : Paid(d, c) \in Int
  <2> SUFFICES ASSUME NEW d, NEW c PROVE Total(WithTheGods(d, c)) \in Int
    BY DEF Paid
  <2>1. WithTheGods(d, c) \in Seq(Int)
    BY OwedIs DEF EnergyInv, PrayInv
  <2>2. QED BY <2>1, TotalTyped
<1>3. energy \in [Clerics -> Nat] /\ gained \in [Clerics -> Int]
  BY DEF EnergyInv, PrayInv, TypeOK
<1>4. ASSUME NEW new, new \in [Clerics -> Nat], Gain(new)
      PROVE  EnergyAccounted' /\ (duel' = NoDuel => energy' = None /\ gained' = None)
  <2>1. /\ duel # NoDuel /\ duel' = duel /\ energy' = new
        /\ \A c \in Clerics : gained'[c] = gained[c] + new[c] - energy[c]
    BY <1>4 DEF Gain
  <2>2. ASSUME NEW c \in Clerics PROVE energy'[c] = gained'[c] - Paid(duel, c)
    <3>1. energy[c] = gained[c] - Paid(duel, c)
      BY <2>1 DEF EnergyInv, EnergyAccounted
    <3>2. new[c] \in Int /\ energy[c] \in Int /\ gained[c] \in Int /\ Paid(duel, c) \in Int
      BY <1>2, <1>3, <1>4
    <3>3. QED BY <2>1, <3>1, <3>2
  <2>3. \A c \in Clerics : Paid(duel, c)' = Paid(duel, c)
    BY <1>1, <2>1 DEF Paid, WithTheGods, Casts
  <2>4. QED BY <2>1, <2>2, <2>3 DEF EnergyAccounted
<1>5. CASE StartDuel
  <2>1. /\ duel = NoDuel /\ energy = None /\ gained = None /\ energy' = energy
        /\ gained' = gained /\ duel' = duels + 1
    BY <1>5 DEF StartDuel, EnergyInv
  <2>2. ASSUME NEW c \in Clerics PROVE Paid(duel, c)' = 0
    <3>1. WithTheGods(duels + 1, c) \in Seq(Int) /\ Casts = 1..Len(WithTheGods(duels + 1, c))
      BY OwedIs DEF EnergyInv, PrayInv
    <3>2. \A i \in Casts : prayer[i].duel # duels + 1
      <4>1. \A i \in Casts : prayer[i].duel \in 1..duels
        BY PrayerOf DEF EnergyInv, PrayInv
      <4>2. duels \in Nat
        BY DEF EnergyInv, PrayInv, TypeOK
      <4>3. QED BY <4>1, <4>2
    <3>3. \A i \in Casts : WithTheGods(duels + 1, c)[i] = 0
      BY <3>2 DEF WithTheGods
    <3>4. Total(WithTheGods(duels + 1, c)) = 0
      BY <3>1, <3>3, TotalNothing
    <3>5. Paid(duel, c)' = Total(WithTheGods(duels + 1, c))
      BY <1>1, <2>1 DEF Paid, WithTheGods, Casts
    <3>6. QED BY <3>4, <3>5
  <2>3. duel' # NoDuel
    BY <2>1, PrayersAssumption DEF EnergyInv, PrayInv, TypeOK
  <2>4. QED BY <2>1, <2>2, <2>3 DEF EnergyAccounted, None
<1>6. CASE EndDuel
  BY <1>6 DEF EndDuel, EnergyAccounted
<1>7. CASE CleanSlate
  BY <1>4, <1>7 DEF CleanSlate, None
<1>8. CASE Fortune
  <2>1. PICK swap \in [Clerics -> Clerics] : Gain([c \in Clerics |-> energy[swap[c]]])
    BY <1>8 DEF Fortune
  <2>2. [c \in Clerics |-> energy[swap[c]]] \in [Clerics -> Nat]
    BY <1>3
  <2>3. QED BY <1>4, <2>1, <2>2
<1>9. ASSUME NEW c \in Clerics, Earn(c)
       PROVE  EnergyAccounted' /\ (duel' = NoDuel => energy' = None /\ gained' = None)
  <2>1. [energy EXCEPT ![c] = @ + 1] \in [Clerics -> Nat]
    BY <1>3
  <2>2. QED BY <1>4, <1>9, <2>1 DEF Earn
<1>10. ASSUME NEW c \in Clerics, Lose(c)
       PROVE  EnergyAccounted' /\ (duel' = NoDuel => energy' = None /\ gained' = None)
  <2>1. [energy EXCEPT ![c] = @ - 1] \in [Clerics -> Nat]
    BY <1>3, <1>10 DEF Lose
  <2>2. QED BY <1>4, <1>10, <2>1 DEF Lose
<1>11. ASSUME NEW changed, ChangeWords(changed)
       PROVE  EnergyAccounted' /\ (duel' = NoDuel => energy' = None /\ gained' = None)
  <2>1. UNCHANGED <<duel, energy, gained>>
    BY <1>11 DEF ChangeWords
  <2>2. \A c \in Clerics : Paid(duel, c)' = Paid(duel, c)
    BY <1>1, <2>1 DEF Paid, WithTheGods, Casts
  <2>3. QED BY <2>1, <2>2 DEF EnergyInv, EnergyAccounted
<1>12. QED BY <1>5, <1>6, <1>7, <1>8, <1>9, <1>10, <1>11

\* A prayer is paid for, or costs nothing.
LEMMA CastKeepsEnergy ==
  ASSUME EnergyInv, NEW c \in Clerics, NEW kind \in Kinds, Cast(c, kind)
  PROVE  EnergyAccounted' /\ (duel' = NoDuel => energy' = None /\ gained' = None)
<1> DEFINE p == [by |-> c, duel |-> duel, kind |-> kind, word |-> word[c]]
           n == Len(prayer) + 1
           Prayed == [by: Clerics, duel: 1..duels, kind: Kinds, word: Words]
           starts == oracle /\ slots < MaxPrayers
           said == IF starts THEN "pending" ELSE "failed"
           Told == {"pending", "failed", "riddle", "theWord"}
<1>1. /\ prayer' = Append(prayer, p) /\ told' = Append(told, said)
      /\ energy' = IF starts THEN Back(c, -Cost[kind]) ELSE energy
      /\ duel # NoDuel /\ UNCHANGED <<duel, gained>>
  BY DEF Cast, duelVars
<1>2. /\ prayer \in Seq(Prayed) /\ p \in Prayed /\ told \in [DOMAIN prayer -> Told] /\ said \in Told
      /\ Cost[kind] \in Int /\ energy \in [Clerics -> Nat] /\ gained \in [Clerics -> Int]
  BY <1>1, PrayersAssumption DEF EnergyInv, PrayInv, TypeOK, Casts
<1>3. /\ prayer' \in Seq(Prayed) /\ DOMAIN prayer' = DOMAIN prayer \union {n} /\ n \notin DOMAIN prayer
      /\ prayer'[n] = p /\ told'[n] = said
      /\ \A i \in DOMAIN prayer : prayer'[i] = prayer[i] /\ told'[i] = told[i]
  <2> HIDE DEF p, Prayed, said, Told
  <2>1. /\ Append(prayer, p) \in Seq(Prayed)
        /\ DOMAIN Append(prayer, p) = DOMAIN prayer \union {Len(prayer) + 1}
        /\ Len(prayer) + 1 \notin DOMAIN prayer
        /\ Append(prayer, p)[Len(prayer) + 1] = p /\ Append(told, said)[Len(prayer) + 1] = said
        /\ \A i \in DOMAIN prayer : Append(prayer, p)[i] = prayer[i] /\ Append(told, said)[i] = told[i]
    BY <1>2, GrowOf
  <2>2. QED BY <1>1, <2>1
<1> HIDE DEF Prayed, said, Told
<1>4. ASSUME NEW e \in Clerics PROVE energy'[e] = gained'[e] - Paid(duel, e)'
  <2> DEFINE cost == IF e = c /\ starts THEN Cost[kind] ELSE 0
             owed == WithTheGods(duel, e)
  <2>1. owed \in Seq(Int) /\ Len(owed) = Len(prayer) /\ DOMAIN prayer = 1..Len(prayer) /\ Len(prayer) \in Nat
    BY OwedIs DEF EnergyInv, PrayInv, Casts
  <2>2. cost \in Int
    BY <1>2
  <2>3. WithTheGods(duel, e)' = Append(owed, cost)
    <3>1. /\ Append(owed, cost) = [i \in 1..n |-> IF i = n THEN cost ELSE owed[i]]
      BY <2>1, <2>2
    <3>2. Casts' = 1..n
      BY <1>3, <2>1 DEF Casts
    <3>3. WithTheGods(duel, e)' = [i \in 1..n |->
             IF prayer'[i].duel = duel /\ prayer'[i].by = e /\ told'[i] # "failed"
               THEN Cost[prayer'[i].kind] ELSE 0]
      BY <1>1, <3>2 DEF WithTheGods
    <3>4. (IF prayer'[n].duel = duel /\ prayer'[n].by = e /\ told'[n] # "failed"
             THEN Cost[prayer'[n].kind] ELSE 0) = cost
      BY <1>3 DEF said
    <3>5. ASSUME NEW i \in 1..n, i # n
          PROVE  (IF prayer'[i].duel = duel /\ prayer'[i].by = e /\ told'[i] # "failed"
                    THEN Cost[prayer'[i].kind] ELSE 0) = owed[i]
      <4>1. i \in DOMAIN prayer
        BY <2>1, <3>5
      <4>2. QED BY <1>3, <4>1 DEF WithTheGods, Casts
    <3> HIDE DEF cost, owed
    <3>6. QED BY <3>1, <3>3, <3>4, <3>5
  <2>4. Total(Append(owed, cost)) = Total(owed) + cost /\ Total(owed) \in Int
    <3> HIDE DEF cost, owed
    <3>1. QED BY <2>1, <2>2, TotalAppend, TotalTyped
  <2>5. Paid(duel, e)' = Paid(duel, e) + cost /\ Paid(duel, e) \in Int
    <3>1. Paid(duel, e)' = Total(WithTheGods(duel, e)') /\ Paid(duel, e) = Total(owed)
      BY DEF Paid
    <3>2. QED BY <2>3, <2>4, <3>1
  <2>6. energy[e] = gained[e] - Paid(duel, e)
    BY <1>1 DEF EnergyInv, EnergyAccounted
  <2>7. energy'[e] = energy[e] - cost
    BY <1>1, <1>2 DEF Back
  <2>8. energy[e] \in Int /\ gained[e] \in Int /\ gained' = gained
    BY <1>1, <1>2
  <2> HIDE DEF cost
  <2>9. QED BY <2>2, <2>5, <2>6, <2>7, <2>8
<1>5. QED BY <1>1, <1>4 DEF EnergyAccounted

\* A prayer that failed while its duel lasts is paid back to the side that made it.
LEMMA RunKeepsEnergy ==
  ASSUME EnergyInv, Run
  PROVE  EnergyAccounted' /\ (duel' = NoDuel => energy' = None /\ gained' = None)
<1> DEFINE i == cmds[1].prayer
           by == prayer[i].by
           cost == Cost[prayer[i].kind]
<1>1. /\ i \in Casts /\ 1 \in DOMAIN cmds /\ cmds[1].answer \in Texts
      /\ UNCHANGED <<duel, gained, prayer>>
  BY RunSays DEF EnergyInv, duelVars
<1>2. /\ energy \in [Clerics -> Nat] /\ gained \in [Clerics -> Int] /\ told[i] = "pending"
      /\ told \in [Casts -> {"pending", "failed", "riddle", "theWord"}]
      /\ by \in Clerics /\ cost \in Int
  <2>1. energy \in [Clerics -> Nat] /\ gained \in [Clerics -> Int]
        /\ told \in [Casts -> {"pending", "failed", "riddle", "theWord"}]
    BY DEF EnergyInv, PrayInv, TypeOK
  <2>2. told[i] = "pending"
    BY <1>1 DEF EnergyInv, PrayInv, QueuedOnce
  <2>3. by \in Clerics /\ cost \in Int
    <3>1. TypeOK
      BY DEF EnergyInv, PrayInv
    <3> HIDE DEF i
    <3>2. QED BY <1>1, <3>1, PrayerOf
  <2>4. QED BY <2>1, <2>2, <2>3
<1>3. \/ UNCHANGED <<energy, told>>
      \/ /\ duel = prayer[i].duel /\ energy' = Back(by, cost)
         /\ told' = [told EXCEPT ![i] = "failed"]
      \/ /\ cmds[1].answer # "error"
         /\ told' = [told EXCEPT ![i] = cmds[1].answer] /\ UNCHANGED energy
  BY RunSays DEF EnergyInv
<1>4. CASE UNCHANGED <<energy, told>>
  <2>1. \A c \in Clerics : Paid(duel, c)' = Paid(duel, c)
    BY <1>1, <1>4 DEF Paid, WithTheGods, Casts
  <2>2. QED BY <1>1, <1>4, <2>1 DEF EnergyInv, EnergyAccounted
<1>5. CASE /\ cmds[1].answer # "error"
           /\ told' = [told EXCEPT ![i] = cmds[1].answer] /\ UNCHANGED energy
  <2>1. \A j \in Casts : told'[j] = "failed" <=> told[j] = "failed"
    BY <1>1, <1>2, <1>5 DEF Texts
  <2>2. \A c \in Clerics : WithTheGods(duel, c)' = WithTheGods(duel, c)
    BY <1>1, <2>1 DEF WithTheGods, Casts
  <2>3. \A c \in Clerics : Paid(duel, c)' = Paid(duel, c)
    BY <2>2 DEF Paid
  <2>4. QED BY <1>1, <1>5, <2>3 DEF EnergyInv, EnergyAccounted
<1>6. CASE /\ duel = prayer[i].duel /\ energy' = Back(by, cost)
           /\ told' = [told EXCEPT ![i] = "failed"]
  <2>1. /\ told'[i] = "failed" /\ Casts' = Casts
        /\ \A j \in Casts : j # i => told'[j] = told[j]
    BY <1>1, <1>2, <1>6 DEF Casts
  <2>2. ASSUME NEW c \in Clerics, duel # NoDuel PROVE energy'[c] = gained'[c] - Paid(duel, c)'
    <3> DEFINE owed == WithTheGods(duel, c)
               left == WithTheGods(duel, c)'
               back == IF c = by THEN cost ELSE 0
    <3>1. /\ owed \in Seq(Int) /\ Len(owed) = Len(prayer) /\ Len(prayer) \in Nat
          /\ Casts = 1..Len(prayer)
      BY OwedIs DEF EnergyInv, PrayInv
    <3>2. left = [j \in Casts |-> IF prayer[j].duel = duel /\ prayer[j].by = c /\ told'[j] # "failed"
                                    THEN Cost[prayer[j].kind] ELSE 0]
      BY <1>1, <2>1 DEF WithTheGods
    <3>3. left[i] = 0 /\ owed[i] = back
      BY <1>1, <1>2, <1>6, <2>1, <3>2 DEF WithTheGods
    <3>4. \A j \in Casts : j # i => left[j] = owed[j]
      BY <2>1, <3>2 DEF WithTheGods
    <3>5. left \in Seq(Int) /\ Len(left) = Len(owed)
      <4>1. \A j \in Casts : left[j] \in Int
        BY <3>1, <3>3, <3>4
      <4>2. left \in [1..Len(prayer) -> Int]
        BY <3>1, <3>2, <4>1
      <4>3. QED BY <3>1, <4>2
    <3>6. Total(left) = Total(owed) + left[i] - owed[i] /\ Total(owed) \in Int
      <4>1. i \in 1..Len(owed) /\ \A j \in 1..Len(owed) : j # i => left[j] = owed[j]
        BY <1>1, <3>1, <3>4
      <4> HIDE DEF i, owed, left
      <4>2. QED BY <3>1, <3>5, <4>1, TotalChanges, TotalTyped
    <3>7. Paid(duel, c)' = Paid(duel, c) - back /\ Paid(duel, c) \in Int /\ back \in Int
      <4>1. Paid(duel, c)' = Total(left) /\ Paid(duel, c) = Total(owed)
        BY DEF Paid
      <4>2. back \in Int
        BY <1>2
      <4> HIDE DEF left, owed, back
      <4>3. QED BY <3>3, <3>6, <4>1, <4>2
    <3>8. energy[c] = gained[c] - Paid(duel, c)
      BY <2>2 DEF EnergyInv, EnergyAccounted
    <3>9. energy'[c] = energy[c] + back /\ gained'[c] = gained[c]
      BY <1>1, <1>2, <1>6 DEF Back
    <3>10. energy[c] \in Int /\ gained[c] \in Int
      BY <1>2
    <3> HIDE DEF back
    <3>11. QED BY <3>7, <3>8, <3>9, <3>10
  <2>3. duel # NoDuel
    <3>1. TypeOK /\ duels \in Nat
      BY DEF EnergyInv, PrayInv, TypeOK
    <3>2. prayer[i].duel \in 1..duels
      <4> HIDE DEF i
      <4>1. QED BY <1>1, <3>1, PrayerOf
    <3>3. QED BY <1>6, <3>1, <3>2, PrayersAssumption
  <2>4. QED BY <1>1, <2>2, <2>3 DEF EnergyAccounted
<1>7. QED BY <1>3, <1>4, <1>5, <1>6

LEMMA EnergyStep == EnergyInv /\ [Next]_vars => EnergyInv'
<1> SUFFICES ASSUME EnergyInv, [Next]_vars PROVE EnergyInv'
  OBVIOUS
<1>1. PrayInv'
  BY PrayStep DEF EnergyInv
<1> DEFINE Kept == EnergyAccounted' /\ (duel' = NoDuel => energy' = None /\ gained' = None)
<1> SUFFICES Kept
  BY <1>1 DEF EnergyInv
<1>2. ASSUME UNCHANGED <<duel, energy, gained, prayer, told>> PROVE Kept
  <2>1. \A c \in Clerics : Paid(duel, c)' = Paid(duel, c)
    BY <1>2 DEF Paid, WithTheGods, Casts
  <2>2. QED BY <1>2, <2>1 DEF EnergyInv, EnergyAccounted
<1>3. CASE \E i \in Casts : Do(i) \/ Return(i) \/ \E text \in Texts : Ask(i, text)
  BY <1>2, <1>3 DEF Do, Return, Ask, duelVars
<1>4. CASE UNCHANGED vars
  BY <1>2, <1>4 DEF vars, duelVars
<1>5. CASE \/ StartDuel \/ EndDuel \/ CleanSlate \/ Fortune
           \/ \E c \in Clerics : Earn(c) \/ Lose(c) \/ ChangeWords({c})
           \/ ChangeWords(Clerics)
  BY <1>5, DuelKeepsEnergy
<1>6. CASE \E c \in Clerics, kind \in Kinds : Cast(c, kind)
  BY <1>6, CastKeepsEnergy
<1>7. CASE Run
  BY <1>7, RunKeepsEnergy
<1>8. QED BY <1>3, <1>4, <1>5, <1>6, <1>7 DEF Next

\* Whatever else happens in a duel while prayers are with the gods, and however
\* many, nobody's energy is lost or paid back twice: what a side has is what it
\* came by less what is with the gods (cleric.go pray, unanswered).
THEOREM EnergyAlwaysAccounted == Spec => []EnergyAccounted
<1>1. EnergyInv => EnergyAccounted
  BY DEF EnergyInv
<1>2. QED BY <1>1, EnergyInit, EnergyStep, PTL DEF Spec
=============================================================================
