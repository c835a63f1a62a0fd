-------------------------------- MODULE Prayers --------------------------------
(***************************************************************************)
(* Prayers: a Cleric pays energy, a goroutine of its own asks the Oracle   *)
(* and hands the answer back to the world as a command, which finds the    *)
(* duel as it is by then.  Translated from internal/game/cleric.go (pray,  *)
(* unanswered), world.go (Do) and internal/oracle.  What else happens in   *)
(* the duel (module Duel) is what an answer may come too late for: words   *)
(* change, energy comes, goes, is wiped or swapped, the duel ends and the  *)
(* same two players start another.                                         *)
(***************************************************************************)
EXTENDS Integers, Sequences, FiniteSets

CONSTANTS
    Clerics,        \* the two players: both may be Clerics
    Words,
    Cost,           \* what each kind of prayer costs
    MaxPrayers,     \* slots, across the server
    MaxCmds,        \* the capacity of World.cmds
    NoDuel, NoAnswer,
    MaxCasts, MaxDuels, MaxEnergy       \* bounds

Kinds == {"minor", "major"}

ASSUME PrayersAssumption ==
    /\ IsFiniteSet(Clerics)
    /\ Words # {}
    /\ Cost \in [Kinds -> Nat \ {0}]
    /\ MaxPrayers \in Nat \ {0} /\ MaxCmds \in Nat \ {0}
    /\ MaxCasts \in Nat /\ MaxDuels \in Nat /\ MaxEnergy \in Nat
    /\ NoDuel \notin Nat

VARIABLES
    oracle,     \* whether the world has an Oracle
    duel,       \* the duel being played, or NoDuel
    duels,      \* how many there were
    word,       \* each side's word
    energy,     \* each side's energy
    gained,     \* what each side came by and did not lose otherwise (a history)
    prayer,     \* who cast each prayer, in which duel, of which kind, about which word
    told,       \* what the client was last told of each prayer: it is "pending",
                \* it "failed", or the answer
    pc,         \* where each prayer's goroutine is
    asked,      \* how often it has asked the Oracle
    answer,     \* what Pray returned
    slots,      \* prayerSlots in use
    cmds        \* World.cmds: the prayers' commands in it, with their answers

duelVars == <<duel, duels, word, gained>>
goVars == <<pc, asked, answer>>
vars == <<oracle, duelVars, energy, prayer, told, goVars, slots, cmds>>

Casts == DOMAIN prayer

\* startDuel gives both sides one word
SameWord == {[c \in Clerics |-> w] : w \in Words}
None == [c \in Clerics |-> 0]

Init ==
    /\ oracle \in BOOLEAN
    /\ duel = NoDuel /\ duels = 0
    /\ word \in SameWord
    /\ energy = None /\ gained = None
    /\ prayer = <<>> /\ told = <<>>
    /\ pc = <<>> /\ asked = <<>> /\ answer = <<>>
    /\ slots = 0
    /\ cmds = <<>>

-----------------------------------------------------------------------------
(* The duel around the prayers.                                            *)

StartDuel ==
    /\ duel = NoDuel /\ duels < MaxDuels
    /\ duels' = duels + 1 /\ duel' = duels + 1
    /\ word' \in SameWord
    /\ UNCHANGED <<oracle, energy, gained, prayer, told, goVars, slots, cmds>>

\* endDuel: both players are out of it, and their sides are gone
EndDuel ==
    /\ duel # NoDuel
    /\ duel' = NoDuel
    /\ energy' = None /\ gained' = None
    /\ UNCHANGED <<oracle, duels, word, prayer, told, goVars, slots, cmds>>

\* energy that comes or goes other than through prayers
Gain(new) ==
    /\ duel # NoDuel
    /\ energy' = new
    /\ gained' = [c \in Clerics |-> gained[c] + new[c] - energy[c]]
    /\ UNCHANGED <<oracle, duel, duels, word, prayer, told, goVars, slots, cmds>>

\* giveEnergy, and the letters that pay
Earn(c) ==
    /\ duel # NoDuel /\ gained[c] < MaxEnergy
    /\ Gain([energy EXCEPT ![c] = @ + 1])

\* loseEnergy
Lose(c) ==
    /\ duel # NoDuel /\ energy[c] > 0
    /\ Gain([energy EXCEPT ![c] = @ - 1])

CleanSlate == duel # NoDuel /\ Gain(None)

\* Fortune swaps the energy of the two
Fortune ==
    \E swap \in [Clerics -> Clerics] :
        /\ duel # NoDuel
        /\ \A c \in Clerics : swap[c] # c /\ swap[swap[c]] = c
        /\ Gain([c \in Clerics |-> energy[swap[c]]])

\* New Word changes both words, Reshape Reality one
ChangeWords(changed) ==
    /\ duel # NoDuel
    /\ \E w \in Words : word' = [c \in Clerics |-> IF c \in changed THEN w ELSE word[c]]
    /\ UNCHANGED <<oracle, duel, duels, energy, gained, prayer, told, goVars, slots, cmds>>

-----------------------------------------------------------------------------
(* A prayer.                                                               *)

Back(c, cost) == [energy EXCEPT ![c] = @ + cost]

\* a CastAbility and pray that refuse a prayer no slot is free for, but start it
CastAnyway(c, kind) ==
    /\ duel # NoDuel /\ Len(prayer) < MaxCasts
    /\ energy[c] >= Cost[kind]
    /\ prayer' = Append(prayer, [by |-> c, duel |-> duel, kind |-> kind, word |-> word[c]])
    /\ asked' = Append(asked, 0) /\ answer' = Append(answer, NoAnswer)
    /\ told' = Append(told, IF oracle /\ slots < MaxPrayers THEN "pending" ELSE "failed")
    /\ pc' = Append(pc, IF oracle THEN "asking" ELSE "gone")
    /\ energy' = IF told'[Len(told')] = "failed" THEN energy ELSE Back(c, -Cost[kind])
    /\ slots' = IF oracle /\ slots < MaxPrayers THEN slots + 1 ELSE slots
    /\ UNCHANGED <<oracle, duelVars, cmds>>

\* CastAbility and pray: paid for, and given back at once when there is no
\* Oracle or no free slot.  Else a goroutine takes the slot.
Cast(c, kind) ==
    /\ duel # NoDuel /\ Len(prayer) < MaxCasts
    /\ energy[c] >= Cost[kind]
    /\ prayer' = Append(prayer, [by |-> c, duel |-> duel, kind |-> kind, word |-> word[c]])
    /\ asked' = Append(asked, 0) /\ answer' = Append(answer, NoAnswer)
    /\ IF oracle /\ slots < MaxPrayers
         THEN /\ energy' = Back(c, -Cost[kind])
              /\ told' = Append(told, "pending")
              /\ pc' = Append(pc, "asking")
              /\ slots' = slots + 1
         ELSE /\ told' = Append(told, "failed")
              /\ pc' = Append(pc, "gone")
              /\ UNCHANGED <<energy, slots>>
    /\ UNCHANGED <<oracle, duelVars, cmds>>

Leaks(i, text) == prayer[i].kind = "major" /\ text = "theWord"

Returns(i, result) ==
    /\ answer' = [answer EXCEPT ![i] = result]
    /\ asked' = [asked EXCEPT ![i] = 0]
    /\ pc' = [pc EXCEPT ![i] = "sending"]

AsksAgain(i) ==
    /\ asked' = [asked EXCEPT ![i] = 1]
    /\ UNCHANGED <<answer, pc>>

\* a Pray that takes whatever it is given the second time
AskLeaky(i, text) ==
    /\ pc[i] = "asking"
    /\ IF text = "error" \/ asked[i] = 1 \/ ~Leaks(i, text)
         THEN Returns(i, text)
         ELSE AsksAgain(i)
    /\ UNCHANGED <<oracle, duelVars, energy, prayer, told, slots, cmds>>

\* One ask of Pray, by Claude or the Fake: the call fails, is declined or takes
\* too long, or brings a text.  One that leaks is asked for again, once.
Ask(i, text) ==
    /\ pc[i] = "asking"
    /\ IF text = "error" \/ ~Leaks(i, text) THEN Returns(i, text)
       ELSE IF asked[i] = 1 THEN Returns(i, "error")
       ELSE AsksAgain(i)
    /\ UNCHANGED <<oracle, duelVars, energy, prayer, told, slots, cmds>>

\* w.Do, which waits while the queue is full
Do(i) ==
    /\ pc[i] = "sending"
    /\ Len(cmds) < MaxCmds
    /\ cmds' = Append(cmds, [prayer |-> i, answer |-> answer[i]])
    /\ pc' = [pc EXCEPT ![i] = "returning"]
    /\ answer' = [answer EXCEPT ![i] = NoAnswer]
    /\ UNCHANGED <<oracle, duelVars, energy, prayer, told, asked, slots>>

\* a return that frees the slot only while the duel lasts
ReturnInDuel(i) ==
    /\ pc[i] = "returning"
    /\ pc' = [pc EXCEPT ![i] = "gone"]
    /\ slots' = IF duel = prayer[i].duel THEN slots - 1 ELSE slots
    /\ UNCHANGED <<oracle, duelVars, energy, prayer, told, asked, answer, cmds>>

\* the goroutine returns and its defer frees the slot
Return(i) ==
    /\ pc[i] = "returning"
    /\ pc' = [pc EXCEPT ![i] = "gone"]
    /\ slots' = slots - 1
    /\ UNCHANGED <<oracle, duelVars, energy, prayer, told, asked, answer, cmds>>

\* a command that has nothing to say about a word that is gone
AnsweredOrLost(i, ans) ==
    LET p == prayer[i]
    IN IF duel # p.duel \/ (ans # "error" /\ word[p.by] # p.word)
         THEN UNCHANGED <<energy, told>>
       ELSE IF ans = "error"
         THEN /\ energy' = Back(p.by, Cost[p.kind])
              /\ told' = [told EXCEPT ![i] = "failed"]
       ELSE told' = [told EXCEPT ![i] = ans] /\ UNCHANGED energy

\* the command queued by pray
Answered(i, ans) ==
    LET p == prayer[i]
    IN IF duel # p.duel
         THEN UNCHANGED <<energy, told>>
       ELSE IF ans = "error" \/ word[p.by] # p.word
         THEN /\ energy' = Back(p.by, Cost[p.kind])
              /\ told' = [told EXCEPT ![i] = "failed"]
       ELSE told' = [told EXCEPT ![i] = ans] /\ UNCHANGED energy

\* World.Run takes the next command
Run ==
    /\ cmds # <<>>
    /\ cmds' = Tail(cmds)
    /\ Answered(Head(cmds).prayer, Head(cmds).answer)
    /\ UNCHANGED <<oracle, duelVars, prayer, goVars, slots>>

Texts == {"riddle", "theWord", "error"}

Next ==
    \/ StartDuel \/ EndDuel \/ CleanSlate \/ Fortune
    \/ \E c \in Clerics : Earn(c) \/ Lose(c) \/ ChangeWords({c})
    \/ ChangeWords(Clerics)
    \/ \E c \in Clerics, kind \in Kinds : Cast(c, kind)
    \/ \E i \in Casts : Do(i) \/ Return(i) \/ \E text \in Texts : Ask(i, text)
    \/ Run

Spec == Init /\ [][Next]_vars

\* The goroutines and the world go on.  A call to the Oracle ends by itself or
\* with its context (PrayerTimeout); nobody has to play.
Fairness ==
    /\ WF_vars(Run)
    /\ \A i \in 1..MaxCasts :
         WF_vars(i \in Casts /\ (Do(i) \/ Return(i) \/ \E text \in Texts : Ask(i, text)))

FairSpec == Spec /\ Fairness

-----------------------------------------------------------------------------
(* Properties.                                                             *)

TypeOK ==
    /\ oracle \in BOOLEAN
    /\ duels \in 0..MaxDuels /\ duel \in (1..duels) \union {NoDuel}
    /\ word \in [Clerics -> Words]
    /\ energy \in [Clerics -> Nat] /\ gained \in [Clerics -> Int]
    /\ prayer \in Seq([by: Clerics, duel: 1..duels, kind: Kinds, word: Words])
    /\ told \in [Casts -> {"pending", "failed", "riddle", "theWord"}]
    /\ pc \in [Casts -> {"asking", "sending", "returning", "gone"}]
    /\ asked \in [Casts -> 0..1] /\ answer \in [Casts -> Texts \union {NoAnswer}]
    /\ slots \in 0..MaxPrayers
    /\ cmds \in Seq([prayer: Casts, answer: Texts])

\* The sum of a sequence of numbers
Total(amounts) ==
    LET upto[n \in 0..Len(amounts)] == IF n = 0 THEN 0 ELSE upto[n - 1] + amounts[n]
    IN upto[Len(amounts)]

\* What a side has paid the gods and not got back
WithTheGods(d, c) ==
    [i \in Casts |-> IF prayer[i].duel = d /\ prayer[i].by = c /\ told[i] # "failed"
                       THEN Cost[prayer[i].kind] ELSE 0]
Paid(d, c) == Total(WithTheGods(d, c))

\* Energy paid for a prayer comes back at most once, to the side that paid it, in
\* the duel it was paid in; a Clean Slate or a swap in between touches only what
\* is not with the gods (cleric.go pray, unanswered).
EnergyAccounted ==
    \A c \in Clerics : duel # NoDuel => energy[c] = gained[c] - Paid(duel, c)

\* Every slot in use is that of a goroutine that will free it, and there are never
\* more prayers with the Oracle than slots, whichever way each one ends
\* (cleric.go pray).
SlotsHeld ==
    /\ slots = Cardinality({i \in Casts : pc[i] # "gone"})
    /\ slots <= MaxPrayers

\* A cleric is told how a prayer ended once, only in the duel it was made in, and
\* what they hear is about the word they have and does not give it away
\* (cleric.go pray, claude.go Pray).
HeardOnceAndInTime ==
    [][\A i \in Casts : told'[i] # told[i] =>
          /\ told[i] = "pending" /\ duel = prayer[i].duel
          /\ told'[i] # "failed" => /\ word[prayer[i].by] = prayer[i].word
                                    /\ ~Leaks(i, told'[i])]_vars

\* A prayer does not stay with the gods: while its duel lasts the cleric gets an
\* answer or the energy, and its goroutine ends (cleric.go PrayerTimeout).
EveryPrayerSettles ==
    \A i \in 1..MaxCasts :
        (i \in Casts) ~> /\ i \in Casts
                         /\ told[i] # "pending" \/ duel # prayer[i].duel
                         /\ pc[i] = "gone"
=============================================================================
