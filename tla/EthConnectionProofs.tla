------------------------ MODULE EthConnectionProofs ------------------------
(* Theorems about the handle of the ETH32 library, for any number of calling *)
(* threads, of calls and of queries under way: what eth32_open has acquired  *)
(* is released once, and nothing is released while a call uses it.           *)
EXTENDS EthConnection, ListsProofs, FiniteSetTheorems, SequenceTheorems, TLAPS

Stages == {"opening", "unwinding", "failed", "open", "closing", "stopping", "releasing", "closed"}
Places == {"idle", "admitted", "setting", "referenced", "timing", "asking", "queueing", "sending", "sent",
           "waiting", "woken", "late", "leaving"}

(* The references behind a caller's place: one for the call, and a second    *)
(* one while it reads the timeout.                                           *)
Weight(place) == IF place \in {"idle", "admitted", "setting"} THEN 0 ELSE IF place = "asking" THEN 2 ELSE 1
Held(p) == Cardinality({t \in Callers : p[t] \notin {"idle", "admitted", "setting"}})
           + Cardinality({t \in Callers : p[t] = "asking"})

-----------------------------------------------------------------------------
(* The parts of the inductive invariant.                                     *)
Typed ==
  /\ stage \in Stages /\ step \in Nat /\ closing \in BOOLEAN /\ refcount \in Int
  /\ pc \in [Callers -> Places]

FlagFollowsStage == closing <=> stage \in {"closing", "stopping", "releasing", "closed"}

(* What is owned follows from how far opening, unwinding or closing is.      *)
OwnedFollowsStep ==
  /\ stage = "opening" => step \in 1..14 /\ owned = {Acquired[i] : i \in 1..(step - 1)}
  /\ stage = "unwinding" => step \in 1..12 /\ owned = {Labels[i] : i \in step..12}
  /\ stage \in {"open", "closing", "stopping"} => owned = Resources
  /\ stage = "releasing" => step \in 1..14 /\ owned = {Closed[i] : i \in step..14}
  /\ stage \in {"failed", "closed"} => owned = {}

NobodyBefore ==
  stage \in {"opening", "unwinding", "failed"} => refcount = 0 /\ \A t \in Callers : pc[t] = "idle"

(* The count covers the calls as long as eth32_close has not seen it at      *)
(* zero, and from then on there is no call.                                  *)
Counted == IF stage \in {"open", "closing"} THEN Held(pc) <= refcount ELSE Held(pc) = 0

HandleInv == Typed /\ FlagFollowsStage /\ OwnedFollowsStep
ReferenceInv == HandleInv /\ NobodyBefore /\ Counted

-----------------------------------------------------------------------------
(* The orders of acquiring and releasing.                                    *)

LEMMA Lengths == Len(Acquired) = 14 /\ Len(Labels) = 12 /\ Len(Closed) = 14
BY DEF Acquired, Labels, Closed

(* All resources, in the order of eth32_open and in that of eth32_close.     *)
LEMMA AllResources ==
  /\ Resources = {Acquired[i] : i \in 1..14}
  /\ Resources = {Closed[i] : i \in 1..14}
<1>1. Resources = {Acquired[i] : i \in 1..14}
  BY DEF Resources, Range, Acquired
<1>2. \A i \in 1..14 : \E j \in 1..14 : Acquired[i] = Closed[j]
  BY DEF Acquired, Closed
<1>3. \A j \in 1..14 : \E i \in 1..14 : Acquired[i] = Closed[j]
  BY DEF Acquired, Closed
<1> QED
  BY <1>1, <1>2, <1>3

LEMMA NoRepetition ==
  /\ \A i, j \in 1..12 : Labels[i] = Labels[j] => i = j
  /\ \A i, j \in 1..14 : Closed[i] = Closed[j] => i = j
BY DEF Labels, Closed

(* What is left of an order from its k-th entry on.                          *)
LEMMA SuffixRange ==
  /\ \A k \in 1..12 : Range(SubSeq(Labels, k, 12)) = {Labels[i] : i \in k..12}
  /\ \A k \in 1..14 : Range(SubSeq(Closed, k, 14)) = {Closed[i] : i \in k..14}
<1>1. ASSUME NEW s, NEW n \in Nat, NEW k \in 1..n
      PROVE  Range(SubSeq(s, k, n)) = {s[i] : i \in k..n}
  <2> DEFINE S == {s[i] : i \in k..n}
             u == SubSeq(s, k, n)
  <2>1. /\ u \in Seq(S) /\ Len(u) = n - k + 1
        /\ \A i \in 1..(n - k + 1) : u[i] = s[k + i - 1]
    BY SubSeqProperties
  <2>2. Range(u) = {u[i] : i \in 1..(n - k + 1)}
    BY <2>1, RangeEquality
  <2> HIDE DEF u, S
  <2>3. \A i \in k..n : i - k + 1 \in 1..(n - k + 1) /\ s[i] = u[i - k + 1]
    <3> TAKE i \in k..n
    <3>1. i - k + 1 \in 1..(n - k + 1) /\ k + (i - k + 1) - 1 = i
      OBVIOUS
    <3> QED
      BY <2>1, <3>1
  <2>4. \A i \in 1..(n - k + 1) : k + i - 1 \in k..n
    OBVIOUS
  <2>5. \A i \in 1..(n - k + 1) : u[i] \in {s[j] : j \in k..n}
    <3> TAKE i \in 1..(n - k + 1)
    <3>1. u[i] = s[k + i - 1] /\ k + i - 1 \in k..n
      BY <2>1, <2>4
    <3> QED
      BY <3>1
  <2>6. \A i \in k..n : s[i] \in {u[j] : j \in 1..(n - k + 1)}
    BY <2>3
  <2> QED
    BY <2>2, <2>5, <2>6 DEF u
<1> QED
  BY <1>1

(* One more resource is acquired, and one more released.                     *)
LEMMA AcquireOne ==
  ASSUME NEW k \in 1..14
  PROVE  {Acquired[i] : i \in 1..(k - 1)} \cup {Acquired[k]} = {Acquired[i] : i \in 1..k}
OBVIOUS

LEMMA ReleaseOne ==
  /\ \A k \in 1..12 : {Labels[i] : i \in k..12} \ {Labels[k]} = {Labels[i] : i \in (k + 1)..12}
  /\ \A k \in 1..14 : {Closed[i] : i \in k..14} \ {Closed[k]} = {Closed[i] : i \in (k + 1)..14}
<1>1. ASSUME NEW k \in 1..12
      PROVE  {Labels[i] : i \in k..12} \ {Labels[k]} = {Labels[i] : i \in (k + 1)..12}
  BY NoRepetition
<1>2. ASSUME NEW k \in 1..14
      PROVE  {Closed[i] : i \in k..14} \ {Closed[k]} = {Closed[i] : i \in (k + 1)..14}
  BY NoRepetition
<1> QED
  BY <1>1, <1>2

(* The label a failure jumps to is the right one for each resource.          *)
LEMMA RightLabel ==
  ASSUME NEW k \in 1..13
  PROVE  /\ ErrorLabel(Acquired[k]) \in 1..13
         /\ {Acquired[i] : i \in 1..(k - 1)} = {Labels[i] : i \in ErrorLabel(Acquired[k])..12}
<1>1. ErrorLabel(Acquired[k]) = 14 - k
  BY DEF ErrorLabel, Acquired
<1> QED
  BY <1>1 DEF Acquired, Labels

-----------------------------------------------------------------------------
(* What callers, the reading thread and the network do to the handle         *)

(* The step of a caller changes its place and the count by the same weight;  *)
(* once closing is set the count stays and the weight does not grow.         *)
Move(t, l) ==
  /\ pc' = [pc EXCEPT ![t] = l]
  /\ UNCHANGED handle
  /\ refcount' = IF closing THEN refcount ELSE refcount + Weight(l) - Weight(pc[t])
  /\ closing => Weight(l) <= Weight(pc[t])
  /\ pc[t] = "idle" => stage \in {"open", "closing", "stopping"}

LEMMA CallerMoves ==
  ASSUME Typed, NEW t \in Callers, Caller(t)
  PROVE  \E l \in Places : Move(t, l)
<1> DEFINE Goes(from, to) == pc[t] = from /\ pc' = [pc EXCEPT ![t] = to] /\ UNCHANGED handle
<1>1. ASSUME NEW from \in Places \ {"idle"}, NEW to \in Places, Goes(from, to), refcount' = refcount,
             Weight(to) = Weight(from)
      PROVE  Move(t, to)
  BY <1>1 DEF Move, Typed, Weight
<1>2. CASE Begin(t)
  <2>1. PICK l \in {"idle", "admitted", "setting"} : pc' = [pc EXCEPT ![t] = l]
    BY <1>2 DEF Begin
  <2> QED
    <3>1. /\ pc[t] = "idle" /\ UNCHANGED handle /\ refcount' = refcount
          /\ stage \in {"open", "closing", "stopping"}
      BY <1>2 DEF Begin
    <3>2. Weight(l) = 0 /\ Weight(pc[t]) = 0 /\ refcount \in Int
      BY <3>1 DEF Weight, Typed
    <3>3. Move(t, l)
      BY <2>1, <3>1, <3>2 DEF Move
    <3> QED
      BY <3>3 DEF Places
<1>3. CASE Reference(t)
  <2>1. CASE closing
    BY <1>3, <2>1 DEF Reference, Refcount, Move, Weight, Places, Typed
  <2>2. CASE ~closing
    <3>1. /\ pc[t] \in {"admitted", "setting"} /\ UNCHANGED handle /\ refcount' = refcount + 1
          /\ pc' = [pc EXCEPT ![t] = IF pc[t] = "setting" THEN "timing" ELSE "referenced"]
      BY <1>3, <2>2 DEF Reference, Refcount
    <3>2. PICK l \in {"timing", "referenced"} : pc' = [pc EXCEPT ![t] = l]
      BY <3>1
    <3>3. Weight(l) = 1 /\ Weight(pc[t]) = 0 /\ refcount \in Int
      BY <3>1 DEF Weight, Typed
    <3>4. refcount' = refcount + Weight(l) - Weight(pc[t]) /\ pc[t] # "idle"
      BY <3>1, <3>3
    <3>5. Move(t, l)
      BY <2>2, <3>1, <3>2, <3>4, Zenon DEF Move
    <3> QED
      BY <3>5 DEF Places
  <2> QED
    BY <2>1, <2>2
<1>4. CASE SetTimeout(t)
  <2>1. Goes("timing", "leaving") /\ refcount' = refcount
    BY <1>4 DEF SetTimeout
  <2> QED
    BY <1>1, <2>1 DEF Places, Weight
<1>5. CASE AskTimeout(t)
  <2>1. CASE closing
    BY <1>5, <2>1 DEF AskTimeout, Refcount, Move, Weight, Places, Typed
  <2>2. CASE ~closing
    BY <1>5, <2>2 DEF AskTimeout, Refcount, Move, Weight, Places, Typed
  <2> QED
    BY <2>1, <2>2
<1>6. CASE GetTimeout(t)
  BY <1>6 DEF GetTimeout, Refcount, Move, Weight, Places, Typed
<1>7. CASE TakeSequence(t)
  <2>1. Goes("queueing", "sending") /\ refcount' = refcount
    BY <1>7 DEF TakeSequence
  <2> QED
    BY <1>1, <2>1 DEF Places, Weight
<1>8. CASE NoSequence(t)
  <2>1. Goes("queueing", "leaving") /\ refcount' = refcount
    BY <1>8, Zenon DEF NoSequence, Fail
  <2> QED
    BY <1>1, <2>1 DEF Places, Weight
<1>9. CASE Send(t)
  <2>1. Goes("sending", "sent") /\ refcount' = refcount
    BY <1>9 DEF Send
  <2> QED
    BY <1>1, <2>1 DEF Places, Weight
<1>10. CASE SendFails(t)
  <2>1. Goes("sending", "leaving") /\ refcount' = refcount
    BY <1>10, Zenon DEF SendFails, Fail
  <2> QED
    BY <1>1, <2>1 DEF Places, Weight
<1>11. CASE AppendNode(t)
  <2>1. Goes("sent", "waiting") /\ refcount' = refcount
    BY <1>11 DEF AppendNode
  <2> QED
    BY <1>1, <2>1 DEF Places, Weight
<1>12. CASE TimeOut(t)
  <2>1. Goes("waiting", "late") /\ refcount' = refcount
    BY <1>12 DEF TimeOut
  <2> QED
    BY <1>1, <2>1 DEF Places, Weight
<1>13. CASE Recheck(t)
  <2>1. /\ pc[t] \in {"woken", "late"}
        /\ pc' = [pc EXCEPT ![t] = "leaving"] \/ pc' = [pc EXCEPT ![t] = "waiting"]
        /\ UNCHANGED handle /\ refcount' = refcount
    BY <1>13, Zenon DEF Recheck, Fail
  <2> QED
    BY <1>1, <2>1 DEF Places, Weight
<1>14. CASE Leave(t)
  BY <1>14 DEF Leave, Refcount, Move, Weight, Places, Typed
<1> QED
  BY <1>2, <1>3, <1>4, <1>5, <1>6, <1>7, <1>8, <1>9, <1>10, <1>11, <1>12, <1>13, <1>14 DEF Caller

(* The reading thread, the device and the network only wake callers.         *)
LEMMA OthersWake ==
  ASSUME Reader \/ Answer \/ Disconnect
  PROVE  pc' \in {pc, Broadcast(pc)} /\ refcount' = refcount /\ UNCHANGED handle
<1>1. CASE Receive
  <2>1. UNCHANGED <<handle, refcount>> /\ ProcessIncoming(Head(fromDevice))
    BY <1>1 DEF Receive
  <2>2. pc' = pc \/ pc' = Broadcast(pc)
    BY <2>1, Zenon DEF ProcessIncoming
  <2> QED
    BY <2>1, <2>2
<1>2. CASE ReaderEnds \/ ReaderDone \/ ReaderWakes
  BY <1>2 DEF ReaderEnds, ReaderDone, ReaderWakes, callers
<1>3. CASE Answer \/ Disconnect
  BY <1>3 DEF Answer, Disconnect, callers
<1> QED
  BY <1>1, <1>2, <1>3 DEF Reader

LEMMA OthersKeepHandle ==
  ASSUME Typed, Reader \/ Answer \/ Disconnect \/ \E t \in Callers : Caller(t)
  PROVE  UNCHANGED handle /\ Typed'
<1>1. CASE Reader \/ Answer \/ Disconnect
  BY <1>1, OthersWake DEF Typed, handle, Places, Broadcast
<1>2. ASSUME NEW t \in Callers, Caller(t)
      PROVE  UNCHANGED handle /\ Typed'
  <2>1. PICK l \in Places : Move(t, l)
    BY <1>2, CallerMoves
  <2>2. pc' \in [Callers -> Places] /\ refcount' \in Int
    BY <2>1 DEF Typed, Move, Weight
  <2> QED
    BY <2>1, <2>2 DEF Typed, Move, handle
<1> QED
  BY <1>1, <1>2

-----------------------------------------------------------------------------
(* Ownership                                                                 *)

LEMMA HandleStart == Init => HandleInv
<1> SUFFICES ASSUME Init PROVE HandleInv
  OBVIOUS
<1>1. Typed
  <2>1. pc = [t \in Callers |-> "idle"] /\ stage = "opening" /\ step = 1 /\ closing = FALSE /\ refcount = 0
    BY DEF Init
  <2>2. pc \in [Callers -> Places]
    BY <2>1 DEF Places
  <2>3. closing \in BOOLEAN
    BY <2>1, Zenon
  <2>4. stage \in Stages /\ step \in Nat /\ refcount \in Int
    BY <2>1 DEF Stages
  <2> QED
    BY <2>2, <2>3, <2>4 DEF Typed
<1>2. FlagFollowsStage
  BY DEF Init, FlagFollowsStage
<1>3. OwnedFollowsStep
  BY DEF Init, OwnedFollowsStep
<1> QED
  BY <1>1, <1>2, <1>3 DEF HandleInv

LEMMA HandleStep == HandleInv /\ [Next]_vars => HandleInv'
<1> SUFFICES ASSUME HandleInv, [Next]_vars PROVE HandleInv'
  OBVIOUS
<1> USE Lengths DEF HandleInv
<1>1. CASE Acquire
  <2>1. step \in 1..14 /\ owned' = {Acquired[i] : i \in 1..step}
    BY <1>1, AcquireOne DEF Acquire, OwnedFollowsStep
  <2>2. step' = step + 1 /\ stage' = IF step = 14 THEN "open" ELSE "opening"
    BY <1>1 DEF Acquire
  <2>3. OwnedFollowsStep'
    BY <2>1, <2>2, AllResources DEF OwnedFollowsStep, Typed
  <2> QED
    BY <1>1, <2>1, <2>2, <2>3 DEF Acquire, Typed, callers, FlagFollowsStage, Stages
<1>2. CASE AcquireFails
  <2>1. step \in 1..13
    BY <1>2 DEF AcquireFails, OwnedFollowsStep, Acquired
  <2>2. /\ step' \in 1..13
        /\ owned' = {Labels[i] : i \in step'..12}
        /\ stage' = IF step' > 12 THEN "failed" ELSE "unwinding"
    BY <1>2, <2>1, RightLabel DEF AcquireFails, OwnedFollowsStep
  <2>3. OwnedFollowsStep'
    BY <2>2 DEF OwnedFollowsStep
  <2> QED
    BY <1>2, <2>2, <2>3 DEF AcquireFails, Typed, callers, FlagFollowsStage, Stages
<1>3. CASE Unwind
  <2>1. step \in 1..12 /\ owned' = {Labels[i] : i \in step'..12}
    BY <1>3, ReleaseOne DEF Unwind, OwnedFollowsStep
  <2>2. step' = step + 1 /\ stage' = IF step = 12 THEN "failed" ELSE "unwinding"
    BY <1>3 DEF Unwind
  <2>3. OwnedFollowsStep'
    BY <2>1, <2>2 DEF OwnedFollowsStep
  <2> QED
    BY <1>3, <2>1, <2>2, <2>3 DEF Unwind, Typed, callers, FlagFollowsStage, Stages
<1>4. CASE Close \/ StopReader
  BY <1>4 DEF Close, StopReader, Typed, callers, FlagFollowsStage, OwnedFollowsStep, Stages
<1>5. CASE JoinReader
  BY <1>5, AllResources DEF JoinReader, Typed, callers, FlagFollowsStage, OwnedFollowsStep, Stages
<1>6. CASE Release
  <2>1. step \in 1..14 /\ owned' = {Closed[i] : i \in step'..14}
    BY <1>6, ReleaseOne DEF Release, OwnedFollowsStep
  <2>2. step' = step + 1 /\ stage' = IF step = 14 THEN "closed" ELSE "releasing"
    BY <1>6 DEF Release
  <2>3. OwnedFollowsStep'
    BY <2>1, <2>2 DEF OwnedFollowsStep
  <2> QED
    BY <1>6, <2>1, <2>2, <2>3 DEF Release, Typed, callers, FlagFollowsStage, Stages
<1>7. CASE Reader \/ Answer \/ Disconnect \/ \E t \in Callers : Caller(t)
  BY <1>7, OthersKeepHandle DEF handle, FlagFollowsStage, OwnedFollowsStep
<1>8. CASE UNCHANGED vars
  BY <1>8 DEF vars, handle, callers, Typed, FlagFollowsStage, OwnedFollowsStep
<1> QED
  BY <1>1, <1>2, <1>3, <1>4, <1>5, <1>6, <1>7, <1>8 DEF Next, Owner

LEMMA HandleImpliesReleased == HandleInv => ReleasedOnce
<1> SUFFICES ASSUME HandleInv PROVE ReleasedOnce
  OBVIOUS
<1>1. CASE stage = "unwinding"
  BY <1>1, Lengths, SuffixRange DEF HandleInv, OwnedFollowsStep, ReleasedOnce, ToRelease
<1>2. CASE stage = "releasing"
  BY <1>2, Lengths, SuffixRange DEF HandleInv, OwnedFollowsStep, ReleasedOnce, ToRelease
<1>3. CASE stage \notin {"unwinding", "releasing"}
  BY <1>3 DEF HandleInv, OwnedFollowsStep, ReleasedOnce
<1> QED
  BY <1>1, <1>2, <1>3

(* eth32_open's error path and eth32_close release what is there and nothing *)
(* else (eth32.c:154-315, eth32_internal.c:1081-1109): the invariant         *)
(* ReleasedOnce holds, whichever of the acquisitions fails and whatever the  *)
(* calls and the network do.                                                 *)
THEOREM EverythingReleasedOnce == Spec => []ReleasedOnce
<1>1. Spec => []HandleInv
  BY HandleStart, HandleStep, PTL DEF Spec
<1> QED
  BY <1>1, HandleImpliesReleased, PTL

-----------------------------------------------------------------------------
(* References                                                                *)

LEMMA CallersFinite ==
  ASSUME NEW S \in SUBSET Callers
  PROVE  IsFiniteSet(S) /\ Cardinality(S) \in Nat
BY ConnectionAssumption, FS_Subset, FS_CardinalityType

(* The weight of all callers changes by the weight of the one that moves.    *)
LEMMA HeldMoves ==
  ASSUME NEW p \in [Callers -> Places], NEW t \in Callers, NEW l \in Places
  PROVE  /\ Held(p) \in Nat
         /\ Held([p EXCEPT ![t] = l]) = Held(p) + Weight(l) - Weight(p[t])
<1> DEFINE In(q) == {x \in Callers : q[x] \notin {"idle", "admitted", "setting"}}
           Ask(q) == {x \in Callers : q[x] = "asking"}
           q == [p EXCEPT ![t] = l]
<1>1. /\ IsFiniteSet(In(p)) /\ Cardinality(In(p)) \in Nat
      /\ IsFiniteSet(Ask(p)) /\ Cardinality(Ask(p)) \in Nat
  BY CallersFinite
<1>2. In(q) = IF l \in {"idle", "admitted", "setting"} THEN In(p) \ {t} ELSE In(p) \cup {t}
  OBVIOUS
<1>3. Ask(q) = IF l = "asking" THEN Ask(p) \cup {t} ELSE Ask(p) \ {t}
  OBVIOUS
<1>4. Cardinality(In(q)) = Cardinality(In(p))
                           + (IF l \in {"idle", "admitted", "setting"} THEN 0 ELSE 1)
                           - (IF p[t] \in {"idle", "admitted", "setting"} THEN 0 ELSE 1)
  <2>1. t \in In(p) <=> p[t] \notin {"idle", "admitted", "setting"}
    OBVIOUS
  <2> HIDE DEF In, q
  <2>2. Cardinality(In(p) \cup {t}) = IF t \in In(p) THEN Cardinality(In(p)) ELSE Cardinality(In(p)) + 1
    BY <1>1, FS_AddElement
  <2>3. Cardinality(In(p) \ {t}) = IF t \in In(p) THEN Cardinality(In(p)) - 1 ELSE Cardinality(In(p))
    BY <1>1, FS_RemoveElement
  <2> QED
    BY <1>1, <1>2, <2>1, <2>2, <2>3
<1>5. Cardinality(Ask(q)) = Cardinality(Ask(p))
                            + (IF l = "asking" THEN 1 ELSE 0) - (IF p[t] = "asking" THEN 1 ELSE 0)
  <2>1. t \in Ask(p) <=> p[t] = "asking"
    OBVIOUS
  <2> HIDE DEF Ask, q
  <2>2. Cardinality(Ask(p) \cup {t}) = IF t \in Ask(p) THEN Cardinality(Ask(p)) ELSE Cardinality(Ask(p)) + 1
    BY <1>1, FS_AddElement
  <2>3. Cardinality(Ask(p) \ {t}) = IF t \in Ask(p) THEN Cardinality(Ask(p)) - 1 ELSE Cardinality(Ask(p))
    BY <1>1, FS_RemoveElement
  <2> QED
    BY <1>1, <1>3, <2>1, <2>2, <2>3
<1>6. Held(p) = Cardinality(In(p)) + Cardinality(Ask(p)) /\ Held(q) = Cardinality(In(q)) + Cardinality(Ask(q))
  BY DEF Held
<1> HIDE DEF In, Ask, q
<1>7. Held(p) \in Nat
  BY <1>1, <1>6
<1>8. Held(q) = Held(p) + Weight(l) - Weight(p[t])
  BY <1>1, <1>4, <1>5, <1>6 DEF Weight
<1> QED
  BY <1>7, <1>8 DEF q

LEMMA HeldWoken ==
  ASSUME NEW p \in [Callers -> Places]
  PROVE  Held(Broadcast(p)) = Held(p)
<1>1. /\ {t \in Callers : Broadcast(p)[t] \notin {"idle", "admitted", "setting"}}
           = {t \in Callers : p[t] \notin {"idle", "admitted", "setting"}}
      /\ {t \in Callers : Broadcast(p)[t] = "asking"} = {t \in Callers : p[t] = "asking"}
  BY DEF Broadcast
<1> QED
  BY <1>1 DEF Held

LEMMA NothingHeld ==
  ASSUME NEW p \in [Callers -> Places]
  PROVE  /\ Held(p) \in Nat
         /\ Held(p) = 0 <=> \A t \in Callers : p[t] \in {"idle", "admitted", "setting"}
<1> DEFINE In == {t \in Callers : p[t] \notin {"idle", "admitted", "setting"}}
           Ask == {t \in Callers : p[t] = "asking"}
<1>1. /\ Held(p) = Cardinality(In) + Cardinality(Ask)
      /\ IsFiniteSet(In) /\ Cardinality(In) \in Nat /\ IsFiniteSet(Ask) /\ Cardinality(Ask) \in Nat
  BY CallersFinite DEF Held
<1>2. Cardinality(In) = 0 <=> In = {}
  BY <1>1, FS_EmptySet
<1>3. Cardinality(Ask) = 0 <=> Ask = {}
  BY <1>1, FS_EmptySet
<1>4. In = {} => Ask = {}
  OBVIOUS
<1>5. In = {} <=> \A t \in Callers : p[t] \in {"idle", "admitted", "setting"}
  OBVIOUS
<1> HIDE DEF In, Ask
<1>6. Held(p) = 0 <=> In = {}
  BY <1>1, <1>2, <1>3, <1>4
<1> QED
  BY <1>1, <1>5, <1>6

LEMMA ReferenceStart == Init => ReferenceInv
<1> SUFFICES ASSUME Init PROVE ReferenceInv
  OBVIOUS
<1>1. NobodyBefore /\ pc \in [Callers -> Places] /\ stage = "opening"
  BY DEF Init, NobodyBefore, Places
<1>2. Counted
  BY <1>1, NothingHeld DEF Counted, NobodyBefore
<1> QED
  BY <1>1, <1>2, HandleStart DEF ReferenceInv

LEMMA ReferenceStep == ReferenceInv /\ [Next]_vars => ReferenceInv'
<1> SUFFICES ASSUME ReferenceInv, [Next]_vars PROVE NobodyBefore' /\ Counted'
  BY HandleStep DEF ReferenceInv
<1> USE DEF ReferenceInv, HandleInv
<1>0. Held(pc) \in Nat /\ pc \in [Callers -> Places] /\ refcount \in Int
  BY NothingHeld DEF Typed
<1>1. CASE Owner
  <2>1. pc' = pc /\ refcount' = refcount
    BY <1>1 DEF Owner, Acquire, AcquireFails, Unwind, Close, StopReader, JoinReader, Release, callers
  <2>2. CASE Acquire \/ AcquireFails \/ Unwind
    <3>1. stage \in {"opening", "unwinding"} /\ stage' \in {"opening", "open", "unwinding", "failed"}
      BY <2>2 DEF Acquire, AcquireFails, Unwind
    <3>2. refcount = 0 /\ \A t \in Callers : pc[t] = "idle"
      BY <3>1 DEF NobodyBefore
    <3>3. Held(pc) = 0
      BY <1>0, <3>2, NothingHeld
    <3> QED
      BY <2>1, <3>2, <3>3 DEF NobodyBefore, Counted
  <2>3. CASE StopReader
    BY <1>0, <2>1, <2>3 DEF StopReader, NobodyBefore, Counted
  <2>4. CASE Close \/ JoinReader \/ Release
    BY <2>1, <2>4 DEF Close, JoinReader, Release, NobodyBefore, Counted
  <2> QED
    BY <1>1, <2>2, <2>3, <2>4 DEF Owner
<1>2. CASE Reader \/ Answer \/ Disconnect
  <2>1. pc' \in {pc, Broadcast(pc)} /\ refcount' = refcount /\ stage' = stage
    BY <1>2, OthersWake DEF handle
  <2>2. Held(pc') = Held(pc)
    BY <1>0, <2>1, HeldWoken
  <2>3. (\A t \in Callers : pc[t] = "idle") => \A t \in Callers : pc'[t] = "idle"
    BY <2>1 DEF Broadcast
  <2> QED
    BY <2>1, <2>2, <2>3 DEF NobodyBefore, Counted
<1>3. ASSUME NEW t \in Callers, Caller(t)
      PROVE  NobodyBefore' /\ Counted'
  <2>1. PICK l \in Places : Move(t, l)
    BY <1>3, CallerMoves
  <2>2. stage \in {"open", "closing", "stopping", "releasing", "closed"} /\ stage' = stage
    BY <2>1 DEF Move, handle, NobodyBefore, Typed, Stages
  <2>3. /\ Held(pc') \in Nat
        /\ Held(pc') = Held(pc) + Weight(l) - Weight(pc[t])
        /\ Weight(l) \in Nat /\ Weight(pc[t]) \in Nat
    <3>1. pc' = [pc EXCEPT ![t] = l] /\ pc' \in [Callers -> Places]
      BY <1>0, <2>1 DEF Move
    <3>2. Held(pc') \in Nat /\ Held([pc EXCEPT ![t] = l]) = Held(pc) + Weight(l) - Weight(pc[t])
      BY <1>0, <3>1, HeldMoves, NothingHeld
    <3> QED
      BY <3>1, <3>2 DEF Weight
  <2>4. /\ refcount' = IF closing THEN refcount ELSE refcount + Weight(l) - Weight(pc[t])
        /\ closing => Weight(l) <= Weight(pc[t])
    BY <2>1 DEF Move
  <2>5. stage # "open" => closing
    BY <2>2 DEF FlagFollowsStage
  <2> QED
    BY <1>0, <2>2, <2>3, <2>4, <2>5 DEF NobodyBefore, Counted
<1>4. CASE UNCHANGED vars
  BY <1>4 DEF vars, handle, callers, NobodyBefore, Counted
<1> QED
  BY <1>1, <1>2, <1>3, <1>4 DEF Next

(* A call that holds a reference finds the handle whole                      *)
(* (eth32_internal.c:217-282, 1000-1109): the invariant ReferenceKeepsHandle *)
(* holds for any number of threads, although a close sets its flag without   *)
(* looking and freezes the count it then waits for.                          *)
THEOREM HandleOutlivesCalls == Spec => []ReferenceKeepsHandle
<1>1. Spec => []ReferenceInv
  BY ReferenceStart, ReferenceStep, PTL DEF Spec
<1>2. ReferenceInv => ReferenceKeepsHandle
  <2> SUFFICES ASSUME ReferenceInv, Inside # {} PROVE owned = Resources
    BY DEF ReferenceKeepsHandle
  <2>1. Held(pc) # 0
    BY NothingHeld DEF ReferenceInv, HandleInv, Typed, Inside
  <2>2. stage \in {"open", "closing"}
    BY <2>1 DEF ReferenceInv, Counted
  <2> QED
    BY <2>2 DEF ReferenceInv, HandleInv, OwnedFollowsStep
<1> QED
  BY <1>1, <1>2, PTL

-----------------------------------------------------------------------------
(* The parts of the inductive invariant about the list of nodes.             *)
InList == {"waiting", "woken", "late"}
Requests == {<<>>} \cup (Callers \X Nat)
Nodes == [caller : Callers, sequence : Nat, received : BOOLEAN, abandoned : BOOLEAN, reply : Requests]
Queries == [sequence : Nat, asks : Requests]
Results == [error : {"none", "ETH_TIMEOUT", "ETH_NETWORK_ERROR", "ETH_CLOSING"}, reply : Requests]

ListTyped ==
  /\ queries_replies \in Seq(Nodes)
  /\ fromDevice \in Seq(Queries) /\ toDevice \in Seq(Queries)
  /\ query \in [Callers -> Queries] /\ calls \in [Callers -> Nat] /\ sequence \in Nat
  /\ sequence_mutex \in Callers \cup {"free"}
  /\ result \in [Callers -> Results]

(* A caller that waits has one node that it has not given up, and every such *)
(* node has a caller that waits.                                             *)
OneOpenNode ==
  /\ \A i \in DOMAIN queries_replies :
       ~queries_replies[i].abandoned => pc[queries_replies[i].caller] \in InList
  /\ \A i, j \in DOMAIN queries_replies :
       ~queries_replies[i].abandoned /\ ~queries_replies[j].abandoned
       /\ queries_replies[i].caller = queries_replies[j].caller => i = j
  /\ \A t \in Callers : pc[t] \in InList =>
       \E i \in DOMAIN queries_replies : queries_replies[i].caller = t /\ ~queries_replies[i].abandoned

ListInv == HandleInv /\ ListTyped /\ OneOpenNode /\ NoStrandedReply

-----------------------------------------------------------------------------
(* What the operators on the list of nodes return.                           *)

LEMMA NodesTyped ==
  ASSUME ListTyped
  PROVE  /\ queries_replies \in Seq(Nodes)
         /\ \A i \in DOMAIN queries_replies :
              /\ queries_replies[i] \in Nodes /\ queries_replies[i].caller \in Callers
              /\ queries_replies[i].sequence \in Nat /\ queries_replies[i].reply \in Requests
<1>1. \A i \in DOMAIN queries_replies : queries_replies[i] \in Nodes
  BY ElementOfSeq, LenProperties DEF ListTyped
<1>2. \A n \in Nodes : n.caller \in Callers /\ n.sequence \in Nat /\ n.reply \in Requests
  BY DEF Nodes
<1> QED
  BY <1>1, <1>2 DEF ListTyped

(* A node given up, and a node answered, differ in what was set.             *)
LEMMA SetNode ==
  ASSUME NEW q \in Seq(Nodes), NEW i \in DOMAIN q, NEW n \in Nodes
  PROVE  /\ [q EXCEPT ![i] = n] \in Seq(Nodes)
         /\ DOMAIN [q EXCEPT ![i] = n] = DOMAIN q
         /\ [q EXCEPT ![i] = n][i] = n
         /\ \A k \in DOMAIN q : k # i => [q EXCEPT ![i] = n][k] = q[k]
BY ElementOfSeq, LenProperties

GivenUp(q, i) == [q EXCEPT ![i].abandoned = TRUE]
LEMMA GivenUpFacts ==
  ASSUME NEW q \in Seq(Nodes), NEW i \in DOMAIN q, NEW r, r = GivenUp(q, i)
  PROVE  /\ r \in Seq(Nodes) /\ DOMAIN r = DOMAIN q
         /\ \A k \in DOMAIN q : k # i => r[k] = q[k]
         /\ r[i].abandoned
         /\ \A k \in DOMAIN q : /\ r[k].caller = q[k].caller /\ r[k].sequence = q[k].sequence
                                /\ r[k].received = q[k].received /\ r[k].reply = q[k].reply
<1> DEFINE n == [q[i] EXCEPT !.abandoned = TRUE]
<1>1. q[i] \in Nodes
  BY ElementOfSeq, LenProperties
<1>2. /\ n \in Nodes /\ n.abandoned
      /\ n.caller = q[i].caller /\ n.sequence = q[i].sequence /\ n.received = q[i].received /\ n.reply = q[i].reply
  <2> DEFINE m == q[i]
  <2>1. m \in Nodes
    BY <1>1
  <2> HIDE DEF m
  <2>2. LET o == [m EXCEPT !.abandoned = TRUE] IN
        /\ o \in Nodes /\ o.abandoned
        /\ o.caller = m.caller /\ o.sequence = m.sequence /\ o.received = m.received /\ o.reply = m.reply
    BY <2>1 DEF Nodes
  <2> QED
    BY <2>2 DEF m
<1>3. r = [q EXCEPT ![i] = n]
  BY DEF GivenUp
<1> HIDE DEF n
<1>4. /\ r \in Seq(Nodes) /\ DOMAIN r = DOMAIN q /\ r[i] = n
      /\ \A k \in DOMAIN q : k # i => r[k] = q[k]
  BY <1>2, <1>3, SetNode
<1> QED
  BY <1>2, <1>4

LEMMA ReceivedFacts ==
  ASSUME queries_replies \in Seq(Nodes), NEW i \in DOMAIN queries_replies, NEW reply \in Queries,
         NEW r, r = Received(i, reply)
  PROVE  /\ r \in Seq(Nodes) /\ DOMAIN r = DOMAIN queries_replies
         /\ \A k \in DOMAIN r : k # i => r[k] = queries_replies[k]
         /\ r[i].received /\ r[i].reply = reply.asks
         /\ \A k \in DOMAIN r : /\ r[k].caller = queries_replies[k].caller
                                /\ r[k].sequence = queries_replies[k].sequence
                                /\ r[k].abandoned = queries_replies[k].abandoned
<1> DEFINE n == [queries_replies[i] EXCEPT !.received = TRUE, !.reply = reply.asks]
<1>1. queries_replies[i] \in Nodes /\ reply.asks \in Requests
  BY ElementOfSeq, LenProperties DEF Queries
<1>2. /\ n \in Nodes /\ n.received /\ n.reply = reply.asks
      /\ n.caller = queries_replies[i].caller /\ n.sequence = queries_replies[i].sequence
      /\ n.abandoned = queries_replies[i].abandoned
  <2> DEFINE m == queries_replies[i]
             a == reply.asks
  <2>1. m \in Nodes /\ a \in Requests
    BY <1>1
  <2> HIDE DEF m, a
  <2>2. LET o == [m EXCEPT !.received = TRUE, !.reply = a] IN
        /\ o \in Nodes /\ o.received /\ o.reply = a
        /\ o.caller = m.caller /\ o.sequence = m.sequence /\ o.abandoned = m.abandoned
    BY <2>1 DEF Nodes
  <2> QED
    BY <2>2 DEF m, a
<1>3. r = [queries_replies EXCEPT ![i] = n]
  BY DEF Received
<1> HIDE DEF n
<1> QED
  BY <1>2, <1>3, SetNode

(* The outcome of a call, which is set field by field.                       *)
LEMMA ResultFacts ==
  ASSUME result \in [Callers -> Results], NEW t \in Callers, NEW r
  PROVE  /\ \A e \in {"ETH_TIMEOUT", "ETH_NETWORK_ERROR", "ETH_CLOSING"} :
              r = [result EXCEPT ![t].error = e] =>
                r \in [Callers -> Results] /\ \A u \in Callers : r[u].reply = result[u].reply
         /\ \A a \in Requests : r = [result EXCEPT ![t].reply = a] =>
                /\ r \in [Callers -> Results] /\ r[t].reply = a
                /\ \A u \in Callers : u # t => r[u] = result[u]
<1>1. ASSUME NEW e \in {"ETH_TIMEOUT", "ETH_NETWORK_ERROR", "ETH_CLOSING"}, r = [result EXCEPT ![t].error = e]
      PROVE  r \in [Callers -> Results] /\ \A u \in Callers : r[u].reply = result[u].reply
  <2>1. \A m \in Results : [m EXCEPT !.error = e] \in Results /\ [m EXCEPT !.error = e].reply = m.reply
    BY DEF Results
  <2>2. r = [result EXCEPT ![t] = [result[t] EXCEPT !.error = e]]
    BY <1>1
  <2> DEFINE o == [result[t] EXCEPT !.error = e]
  <2>3. o \in Results /\ o.reply = result[t].reply
    BY <2>1
  <2> HIDE DEF o
  <2> QED
    BY <2>2, <2>3 DEF o
<1>2. ASSUME NEW a \in Requests, r = [result EXCEPT ![t].reply = a]
      PROVE  /\ r \in [Callers -> Results] /\ r[t].reply = a
             /\ \A u \in Callers : u # t => r[u] = result[u]
  <2>1. \A m \in Results : [m EXCEPT !.reply = a] \in Results /\ [m EXCEPT !.reply = a].reply = a
    BY DEF Results
  <2>2. r = [result EXCEPT ![t] = [result[t] EXCEPT !.reply = a]]
    BY <1>2
  <2> DEFINE o == [result[t] EXCEPT !.reply = a]
  <2>3. o \in Results /\ o.reply = a
    BY <2>1
  <2> HIDE DEF o
  <2> QED
    BY <2>2, <2>3 DEF o
<1> QED
  BY <1>1, <1>2

(* The open node of a caller that waits is there and is the only one.        *)
LEMMA MineIsOpen ==
  ASSUME OneOpenNode, NEW t \in Callers, pc[t] \in InList
  PROVE  /\ Mine(t) \in DOMAIN queries_replies
         /\ queries_replies[Mine(t)].caller = t /\ ~queries_replies[Mine(t)].abandoned
         /\ \A i \in DOMAIN queries_replies :
              queries_replies[i].caller = t /\ ~queries_replies[i].abandoned => i = Mine(t)
<1>1. \E i \in DOMAIN queries_replies : queries_replies[i].caller = t /\ ~queries_replies[i].abandoned
  BY DEF OneOpenNode
<1>2. /\ Mine(t) \in DOMAIN queries_replies
      /\ queries_replies[Mine(t)].caller = t /\ ~queries_replies[Mine(t)].abandoned
  BY <1>1 DEF Mine
<1> QED
  BY <1>2 DEF OneOpenNode

(* The node that a reply is matched with is one it matches.                  *)
LEMMA MatchIsMatching ==
  ASSUME queries_replies \in Seq(Nodes), NEW reply, Match(reply) # 0
  PROVE  Match(reply) \in Matches(reply)
<1>1. Matches(reply) \in SUBSET Nat /\ Matches(reply) # {}
  BY LenProperties DEF Matches, Match
<1>2. \E i \in Matches(reply) : \A j \in Matches(reply) : i <= j
  BY <1>1, NatMinimum
<1> QED
  BY <1>1, <1>2 DEF Match

(* The list after a reply was stored: the nodes that stay, in their order,   *)
(* the one it was for among them unless it was given up.                     *)
Stay(i) == {k \in DOMAIN queries_replies :
              k > i \/ ~queries_replies[k].abandoned \/ (k < i /\ queries_replies[k].received)}
LEMMA PurgedFacts ==
  ASSUME queries_replies \in Seq(Nodes), NEW reply \in Queries, NEW i \in DOMAIN queries_replies
  PROVE  /\ Purged(Received(i, reply), i) \in Seq(Nodes)
         /\ \E e : Picks(Purged(Received(i, reply), i), e, Received(i, reply), Stay(i))
<1> DEFINE x == Received(i, reply)
<1>1. x \in Seq(Nodes) /\ DOMAIN x = DOMAIN queries_replies
  BY ReceivedFacts
<1>2. \A k \in DOMAIN queries_replies : x[k].abandoned = queries_replies[k].abandoned
                                        /\ (k # i => x[k].received = queries_replies[k].received)
  BY ReceivedFacts
<1>3. i \in Int /\ \A k \in DOMAIN queries_replies : k \in Int
  BY LenProperties
<1> DEFINE K == {k \in DOMAIN x : k > i \/ ~x[k].abandoned \/ (k < i /\ x[k].received)}
<1> HIDE DEF x
<1>4. DOMAIN x \cap K = Stay(i)
  BY <1>1, <1>2, <1>3 DEF Stay
<1>5. Purged(x, i) = Kept(x, K)
  BY DEF Purged
<1> HIDE DEF K
<1>6. /\ Kept(x, K) \in Seq(Nodes)
      /\ \E e : Picks(Kept(x, K), e, x, DOMAIN x \cap K)
  BY <1>1, KeptFacts
<1> QED
  BY <1>4, <1>5, <1>6 DEF x

-----------------------------------------------------------------------------
LEMMA ListTypedStart == Init => ListTyped
BY EmptySeq DEF Init, ListTyped, Queries, NoQuery, NoResult, Results, Requests

LEMMA ListTypedStep == ListInv /\ [Next]_vars => ListTyped'
<1> SUFFICES ASSUME ListInv, [Next]_vars PROVE ListTyped'
  OBVIOUS
<1> USE DEF ListInv, HandleInv
<1>0. \A i \in DOMAIN queries_replies : queries_replies[i] \in Nodes
  BY ElementOfSeq, LenProperties DEF ListTyped
<1>1. CASE Owner
  BY <1>1 DEF Owner, Acquire, AcquireFails, Unwind, Close, StopReader, JoinReader, Release, ListTyped, wire, callers
<1>2. CASE ReaderEnds \/ ReaderDone \/ ReaderWakes \/ Disconnect
  BY <1>2 DEF ReaderEnds, ReaderDone, ReaderWakes, Disconnect, ListTyped, wire, callers
<1>3. CASE Receive
  <2>0. fromDevice # <<>> /\ Head(fromDevice) \in Queries /\ Tail(fromDevice) \in Seq(Queries)
    BY <1>3, HeadTailProperties DEF Receive, ListTyped
  <2>1. queries_replies' \in Seq(Nodes)
    <3>1. CASE Match(Head(fromDevice)) = 0
      BY <1>3, <3>1 DEF Receive, ProcessIncoming, ListTyped
    <3>2. CASE Match(Head(fromDevice)) # 0
      <4> DEFINE i == Match(Head(fromDevice))
      <4>1. i \in DOMAIN queries_replies
        BY <3>2, MatchIsMatching DEF Matches, ListTyped
      <4>2. queries_replies' = Purged(Received(i, Head(fromDevice)), i)
        BY <1>3, <3>2 DEF Receive, ProcessIncoming
      <4> HIDE DEF i
      <4> QED
        BY <2>0, <4>1, <4>2, PurgedFacts DEF ListTyped
    <3> QED
      BY <3>1, <3>2
  <2> QED
    BY <1>3, <2>0, <2>1 DEF Receive, ListTyped
<1>4. CASE Answer
  <2>1. Head(toDevice) \in Queries /\ Tail(toDevice) \in Seq(Queries)
    BY <1>4, HeadTailProperties DEF Answer, ListTyped
  <2>2. Append(fromDevice, Head(toDevice)) \in Seq(Queries)
    BY <2>1, AppendProperties DEF ListTyped
  <2> QED
    BY <1>4, <2>1, <2>2 DEF Answer, ListTyped, callers
<1>5. ASSUME NEW t \in Callers, Caller(t)
      PROVE  ListTyped'
  <2>1. CASE Begin(t) \/ Reference(t) \/ SetTimeout(t) \/ AskTimeout(t) \/ GetTimeout(t)
    <3>a. calls' = calls \/ calls' = [calls EXCEPT ![t] = @ + 1]
      BY <2>1 DEF Begin, Reference, SetTimeout, AskTimeout, GetTimeout
    <3>1. calls' \in [Callers -> Nat]
      BY <3>a DEF ListTyped
    <3>2. UNCHANGED <<queries_replies, wire, query, sequence, sequence_mutex, result>>
      BY <2>1 DEF Begin, Reference, SetTimeout, AskTimeout, GetTimeout
    <3> QED
      BY <3>1, <3>2 DEF ListTyped, wire
  <2>2. CASE TakeSequence(t)
    <3>1. [sequence |-> sequence, asks |-> <<t, calls[t]>>] \in Queries
      BY DEF ListTyped, Queries, Requests
    <3>2. (sequence + 1) % SEQUENCES \in Nat
      BY DEF ListTyped, SEQUENCES
    <3> QED
      BY <2>2, <3>1, <3>2 DEF TakeSequence, ListTyped, wire
  <2>3. CASE NoSequence(t) \/ SendFails(t) \/ TimeOut(t)
    <3>1. result' = result \/ \E e \in {"ETH_TIMEOUT", "ETH_NETWORK_ERROR", "ETH_CLOSING"} : Fail(t, e)
      BY <2>3 DEF NoSequence, SendFails, TimeOut, Check
    <3>2. result' \in [Callers -> Results]
      BY <3>1, ResultFacts DEF Fail, ListTyped
    <3> QED
      BY <2>3, <3>2 DEF NoSequence, SendFails, TimeOut, ListTyped, wire
  <2>4. CASE Send(t)
    <3>1. Append(toDevice, query[t]) \in Seq(Queries)
      BY AppendProperties DEF ListTyped
    <3> QED
      BY <2>4, <3>1 DEF Send, ListTyped
  <2>5. CASE AppendNode(t)
    <3>1. Node(t) \in Nodes
      BY DEF ListTyped, Nodes, Node, Queries, Requests
    <3>2. Append(queries_replies, Node(t)) \in Seq(Nodes)
      BY <3>1, AppendProperties DEF ListTyped
    <3> QED
      BY <2>5, <3>2 DEF AppendNode, ListTyped, wire
  <2>6. CASE Recheck(t)
    <3> DEFINE i == Mine(t)
    <3>1. i \in DOMAIN queries_replies
      BY <2>6, MineIsOpen DEF Recheck, InList
    <3>2. RemoveAt(queries_replies, i) \in Seq(Nodes)
      BY <3>1, RemoveAtFacts DEF ListTyped
    <3>3. GivenUp(queries_replies, i) \in Seq(Nodes)
      BY <3>1, GivenUpFacts DEF ListTyped
    <3>4. queries_replies' \in {queries_replies, RemoveAt(queries_replies, i), GivenUp(queries_replies, i)}
      BY <2>6 DEF Recheck, GivenUp
    <3>5. result' \in [Callers -> Results]
      <4>1. \/ result' = result
            \/ result' = [result EXCEPT ![t].reply = queries_replies[i].reply]
            \/ \E e \in {"ETH_TIMEOUT", "ETH_NETWORK_ERROR", "ETH_CLOSING"} : Fail(t, e)
        BY <2>6 DEF Recheck, Check
      <4>2. queries_replies[i].reply \in Requests
        BY <1>0, <3>1 DEF Nodes
      <4> HIDE DEF i
      <4> QED
        BY <4>1, <4>2, ResultFacts DEF Fail, ListTyped
    <3> HIDE DEF i
    <3> QED
      BY <2>6, <3>2, <3>3, <3>4, <3>5 DEF Recheck, ListTyped, wire
  <2>7. CASE Leave(t)
    BY <2>7 DEF Leave, ListTyped, wire, NoQuery, NoResult, Queries, Results, Requests
  <2> QED
    BY <1>5, <2>1, <2>2, <2>3, <2>4, <2>5, <2>6, <2>7 DEF Caller
<1>6. CASE UNCHANGED vars
  BY <1>6 DEF vars, wire, callers, ListTyped
<1> QED
  BY <1>1, <1>2, <1>3, <1>4, <1>5, <1>6 DEF Next, Reader

-----------------------------------------------------------------------------
(* Every open node has its caller, through every step.                       *)

(* The list stays, and whoever waits goes on waiting or is awake.            *)
LEMMA SameList ==
  ASSUME ListInv, queries_replies' = queries_replies,
         \A t \in Callers : pc'[t] \in InList <=> pc[t] \in InList,
         \A t \in Callers : pc[t] \in {"woken", "late"} => pc'[t] \in {"woken", "late"}
  PROVE  OneOpenNode' /\ NoStrandedReply'
<1>1. \A i \in DOMAIN queries_replies : queries_replies[i].caller \in Callers
  BY NodesTyped DEF ListInv
<1> QED
  BY <1>1 DEF ListInv, OneOpenNode, NoStrandedReply

(* A caller whose place is outside the wait before and after.                *)
LEMMA SameOutside ==
  ASSUME ListInv, queries_replies' = queries_replies, NEW t \in Callers, NEW l,
         pc' = [pc EXCEPT ![t] = l], pc[t] \notin InList, l \notin InList
  PROVE  OneOpenNode' /\ NoStrandedReply'
<1>1. \A u \in Callers : pc'[u] = IF u = t THEN l ELSE pc[u]
  BY DEF ListInv, HandleInv, Typed
<1>2. \A u \in Callers : pc'[u] \in InList <=> pc[u] \in InList
  BY <1>1
<1>3. \A u \in Callers : pc[u] \in {"woken", "late"} => pc'[u] \in {"woken", "late"}
  BY <1>1 DEF InList
<1> QED
  BY <1>2, <1>3, SameList

LEMMA AppendOpen ==
  ASSUME ListInv, NEW t \in Callers, AppendNode(t)
  PROVE  OneOpenNode' /\ NoStrandedReply'
<1> DEFINE n == Len(queries_replies)
<1>0. n \in Nat /\ DOMAIN queries_replies = 1 .. n
  BY LenProperties DEF ListInv, ListTyped
<1>1. /\ DOMAIN queries_replies' = 1 .. n + 1
      /\ queries_replies'[n + 1] = Node(t)
      /\ \A i \in 1 .. n : queries_replies'[i] = queries_replies[i]
  <2>1. Node(t) \in Nodes
    BY DEF ListInv, ListTyped, Nodes, Node, Queries, Requests
  <2>2. /\ queries_replies' = Append(queries_replies, Node(t))
        /\ queries_replies \in Seq(Nodes)
    BY DEF ListInv, ListTyped, AppendNode
  <2> HIDE DEF n
  <2>3. /\ Len(queries_replies') = Len(queries_replies) + 1 /\ queries_replies' \in Seq(Nodes)
        /\ \A i \in 1 .. Len(queries_replies) : queries_replies'[i] = queries_replies[i]
        /\ queries_replies'[Len(queries_replies) + 1] = Node(t)
    BY <2>1, <2>2, AppendProperties
  <2> QED
    BY <2>3, LenProperties DEF n
<1> HIDE DEF n
<1>2. /\ pc[t] = "sent" /\ \A u \in Callers : pc'[u] = IF u = t THEN "waiting" ELSE pc[u]
  BY DEF AppendNode, ListInv, HandleInv, Typed
<1>3. /\ ~Node(t).abandoned /\ ~Node(t).received /\ Node(t).caller = t
  BY DEF Node
<1>4. \A i \in 1 .. n : queries_replies[i].caller \in Callers
                        /\ (~queries_replies[i].abandoned => queries_replies[i].caller # t)
  BY <1>0, <1>2, NodesTyped DEF ListInv, OneOpenNode, InList
<1>5. \A i \in DOMAIN queries_replies' : i \in 1 .. n \/ i = n + 1
  BY <1>0, <1>1
<1>6. \A i \in DOMAIN queries_replies' :
        ~queries_replies'[i].abandoned => pc'[queries_replies'[i].caller] \in InList
  BY <1>0, <1>1, <1>2, <1>3, <1>4, <1>5 DEF ListInv, OneOpenNode, InList
<1>7. \A i, j \in DOMAIN queries_replies' :
        ~queries_replies'[i].abandoned /\ ~queries_replies'[j].abandoned
        /\ queries_replies'[i].caller = queries_replies'[j].caller => i = j
  BY <1>0, <1>1, <1>3, <1>4, <1>5 DEF ListInv, OneOpenNode
<1>8. ASSUME NEW u \in Callers, pc'[u] \in InList
      PROVE  \E i \in DOMAIN queries_replies' : queries_replies'[i].caller = u /\ ~queries_replies'[i].abandoned
  <2>1. CASE u = t
    <3>1. n + 1 \in DOMAIN queries_replies'
      BY <1>0, <1>1
    <3> QED
      BY <1>1, <1>3, <2>1, <3>1
  <2>2. CASE u # t
    <3>1. PICK i \in 1 .. n : queries_replies[i].caller = u /\ ~queries_replies[i].abandoned
      BY <1>0, <1>2, <1>8, <2>2 DEF ListInv, OneOpenNode
    <3>2. i \in DOMAIN queries_replies'
      BY <1>0, <1>1
    <3> QED
      BY <1>1, <3>1, <3>2
  <2> QED
    BY <2>1, <2>2
<1>9. NoStrandedReply'
  BY <1>0, <1>1, <1>2, <1>3, <1>4, <1>5 DEF ListInv, NoStrandedReply
<1> QED
  BY <1>6, <1>7, <1>8, <1>9 DEF OneOpenNode

(* A caller that takes its reply removes its node.                           *)
LEMMA RemoveOpen ==
  ASSUME ListInv, NEW t \in Callers, pc[t] \in InList,
         queries_replies' = RemoveAt(queries_replies, Mine(t)), pc' = [pc EXCEPT ![t] = "leaving"]
  PROVE  OneOpenNode' /\ NoStrandedReply'
<1> DEFINE i == Mine(t)
           r == RemoveAt(queries_replies, i)
<1>1. /\ i \in DOMAIN queries_replies
      /\ \A k \in DOMAIN queries_replies :
           queries_replies[k].caller = t /\ ~queries_replies[k].abandoned => k = i
  BY MineIsOpen DEF ListInv
<1>2. queries_replies \in Seq(Nodes) /\ \A k \in DOMAIN queries_replies : queries_replies[k].caller \in Callers
  BY NodesTyped DEF ListInv
<1>3. queries_replies' = r
  OBVIOUS
<1> HIDE DEF i
<1>4. PICK e : Picks(r, e, queries_replies, DOMAIN queries_replies \ {i})
  BY <1>1, <1>2, RemoveAtFacts
<1>5. r \in Seq(Nodes) /\ DOMAIN r = 1 .. Len(r)
  <2>1. r \in Seq(Nodes)
    BY <1>1, <1>2, RemoveAtFacts
  <2> HIDE DEF r
  <2> QED
    BY <2>1, LenProperties
<1> HIDE DEF r
<1>6. \A k \in DOMAIN r : e[k] \in DOMAIN queries_replies /\ e[k] # i /\ r[k] = queries_replies[e[k]]
  BY <1>4, <1>5 DEF Picks
<1>7. \A k, l \in DOMAIN r : e[k] = e[l] => k = l
  <2> SUFFICES ASSUME NEW k \in DOMAIN r, NEW l \in DOMAIN r, k # l PROVE e[k] # e[l]
    OBVIOUS
  <2>1. k \in Int /\ l \in Int /\ Len(r) \in Nat
    BY <1>5, LenProperties
  <2>2. e[k] \in Int /\ e[l] \in Int
    BY <1>2, <1>6, LenProperties
  <2>3. k < l => e[k] < e[l]
    BY <1>4, <1>5 DEF Picks
  <2>4. l < k => e[l] < e[k]
    BY <1>4, <1>5 DEF Picks
  <2> QED
    BY <2>1, <2>2, <2>3, <2>4
<1>8. \A u \in Callers : pc'[u] = IF u = t THEN "leaving" ELSE pc[u]
  BY DEF ListInv, HandleInv, Typed
<1>9. \A k \in DOMAIN r : ~r[k].abandoned => r[k].caller \in Callers \ {t}
  BY <1>1, <1>2, <1>6
<1>10. \A k \in DOMAIN r : ~r[k].abandoned => pc'[r[k].caller] \in InList
  BY <1>6, <1>8, <1>9 DEF ListInv, OneOpenNode
<1>11. \A k, l \in DOMAIN r : ~r[k].abandoned /\ ~r[l].abandoned /\ r[k].caller = r[l].caller => k = l
  <2> SUFFICES ASSUME NEW k \in DOMAIN r, NEW l \in DOMAIN r,
                      ~r[k].abandoned, ~r[l].abandoned, r[k].caller = r[l].caller
               PROVE  k = l
    OBVIOUS
  <2>1. e[k] = e[l]
    BY <1>6 DEF ListInv, OneOpenNode
  <2> QED
    BY <1>7, <2>1
<1>12. ASSUME NEW u \in Callers, pc'[u] \in InList
       PROVE  \E k \in DOMAIN r : r[k].caller = u /\ ~r[k].abandoned
  <2>1. u # t /\ pc[u] \in InList
    BY <1>8, <1>12 DEF InList
  <2>2. PICK j \in DOMAIN queries_replies : queries_replies[j].caller = u /\ ~queries_replies[j].abandoned
    BY <2>1 DEF ListInv, OneOpenNode
  <2>3. j # i
    BY <1>1, <2>1, <2>2, MineIsOpen DEF ListInv, i
  <2>4. PICK k \in 1 .. Len(r) : e[k] = j
    BY <1>4, <2>3 DEF Picks
  <2> QED
    BY <1>5, <1>6, <2>2, <2>4
<1>13. \A k \in DOMAIN r : r[k].received => ~r[k].abandoned /\ pc'[r[k].caller] \in {"woken", "late"}
  BY <1>6, <1>8, <1>9 DEF ListInv, NoStrandedReply
<1>14. OneOpenNode'
  BY <1>3, <1>10, <1>11, <1>12 DEF OneOpenNode
<1> QED
  BY <1>3, <1>13, <1>14 DEF NoStrandedReply

(* A caller that gives up leaves its node behind, marked.                    *)
LEMMA GiveUpOpen ==
  ASSUME ListInv, NEW t \in Callers, pc[t] \in InList, ~queries_replies[Mine(t)].received,
         queries_replies' = GivenUp(queries_replies, Mine(t)), pc' = [pc EXCEPT ![t] = "leaving"]
  PROVE  OneOpenNode' /\ NoStrandedReply'
<1> DEFINE i == Mine(t)
           r == queries_replies'
<1>1. /\ i \in DOMAIN queries_replies
      /\ queries_replies[i].caller = t
      /\ \A k \in DOMAIN queries_replies :
           queries_replies[k].caller = t /\ ~queries_replies[k].abandoned => k = i
  BY MineIsOpen DEF ListInv
<1>2. queries_replies \in Seq(Nodes) /\ \A k \in DOMAIN queries_replies : queries_replies[k].caller \in Callers
  BY NodesTyped DEF ListInv
<1>3. /\ r \in Seq(Nodes) /\ DOMAIN r = DOMAIN queries_replies
      /\ \A k \in DOMAIN queries_replies : k # i => r[k] = queries_replies[k]
      /\ r[i].abandoned
      /\ \A k \in DOMAIN queries_replies : /\ r[k].caller = queries_replies[k].caller
                                           /\ r[k].received = queries_replies[k].received
  BY <1>1, <1>2, GivenUpFacts
<1>4. ~queries_replies[i].received
  OBVIOUS
<1>5. \A u \in Callers : pc'[u] = IF u = t THEN "leaving" ELSE pc[u]
  BY DEF ListInv, HandleInv, Typed
<1> HIDE DEF i
<1>6. \A k \in DOMAIN r : ~r[k].abandoned =>
        k # i /\ ~queries_replies[k].abandoned /\ r[k].caller # t /\ r[k].caller \in Callers
  BY <1>1, <1>2, <1>3
<1>7. \A k \in DOMAIN r : ~r[k].abandoned => pc'[r[k].caller] \in InList
  BY <1>3, <1>5, <1>6 DEF ListInv, OneOpenNode
<1>8. \A k, l \in DOMAIN r : ~r[k].abandoned /\ ~r[l].abandoned /\ r[k].caller = r[l].caller => k = l
  BY <1>3, <1>6 DEF ListInv, OneOpenNode
<1>9. \A u \in Callers : pc'[u] \in InList => \E k \in DOMAIN r : r[k].caller = u /\ ~r[k].abandoned
  BY <1>1, <1>3, <1>5 DEF ListInv, OneOpenNode, InList
<1>10. \A k \in DOMAIN r : r[k].received => ~r[k].abandoned /\ pc'[r[k].caller] \in {"woken", "late"}
  BY <1>1, <1>2, <1>3, <1>4, <1>5, <1>6 DEF ListInv, NoStrandedReply
<1>11. OneOpenNode'
  BY <1>7, <1>8, <1>9 DEF OneOpenNode
<1> QED
  BY <1>10, <1>11 DEF NoStrandedReply

(* A stored reply: its own node stays unless it was given up, and what goes  *)
(* was given up.                                                             *)
LEMMA ReceiveOpen ==
  ASSUME ListInv, NEW reply \in Queries, Match(reply) # 0,
         queries_replies' = Purged(Received(Match(reply), reply), Match(reply)),
         pc' = IF queries_replies[Match(reply)].abandoned THEN pc ELSE Broadcast(pc)
  PROVE  OneOpenNode' /\ NoStrandedReply'
<1> DEFINE i == Match(reply)
           x == Received(i, reply)
           r == queries_replies'
<1>1. i \in DOMAIN queries_replies
  BY MatchIsMatching DEF ListInv, ListTyped, Matches
<1>2. queries_replies \in Seq(Nodes) /\ \A k \in DOMAIN queries_replies : queries_replies[k].caller \in Callers
  BY NodesTyped DEF ListInv
<1>3. r = Purged(x, i) /\ pc' = IF queries_replies[i].abandoned THEN pc ELSE Broadcast(pc)
  OBVIOUS
<1>4. /\ \A k \in DOMAIN queries_replies : k # i => x[k] = queries_replies[k]
      /\ x[i].received
      /\ \A k \in DOMAIN queries_replies : /\ x[k].caller = queries_replies[k].caller
                                           /\ x[k].abandoned = queries_replies[k].abandoned
  BY <1>1, <1>2, ReceivedFacts
<1> HIDE DEF i
<1>5. r \in Seq(Nodes) /\ \E e : Picks(r, e, x, Stay(i))
  BY <1>1, <1>2, <1>3, PurgedFacts DEF x
<1> HIDE DEF x
<1>6. PICK e : Picks(r, e, x, Stay(i))
  BY <1>5
<1>7. DOMAIN r = 1 .. Len(r)
  BY <1>5, LenProperties
<1> HIDE DEF r
<1>8. \A k \in DOMAIN r : e[k] \in DOMAIN queries_replies /\ e[k] \in Stay(i) /\ r[k] = x[e[k]]
  BY <1>6, <1>7 DEF Picks, Stay
<1>9. \A k, l \in DOMAIN r : e[k] = e[l] => k = l
  <2> SUFFICES ASSUME NEW k \in DOMAIN r, NEW l \in DOMAIN r, k # l PROVE e[k] # e[l]
    OBVIOUS
  <2>1. k \in Int /\ l \in Int /\ Len(r) \in Nat
    BY <1>5, <1>7, LenProperties
  <2>2. e[k] \in Int /\ e[l] \in Int
    BY <1>2, <1>8, LenProperties
  <2>3. k < l => e[k] < e[l]
    BY <1>6, <1>7 DEF Picks
  <2>4. l < k => e[l] < e[k]
    BY <1>6, <1>7 DEF Picks
  <2> QED
    BY <2>1, <2>2, <2>3, <2>4
<1>10. /\ \A u \in Callers : pc'[u] \in InList <=> pc[u] \in InList
       /\ \A u \in Callers : pc[u] \in {"woken", "late"} => pc'[u] \in {"woken", "late"}
       /\ ~queries_replies[i].abandoned =>
            \A u \in Callers : pc[u] \in InList => pc'[u] \in {"woken", "late"}
  BY <1>3 DEF ListInv, HandleInv, Typed, Broadcast, InList
<1>11. \A k \in DOMAIN r : ~r[k].abandoned => pc'[r[k].caller] \in InList
  BY <1>2, <1>4, <1>8, <1>10 DEF ListInv, OneOpenNode
<1>12. \A k, l \in DOMAIN r : ~r[k].abandoned /\ ~r[l].abandoned /\ r[k].caller = r[l].caller => k = l
  <2> SUFFICES ASSUME NEW k \in DOMAIN r, NEW l \in DOMAIN r,
                      ~r[k].abandoned, ~r[l].abandoned, r[k].caller = r[l].caller
               PROVE  k = l
    OBVIOUS
  <2>1. e[k] = e[l]
    BY <1>4, <1>8 DEF ListInv, OneOpenNode
  <2> QED
    BY <1>9, <2>1
<1>13. ASSUME NEW u \in Callers, pc'[u] \in InList
       PROVE  \E k \in DOMAIN r : r[k].caller = u /\ ~r[k].abandoned
  <2>1. PICK j \in DOMAIN queries_replies : queries_replies[j].caller = u /\ ~queries_replies[j].abandoned
    BY <1>10, <1>13 DEF ListInv, OneOpenNode
  <2>2. j \in Stay(i)
    BY <2>1 DEF Stay
  <2>3. PICK k \in 1 .. Len(r) : e[k] = j
    BY <1>6, <2>2 DEF Picks
  <2> QED
    BY <1>4, <1>7, <1>8, <2>1, <2>3
<1>14. ASSUME NEW k \in DOMAIN r, r[k].received
       PROVE  ~r[k].abandoned /\ pc'[r[k].caller] \in {"woken", "late"}
  <2>1. CASE e[k] = i
    <3>1. i \in Stay(i) /\ ~queries_replies[i].abandoned
      <4>1. i \in Int
        BY <1>1, <1>2, LenProperties
      <4> QED
        BY <1>8, <2>1, <4>1 DEF Stay
    <3>2. pc[queries_replies[i].caller] \in InList
      BY <1>1, <3>1 DEF ListInv, OneOpenNode
    <3> QED
      BY <1>1, <1>2, <1>4, <1>8, <1>10, <2>1, <3>1, <3>2
  <2>2. CASE e[k] # i
    <3>1. r[k] = queries_replies[e[k]] /\ e[k] \in DOMAIN queries_replies
      BY <1>4, <1>8, <2>2
    <3> QED
      BY <1>2, <1>10, <1>14, <3>1 DEF ListInv, NoStrandedReply
  <2> QED
    BY <2>1, <2>2
<1>15. OneOpenNode'
  BY <1>11, <1>12, <1>13 DEF OneOpenNode, r
<1> QED
  BY <1>14, <1>15 DEF NoStrandedReply, r

LEMMA OpenStep == ListInv /\ [Next]_vars => OneOpenNode' /\ NoStrandedReply'
<1> SUFFICES ASSUME ListInv, [Next]_vars PROVE OneOpenNode' /\ NoStrandedReply'
  OBVIOUS
<1>1. CASE Owner \/ Answer \/ Disconnect \/ ReaderEnds \/ ReaderDone \/ UNCHANGED vars
  <2>1. queries_replies' = queries_replies /\ pc' = pc
    BY <1>1 DEF Owner, Acquire, AcquireFails, Unwind, Close, StopReader, JoinReader, Release, Answer, Disconnect,
                ReaderEnds, ReaderDone, vars, callers
  <2> QED
    BY <2>1, SameList
<1>2. CASE ReaderWakes
  <2>1. queries_replies' = queries_replies /\ pc' = Broadcast(pc)
    BY <1>2 DEF ReaderWakes
  <2>2. /\ \A t \in Callers : pc'[t] \in InList <=> pc[t] \in InList
        /\ \A t \in Callers : pc[t] \in {"woken", "late"} => pc'[t] \in {"woken", "late"}
    BY <2>1 DEF Broadcast, InList
  <2> QED
    BY <2>1, <2>2, SameList
<1>3. CASE Receive
  <2> DEFINE reply == Head(fromDevice)
  <2>1. reply \in Queries
    BY <1>3, HeadTailProperties DEF Receive, ListInv, ListTyped
  <2>2. ProcessIncoming(reply)
    BY <1>3 DEF Receive
  <2> HIDE DEF reply
  <2>3. CASE Match(reply) = 0
    <3>1. queries_replies' = queries_replies /\ pc' = pc
      BY <2>2, <2>3 DEF ProcessIncoming
    <3> QED
      BY <3>1, SameList
  <2>4. CASE Match(reply) # 0
    BY <2>1, <2>2, <2>4, ReceiveOpen DEF ProcessIncoming
  <2> QED
    BY <2>3, <2>4
<1>4. ASSUME NEW t \in Callers, Caller(t)
      PROVE  OneOpenNode' /\ NoStrandedReply'
  <2>1. CASE AppendNode(t)
    BY <2>1, AppendOpen
  <2>2. CASE TimeOut(t)
    <3>1. /\ queries_replies' = queries_replies
          /\ \A u \in Callers : pc'[u] = IF u = t THEN "late" ELSE pc[u]
          /\ pc[t] = "waiting"
      BY <2>2 DEF TimeOut, ListInv, HandleInv, Typed
    <3>2. /\ \A u \in Callers : pc'[u] \in InList <=> pc[u] \in InList
          /\ \A u \in Callers : pc[u] \in {"woken", "late"} => pc'[u] \in {"woken", "late"}
      BY <3>1 DEF InList
    <3> QED
      BY <3>1, <3>2, SameList
  <2>3. CASE Recheck(t)
    <3>1. pc[t] \in InList
      BY <2>3 DEF Recheck, InList
    <3>2. \/ /\ queries_replies' = RemoveAt(queries_replies, Mine(t))
             /\ pc' = [pc EXCEPT ![t] = "leaving"]
          \/ /\ ~queries_replies[Mine(t)].received
             /\ queries_replies' = GivenUp(queries_replies, Mine(t))
             /\ pc' = [pc EXCEPT ![t] = "leaving"]
          \/ /\ ~queries_replies[Mine(t)].received
             /\ queries_replies' = queries_replies
             /\ pc' = [pc EXCEPT ![t] = "waiting"]
      BY <2>3 DEF Recheck, Fail, GivenUp
    <3>3. ASSUME ~queries_replies[Mine(t)].received, queries_replies' = queries_replies,
                 pc' = [pc EXCEPT ![t] = "waiting"]
          PROVE  OneOpenNode' /\ NoStrandedReply'
      <4>1. \A u \in Callers : pc'[u] = IF u = t THEN "waiting" ELSE pc[u]
        BY <3>3 DEF ListInv, HandleInv, Typed
      <4>2. OneOpenNode'
        BY <3>1, <3>3, <4>1, NodesTyped DEF ListInv, OneOpenNode, InList
      <4>3. \A i \in DOMAIN queries_replies :
              queries_replies[i].received => ~queries_replies[i].abandoned /\ queries_replies[i].caller # t
        BY <3>1, <3>3, MineIsOpen DEF ListInv, NoStrandedReply
      <4>4. NoStrandedReply'
        BY <3>3, <4>1, <4>3, NodesTyped DEF ListInv, NoStrandedReply
      <4> QED
        BY <4>2, <4>4
    <3> QED
      BY <3>1, <3>2, <3>3, RemoveOpen, GiveUpOpen
  <2>4. CASE ~(AppendNode(t) \/ TimeOut(t) \/ Recheck(t))
    <3>1. /\ queries_replies' = queries_replies
          /\ \E l \in Places : pc' = [pc EXCEPT ![t] = l] /\ l \notin InList
          /\ pc[t] \notin InList
      <4>1. CASE Begin(t) \/ Reference(t) \/ SetTimeout(t) \/ AskTimeout(t) \/ GetTimeout(t)
        BY <4>1 DEF Begin, Reference, SetTimeout, AskTimeout, GetTimeout, Places, InList
      <4>2. CASE TakeSequence(t) \/ NoSequence(t) \/ Send(t) \/ SendFails(t) \/ Leave(t)
        BY <4>2 DEF TakeSequence, NoSequence, Send, SendFails, Leave, Fail, Places, InList
      <4> QED
        BY <1>4, <2>4, <4>1, <4>2 DEF Caller
    <3> QED
      BY <3>1, SameOutside
  <2> QED
    BY <2>1, <2>2, <2>3, <2>4
<1> QED
  BY <1>1, <1>2, <1>3, <1>4 DEF Next, Reader

LEMMA ListStart == Init => ListInv
<1> SUFFICES ASSUME Init PROVE OneOpenNode /\ NoStrandedReply
  BY HandleStart, ListTypedStart DEF ListInv
<1> QED
  BY DEF Init, OneOpenNode, NoStrandedReply, InList

LEMMA ListStep == ListInv /\ [Next]_vars => ListInv'
BY HandleStep, ListTypedStep, OpenStep DEF ListInv

(* A stored reply has its caller (eth32_internal.c:285-380, 860-998): the    *)
(* invariant NoStrandedReply holds for any number of threads and of queries  *)
(* under way, because every node that was not given up belongs to a caller   *)
(* that waits, and to only one.                                              *)
THEOREM EveryReplyIsTaken == Spec => []NoStrandedReply
<1>1. Spec => []ListInv
  BY ListStart, ListStep, PTL DEF Spec
<1>2. ListInv => NoStrandedReply
  BY DEF ListInv
<1> QED
  BY <1>1, <1>2, PTL

-----------------------------------------------------------------------------
(* The parts of the inductive invariant about the order of the numbers.      *)

(* The mutex is held from taking the number to queueing the node, and what   *)
(* the list and the socket hold has smaller numbers than what comes next.    *)
Wire == fromDevice \o toDevice
Increasing(s) == \A i, j \in DOMAIN s : i < j => s[i].sequence < s[j].sequence
MutexHeld == \A t \in Callers : pc[t] \in {"sending", "sent"} <=> sequence_mutex = t
TakenLast == \A t \in Callers : sequence_mutex = t => query[t].sequence = sequence - 1
ListBelow ==
  \A i \in DOMAIN queries_replies :
    /\ queries_replies[i].sequence < sequence
    /\ sequence_mutex # "free" => queries_replies[i].sequence < sequence - 1
WireBelow ==
  \A k \in DOMAIN Wire :
    /\ Wire[k].sequence < sequence
    /\ (\E t \in Callers : pc[t] = "sending") => Wire[k].sequence < sequence - 1

(* The calls that have taken a number; only those below the bound can.       *)
AllCalls == {c \in Callers \X Nat : c[2] \in 1 .. CallsEach[c[1]]}
Numbered == {c \in Callers \X Nat :
               c[2] \in 1 .. calls[c[1]] /\ ~(c[2] = calls[c[1]] /\ pc[c[1]] \in {"admitted", "setting", "referenced", "timing", "asking", "queueing"})}
CallsCounted ==
  /\ \A t \in Callers : calls[t] <= CallsEach[t] /\ (pc[t] # "idle" => calls[t] >= 1)
  /\ sequence <= Cardinality(Numbered)

OrderInv == /\ ListInv /\ CallsCounted /\ MutexHeld /\ TakenLast /\ ListBelow /\ WireBelow
            /\ Increasing(queries_replies) /\ Increasing(Wire)

(* Numbers do not repeat as long as there are fewer calls than numbers.      *)
BelowTheWrap == Cardinality(AllCalls) < SEQUENCES

-----------------------------------------------------------------------------
LEMMA AllCallsFinite == IsFiniteSet(AllCalls)
<1> DEFINE Of(t) == {t} \X (1 .. CallsEach[t])
           f == [t \in Callers |-> Of(t)]
           T == {Of(t) : t \in Callers}
<1>1. IsFiniteSet(T)
  <2>1. f \in Surjection(Callers, T)
    BY DEF Surjection
  <2> QED
    BY <2>1, ConnectionAssumption, FS_Surjection
<1>2. \A U \in T : IsFiniteSet(U)
  <2> SUFFICES ASSUME NEW t \in Callers PROVE IsFiniteSet(Of(t))
    OBVIOUS
  <2>1. CallsEach[t] \in Int
    BY ConnectionAssumption
  <2>2. IsFiniteSet({t})
    BY FS_Singleton
  <2>3. IsFiniteSet(1 .. CallsEach[t])
    BY <2>1, FS_Interval
  <2> QED
    BY <2>2, <2>3, FS_Product
<1>3. AllCalls \subseteq UNION T
  <2> SUFFICES ASSUME NEW c \in AllCalls PROVE c \in UNION T
    OBVIOUS
  <2>1. c[1] \in Callers /\ c \in Of(c[1])
    BY DEF AllCalls
  <2> QED
    BY <2>1
<1> HIDE DEF T
<1>4. IsFiniteSet(UNION T)
  BY <1>1, <1>2, FS_UNION
<1> QED
  BY <1>3, <1>4, FS_Subset

(* A call enters Numbered when it takes its number, and none leaves.         *)
Before == {"admitted", "setting", "referenced", "timing", "asking", "queueing"}
CallsTyped == calls \in [Callers -> Nat] /\ \A t \in Callers : calls[t] <= CallsEach[t] /\ (pc[t] # "idle" => calls[t] >= 1)

LEMMA NumberedFinite ==
  ASSUME CallsTyped
  PROVE  Numbered \subseteq AllCalls /\ IsFiniteSet(Numbered) /\ Cardinality(Numbered) \in Nat
<1>1. Numbered \subseteq AllCalls
  <2> SUFFICES ASSUME NEW c \in Numbered PROVE c \in AllCalls
    OBVIOUS
  <2>1. c \in Callers \X Nat /\ c[2] \in 1 .. calls[c[1]] /\ c[1] \in Callers
    BY DEF Numbered
  <2>2. calls[c[1]] <= CallsEach[c[1]] /\ calls[c[1]] \in Nat /\ CallsEach[c[1]] \in Nat
    BY <2>1, ConnectionAssumption DEF CallsTyped
  <2> QED
    BY <2>1, <2>2 DEF AllCalls
<1> QED
  BY <1>1, AllCallsFinite, FS_Subset, FS_CardinalityType

LEMMA CallsGrow ==
  ASSUME ListInv, CallsTyped, [Next]_vars
  PROVE  CallsTyped' /\ Numbered \subseteq Numbered'
<1> USE DEF ListInv, HandleInv, Typed
<1>0. pc' = pc \/ pc' = Broadcast(pc) \/ \E t \in Callers : Caller(t)
  BY DEF Next, Owner, Acquire, AcquireFails, Unwind, Close, StopReader, JoinReader, Release, Answer, Disconnect,
         Reader, Receive, ProcessIncoming, ReaderEnds, ReaderDone, ReaderWakes, vars, callers
<1>1. CASE ~\E t \in Callers : Caller(t)
  <2>1. calls' = calls
    BY <1>1 DEF Next, Owner, Acquire, AcquireFails, Unwind, Close, StopReader, JoinReader, Release, Answer, Disconnect,
         Reader, Receive, ReaderEnds, ReaderDone, ReaderWakes, vars, callers
  <2>2. \A t \in Callers : (pc'[t] = "idle" <=> pc[t] = "idle") /\ (pc'[t] \in Before <=> pc[t] \in Before)
    BY <1>0, <1>1 DEF Broadcast, Before
  <2> QED
    BY <2>1, <2>2 DEF CallsTyped, Numbered, Before
<1>2. ASSUME NEW t \in Callers, Caller(t)
      PROVE  CallsTyped' /\ Numbered \subseteq Numbered'
  <2>1. CASE Begin(t)
    <3>1. /\ calls' = [calls EXCEPT ![t] = @ + 1] /\ calls[t] < CallsEach[t]
          /\ pc[t] = "idle" /\ \A u \in Callers : u # t => pc'[u] = pc[u]
      BY <2>1 DEF Begin
    <3>2. /\ calls'[t] = calls[t] + 1 /\ \A u \in Callers : u # t => calls'[u] = calls[u]
          /\ calls' \in [Callers -> Nat] /\ calls[t] \in Nat /\ CallsEach[t] \in Nat
      <4>1. calls[t] \in Nat /\ calls[t] + 1 \in Nat /\ calls \in [Callers -> Nat]
        BY DEF CallsTyped
      <4>2. CallsEach[t] \in Nat
        BY ConnectionAssumption
      <4> QED
        BY <3>1, <4>1, <4>2
    <3>3. CallsTyped'
      BY <3>1, <3>2 DEF CallsTyped
    <3>4. ASSUME NEW c \in Numbered PROVE c \in Numbered'
      <4>1. c \in Callers \X Nat /\ c[1] \in Callers /\ c[2] \in Nat /\ c[2] \in 1 .. calls[c[1]]
            /\ ~(c[2] = calls[c[1]] /\ pc[c[1]] \in {"admitted", "setting", "referenced", "timing", "asking", "queueing"})
        BY DEF Numbered
      <4>2. CASE c[1] = t
        <5>1. c[2] \in 1 .. calls'[t] /\ c[2] # calls'[t]
          BY <3>2, <4>1, <4>2
        <5> QED
          BY <4>1, <4>2, <5>1 DEF Numbered
      <4>3. CASE c[1] # t
        BY <3>1, <3>2, <4>1, <4>3 DEF Numbered
      <4> QED
        BY <4>2, <4>3
    <3> QED
      BY <3>3, <3>4
  <2>2. CASE ~Begin(t)
    <3>1. /\ calls' = calls /\ pc[t] # "idle"
          /\ \E l \in Places : pc' = [pc EXCEPT ![t] = l] /\ (pc[t] \notin Before => l \notin Before)
      <4>1. CASE Reference(t) \/ SetTimeout(t) \/ AskTimeout(t) \/ GetTimeout(t) \/ TimeOut(t)
        BY <4>1 DEF Reference, SetTimeout, AskTimeout, GetTimeout, TimeOut, Places, Before
      <4>2. CASE TakeSequence(t) \/ NoSequence(t) \/ Send(t) \/ SendFails(t) \/ AppendNode(t) \/ Leave(t)
        BY <4>2 DEF TakeSequence, NoSequence, Send, SendFails, AppendNode, Leave, Fail, Places, Before
      <4>3. CASE Recheck(t)
        <5>1. \E l \in {"leaving", "waiting"} : pc' = [pc EXCEPT ![t] = l]
          BY <4>3 DEF Recheck, Fail
        <5>2. calls' = calls /\ pc[t] # "idle"
          BY <4>3 DEF Recheck
        <5> QED
          BY <5>1, <5>2 DEF Places, Before
      <4> QED
        BY <1>2, <2>2, <4>1, <4>2, <4>3 DEF Caller
    <3>2. \A u \in Callers : u # t => pc'[u] = pc[u]
      BY <3>1
    <3>3. pc[t] \notin Before => pc'[t] \notin Before
      BY <3>1
    <3>4. CallsTyped'
      BY <3>1, <3>2 DEF CallsTyped
    <3>5. Numbered \subseteq Numbered'
      BY <3>1, <3>2, <3>3 DEF Numbered, Before
    <3> QED
      BY <3>4, <3>5
  <2> QED
    BY <2>1, <2>2
<1> QED
  BY <1>1, <1>2

LEMMA CallsStart == Init => CallsCounted
<1> SUFFICES ASSUME Init PROVE CallsCounted
  OBVIOUS
<1>1. calls = [t \in Callers |-> 0] /\ pc = [t \in Callers |-> "idle"] /\ sequence = 0
  BY DEF Init
<1>2. CallsTyped
  BY <1>1, ConnectionAssumption DEF CallsTyped
<1> QED
  BY <1>1, <1>2, NumberedFinite DEF CallsCounted, CallsTyped

(* Below the wrap-around the next number is the next integer.                *)
LEMMA CallsStep ==
  ASSUME BelowTheWrap, ListInv, CallsCounted, [Next]_vars
  PROVE  /\ CallsCounted'
         /\ \A t \in Callers : TakeSequence(t) => sequence' = sequence + 1
         /\ (~\E t \in Callers : TakeSequence(t)) => sequence' = sequence
<1>0. CallsTyped /\ sequence \in Nat
  BY DEF CallsCounted, CallsTyped, ListInv, ListTyped
<1>1. CallsTyped' /\ Numbered \subseteq Numbered'
  BY <1>0, CallsGrow
<1>2. /\ IsFiniteSet(Numbered) /\ Cardinality(Numbered) \in Nat
      /\ Numbered' \subseteq AllCalls /\ IsFiniteSet(Numbered') /\ Cardinality(Numbered') \in Nat
  <2>1. Numbered \subseteq AllCalls /\ IsFiniteSet(Numbered) /\ Cardinality(Numbered) \in Nat
    BY <1>0, NumberedFinite
  <2>2. Numbered' \subseteq AllCalls
    <3> SUFFICES ASSUME NEW c \in Numbered' PROVE c \in AllCalls
      OBVIOUS
    <3>1. c \in Callers \X Nat /\ c[2] \in 1 .. calls'[c[1]] /\ c[1] \in Callers
      BY DEF Numbered
    <3>2. calls'[c[1]] <= CallsEach[c[1]] /\ calls'[c[1]] \in Nat /\ CallsEach[c[1]] \in Nat
      BY <1>1, <3>1, ConnectionAssumption DEF CallsTyped
    <3> QED
      BY <3>1, <3>2 DEF AllCalls
  <2> QED
    BY <2>1, <2>2, AllCallsFinite, FS_Subset, FS_CardinalityType
<1>3. Cardinality(Numbered) <= Cardinality(Numbered') /\ Cardinality(Numbered') <= Cardinality(AllCalls)
  BY <1>1, <1>2, AllCallsFinite, FS_Subset
<1>4. Cardinality(AllCalls) \in Nat /\ Cardinality(AllCalls) < 256
  BY AllCallsFinite, FS_CardinalityType DEF BelowTheWrap, SEQUENCES
<1>5. ASSUME NEW t \in Callers, TakeSequence(t)
      PROVE  sequence' = sequence + 1 /\ CallsCounted'
  <2> DEFINE c == <<t, calls[t]>>
  <2>1. /\ pc[t] = "queueing" /\ sequence' = (sequence + 1) % 256
        /\ pc'[t] = "sending" /\ calls' = calls
    BY <1>5 DEF TakeSequence, SEQUENCES, ListInv, HandleInv, Typed
  <2>2. calls[t] \in 1 .. calls[t] /\ c \in Callers \X Nat /\ c[1] = t /\ c[2] = calls[t]
    BY <1>0, <2>1 DEF CallsTyped
  <2>3. c \notin Numbered /\ c \in Numbered'
    BY <2>1, <2>2 DEF Numbered
  <2>4. Cardinality(Numbered) + 1 <= Cardinality(Numbered')
    <3>1. Numbered \cup {c} \in SUBSET Numbered'
      BY <1>1, <2>3
    <3>2. Cardinality(Numbered \cup {c}) = Cardinality(Numbered) + 1
      BY <1>2, <2>3, FS_AddElement
    <3>3. Cardinality(Numbered \cup {c}) <= Cardinality(Numbered')
      BY <1>2, <3>1, FS_Subset
    <3> QED
      BY <3>2, <3>3
  <2>5. sequence <= Cardinality(Numbered)
    BY DEF CallsCounted
  <2>6. sequence + 1 <= Cardinality(Numbered') /\ sequence + 1 < 256
    BY <1>0, <1>2, <1>3, <1>4, <2>4, <2>5
  <2>7. sequence' = sequence + 1
    BY <1>0, <2>1, <2>6
  <2> QED
    BY <1>1, <2>6, <2>7 DEF CallsCounted, CallsTyped
<1>6. CASE ~\E t \in Callers : TakeSequence(t)
  <2>1. sequence' = sequence
    <3>1. CASE \E t \in Callers : Caller(t)
      BY <1>6, <3>1 DEF Caller, Begin, Reference, SetTimeout, AskTimeout, GetTimeout, NoSequence, Send, SendFails,
                        AppendNode, TimeOut, Recheck, Leave
    <3>2. CASE ~\E t \in Callers : Caller(t)
      BY <3>2 DEF Next, Owner, Acquire, AcquireFails, Unwind, Close, StopReader, JoinReader, Release, Answer,
           Disconnect, Reader, Receive, ReaderEnds, ReaderDone, ReaderWakes, vars
    <3> QED
      BY <3>1, <3>2
  <2>2. sequence' <= Cardinality(Numbered')
    BY <1>0, <1>2, <1>3, <2>1 DEF CallsCounted
  <2> QED
    BY <1>1, <1>6, <2>1, <2>2 DEF CallsCounted, CallsTyped
<1> QED
  BY <1>5, <1>6


-----------------------------------------------------------------------------
(* What a step does to the list: nodes are removed, marked or answered, and  *)
(* the one answered is the one whose number the reply has.                   *)
Descends(e) ==
  /\ e \in [DOMAIN queries_replies' -> DOMAIN queries_replies]
  /\ \A k, l \in DOMAIN queries_replies' : k < l => e[k] < e[l]
  /\ \A k \in DOMAIN queries_replies' :
       LET old == queries_replies[e[k]]  new == queries_replies'[k] IN
       /\ new.caller = old.caller /\ new.sequence = old.sequence
       /\ ~new.abandoned => ~old.abandoned
       /\ new.received =>
            \/ old.received /\ new.reply = old.reply
            \/ /\ Receive /\ fromDevice # <<>> /\ old.sequence = Head(fromDevice).sequence
               /\ new.reply = Head(fromDevice).asks

LEMMA ListDescends ==
  ASSUME ListInv, [Next]_vars, ~\E t \in Callers : AppendNode(t)
  PROVE  \E e : Descends(e)
<1>1. queries_replies \in Seq(Nodes)
  BY NodesTyped DEF ListInv
<1>2. ASSUME queries_replies' = queries_replies PROVE \E e : Descends(e)
  <2> DEFINE e == [k \in DOMAIN queries_replies |-> k]
  <2>1. Descends(e)
    BY <1>2 DEF Descends
  <2> QED
    BY <2>1
<1>3. ASSUME NEW t \in Callers, Recheck(t) PROVE \E e : Descends(e)
  <2> DEFINE i == Mine(t)
  <2>1. i \in DOMAIN queries_replies
    BY <1>3, MineIsOpen DEF ListInv, Recheck, InList
  <2>2. \/ queries_replies' = queries_replies
        \/ queries_replies' = RemoveAt(queries_replies, i)
        \/ queries_replies' = GivenUp(queries_replies, i)
    BY <1>3 DEF Recheck, GivenUp
  <2> HIDE DEF i
  <2>3. CASE queries_replies' = RemoveAt(queries_replies, i)
    <3>1. queries_replies' \in Seq(Nodes) /\ \E e : Picks(queries_replies', e, queries_replies, DOMAIN queries_replies \ {i})
      BY <1>1, <2>1, <2>3, RemoveAtFacts
    <3>2. PICK e : Picks(queries_replies', e, queries_replies, DOMAIN queries_replies \ {i})
      BY <3>1
    <3>3. DOMAIN queries_replies' = 1 .. Len(queries_replies')
      BY <3>1, LenProperties
    <3>4. Descends(e)
      BY <3>2, <3>3 DEF Picks, Descends
    <3> QED
      BY <3>4
  <2>4. CASE queries_replies' = GivenUp(queries_replies, i)
    <3> DEFINE e == [k \in DOMAIN queries_replies |-> k]
    <3>1. /\ DOMAIN queries_replies' = DOMAIN queries_replies
          /\ queries_replies'[i].abandoned
          /\ \A k \in DOMAIN queries_replies : k # i => queries_replies'[k] = queries_replies[k]
          /\ \A k \in DOMAIN queries_replies :
               /\ queries_replies'[k].caller = queries_replies[k].caller
               /\ queries_replies'[k].sequence = queries_replies[k].sequence
               /\ queries_replies'[k].received = queries_replies[k].received
               /\ queries_replies'[k].reply = queries_replies[k].reply
      BY <1>1, <2>1, <2>4, GivenUpFacts
    <3>2. Descends(e)
      BY <3>1 DEF Descends
    <3> QED
      BY <3>2
  <2> QED
    BY <1>2, <2>2, <2>3, <2>4
<1>4. CASE Receive
  <2> DEFINE reply == Head(fromDevice)
             i == Match(reply)
             x == Received(i, reply)
  <2>1. reply \in Queries /\ fromDevice # <<>>
    BY <1>4, HeadTailProperties DEF Receive, ListInv, ListTyped
  <2>2. ProcessIncoming(reply)
    BY <1>4 DEF Receive
  <2>3. CASE i = 0
    BY <1>2, <2>2, <2>3 DEF ProcessIncoming
  <2>4. CASE i # 0
    <3>1. i \in DOMAIN queries_replies /\ queries_replies[i].sequence = reply.sequence
      BY <1>1, <2>4, MatchIsMatching DEF Matches
    <3>2. queries_replies' = Purged(x, i)
      BY <2>2, <2>4 DEF ProcessIncoming
    <3> HIDE DEF reply, i
    <3>3. /\ DOMAIN x = DOMAIN queries_replies
          /\ \A k \in DOMAIN x : k # i => x[k] = queries_replies[k]
          /\ x[i].received /\ x[i].reply = reply.asks
          /\ \A k \in DOMAIN x : /\ x[k].caller = queries_replies[k].caller
                                 /\ x[k].sequence = queries_replies[k].sequence
                                 /\ x[k].abandoned = queries_replies[k].abandoned
      BY <1>1, <2>1, <3>1, ReceivedFacts
    <3>4. queries_replies' \in Seq(Nodes) /\ \E e : Picks(queries_replies', e, x, Stay(i))
      BY <1>1, <2>1, <3>1, <3>2, PurgedFacts
    <3>5. PICK e : Picks(queries_replies', e, x, Stay(i))
      BY <3>4
    <3>6. DOMAIN queries_replies' = 1 .. Len(queries_replies')
      BY <3>4, LenProperties
    <3> HIDE DEF x
    <3>7. \A k \in DOMAIN queries_replies' : e[k] \in DOMAIN queries_replies /\ queries_replies'[k] = x[e[k]]
      BY <3>5, <3>6 DEF Picks, Stay
    <3>8. ASSUME NEW k \in DOMAIN queries_replies'
          PROVE  LET old == queries_replies[e[k]]  new == queries_replies'[k] IN
                 /\ new.caller = old.caller /\ new.sequence = old.sequence
                 /\ ~new.abandoned => ~old.abandoned
                 /\ new.received => \/ old.received /\ new.reply = old.reply
                                    \/ old.sequence = reply.sequence /\ new.reply = reply.asks
      <4>1. CASE e[k] = i
        BY <3>1, <3>3, <3>7, <4>1
      <4>2. CASE e[k] # i
        BY <3>3, <3>7, <4>2
      <4> QED
        BY <4>1, <4>2
    <3>9. e \in [DOMAIN queries_replies' -> DOMAIN queries_replies]
      BY <3>5, <3>6, <3>7 DEF Picks
    <3>10. \A k, l \in DOMAIN queries_replies' : k < l => e[k] < e[l]
      BY <3>5, <3>6 DEF Picks
    <3>11. Descends(e)
      BY <1>4, <2>1, <3>8, <3>9, <3>10 DEF Descends, reply
    <3> QED
      BY <3>11
  <2> QED
    BY <2>3, <2>4
<1>5. CASE ~Receive /\ ~\E t \in Callers : Recheck(t)
  <2>1. queries_replies' = queries_replies
    <3>1. CASE \E t \in Callers : Caller(t)
      BY <1>5, <3>1 DEF Caller, Begin, Reference, SetTimeout, AskTimeout, GetTimeout, TakeSequence, NoSequence, Send,
                        SendFails, TimeOut, Leave
    <3>2. CASE ~\E t \in Callers : Caller(t)
      BY <1>5, <3>2 DEF Next, Owner, Acquire, AcquireFails, Unwind, Close, StopReader, JoinReader, Release, Answer,
           Disconnect, Reader, ReaderEnds, ReaderDone, ReaderWakes, vars
    <3> QED
      BY <3>1, <3>2
  <2> QED
    BY <1>2, <2>1
<1> QED
  BY <1>3, <1>4, <1>5

(* What a step does to the socket: it stays, loses its first entry, or gets  *)
(* the query of a caller that sends.                                         *)
LEMMA WireTyped ==
  ASSUME ListTyped
  PROVE  Wire \in Seq(Queries) /\ DOMAIN Wire = 1 .. Len(Wire) /\ Len(Wire) \in Nat
         /\ \A k \in DOMAIN Wire : Wire[k].sequence \in Nat /\ Wire[k].asks \in Requests
<1>1. Wire \in Seq(Queries)
  BY ConcatProperties DEF ListTyped, Wire
<1>2. DOMAIN Wire = 1 .. Len(Wire) /\ Len(Wire) \in Nat /\ \A k \in DOMAIN Wire : Wire[k] \in Queries
  BY <1>1, LenProperties, ElementOfSeq
<1> QED
  BY <1>1, <1>2 DEF Queries

LEMMA WireShifts ==
  ASSUME ListTyped, [Next]_vars, ~\E t \in Callers : Send(t)
  PROVE  \E d \in {0, 1} : /\ Len(Wire') = Len(Wire) - d /\ DOMAIN Wire' = 1 .. Len(Wire) - d
                           /\ \A k \in DOMAIN Wire' : Wire'[k] = Wire[k + d]
<1> DEFINE m == Len(fromDevice)
           n == Len(toDevice)
<1>0. /\ m \in Nat /\ n \in Nat /\ Len(Wire) = m + n /\ DOMAIN Wire = 1 .. m + n
      /\ \A k \in 1 .. m + n : Wire[k] = IF k <= m THEN fromDevice[k] ELSE toDevice[k - m]
  <2>1. fromDevice \in Seq(Queries) /\ toDevice \in Seq(Queries)
    BY DEF ListTyped
  <2>2. Wire \in Seq(Queries) /\ DOMAIN Wire = 1 .. Len(Wire)
    BY WireTyped
  <2> QED
    BY <2>1, <2>2, ConcatProperties, LenProperties DEF Wire
<1>1. ASSUME fromDevice' = fromDevice, toDevice' = toDevice
      PROVE  Len(Wire') = Len(Wire) - 0 /\ DOMAIN Wire' = 1 .. Len(Wire) - 0 /\ \A k \in DOMAIN Wire' : Wire'[k] = Wire[k + 0]
  <2>1. Wire' = Wire
    BY <1>1 DEF Wire
  <2> QED
    BY <1>0, <2>1
<1>2. CASE Receive
  <2>1. fromDevice # <<>> /\ fromDevice' = Tail(fromDevice) /\ toDevice' = toDevice
    BY <1>2 DEF Receive
  <2>2. /\ fromDevice' \in Seq(Queries) /\ Len(fromDevice') = m - 1
        /\ \A k \in 1 .. m - 1 : fromDevice'[k] = fromDevice[k + 1]
        /\ toDevice' \in Seq(Queries) /\ Len(toDevice') = n
    BY <2>1, HeadTailProperties DEF ListTyped
  <2>3. /\ Len(Wire') = (m - 1) + n /\ DOMAIN Wire' = 1 .. (m - 1) + n
        /\ \A k \in 1 .. (m - 1) + n : Wire'[k] = IF k <= m - 1 THEN fromDevice'[k] ELSE toDevice'[k - (m - 1)]
    <3>1. /\ Wire' \in Seq(Queries) /\ Len(Wire') = Len(fromDevice') + Len(toDevice')
          /\ \A k \in 1 .. Len(fromDevice') + Len(toDevice') :
               Wire'[k] = IF k <= Len(fromDevice') THEN fromDevice'[k] ELSE toDevice'[k - Len(fromDevice')]
      <4>1. fromDevice' \in Seq(Queries) /\ toDevice' \in Seq(Queries) /\ Wire' = fromDevice' \o toDevice'
        BY <2>2 DEF Wire
      <4> QED
        BY <4>1, ConcatProperties
    <3> QED
      BY <2>2, <3>1, LenProperties
  <2>4. m >= 1
    BY <1>0, <2>2, LenProperties
  <2>5. ASSUME NEW k \in 1 .. (m - 1) + n PROVE Wire'[k] = Wire[k + 1]
    <3>1. k + 1 \in 1 .. m + n /\ (k + 1) - m = k - (m - 1) /\ (k + 1 <= m <=> k <= m - 1)
      BY <1>0, <2>4
    <3>2. CASE k <= m - 1
      <4>1. k \in 1 .. m - 1
        BY <1>0, <3>2
      <4> QED
        BY <1>0, <2>2, <2>3, <3>1, <3>2, <4>1
    <3>3. CASE ~(k <= m - 1)
      BY <1>0, <2>1, <2>3, <3>1, <3>3
    <3> QED
      BY <3>2, <3>3
  <2> HIDE DEF m, n
  <2>6. (m - 1) + n = Len(Wire) - 1
    BY <1>0
  <2> QED
    BY <2>3, <2>5, <2>6
<1>3. CASE Answer
  <2>1. toDevice # <<>> /\ fromDevice' = Append(fromDevice, Head(toDevice)) /\ toDevice' = Tail(toDevice)
    BY <1>3 DEF Answer
  <2>2. /\ Head(toDevice) \in Queries /\ Head(toDevice) = toDevice[1]
        /\ toDevice' \in Seq(Queries) /\ Len(toDevice') = n - 1
        /\ \A k \in 1 .. n - 1 : toDevice'[k] = toDevice[k + 1]
    BY <2>1, HeadTailProperties DEF ListTyped
  <2>3. /\ fromDevice' \in Seq(Queries) /\ Len(fromDevice') = m + 1
        /\ \A k \in 1 .. m : fromDevice'[k] = fromDevice[k]
        /\ fromDevice'[m + 1] = toDevice[1]
    BY <2>1, <2>2, AppendProperties DEF ListTyped
  <2>4. n >= 1
    BY <1>0, <2>2, LenProperties
  <2>5. /\ Len(Wire') = m + n /\ DOMAIN Wire' = 1 .. m + n
        /\ \A k \in 1 .. m + n : Wire'[k] = IF k <= m + 1 THEN fromDevice'[k] ELSE toDevice'[k - (m + 1)]
    <3>1. /\ Wire' \in Seq(Queries) /\ Len(Wire') = Len(fromDevice') + Len(toDevice')
          /\ \A k \in 1 .. Len(fromDevice') + Len(toDevice') :
               Wire'[k] = IF k <= Len(fromDevice') THEN fromDevice'[k] ELSE toDevice'[k - Len(fromDevice')]
      BY <2>2, <2>3, ConcatProperties DEF Wire
    <3>2. Len(fromDevice') + Len(toDevice') = m + n
      BY <1>0, <2>2, <2>3
    <3> QED
      BY <2>3, <3>1, <3>2, LenProperties
  <2>6. ASSUME NEW k \in 1 .. m + n PROVE Wire'[k] = Wire[k]
    <3>1. CASE k <= m
      <4>1. k \in 1 .. m /\ k <= m + 1
        BY <1>0, <3>1
      <4> QED
        BY <1>0, <2>3, <2>5, <3>1, <4>1
    <3>2. CASE k = m + 1
      <4>1. ~(k <= m) /\ k <= m + 1 /\ k - m = 1
        BY <1>0, <3>2
      <4> QED
        BY <1>0, <2>3, <2>5, <3>2, <4>1
    <3>3. CASE k > m + 1
      <4>1. ~(k <= m) /\ ~(k <= m + 1) /\ k - (m + 1) \in 1 .. n - 1 /\ (k - (m + 1)) + 1 = k - m
        BY <1>0, <3>3
      <4> QED
        BY <1>0, <2>2, <2>5, <4>1
    <3> QED
      BY <1>0, <3>1, <3>2, <3>3
  <2> HIDE DEF m, n
  <2>7. m + n = Len(Wire) - 0 /\ \A k \in 1 .. m + n : k + 0 = k
    BY <1>0
  <2> QED
    BY <2>5, <2>6, <2>7
<1>4. CASE ~Receive /\ ~Answer
  <2>1. fromDevice' = fromDevice /\ toDevice' = toDevice
    <3>1. CASE \E t \in Callers : Caller(t)
      BY <3>1 DEF Caller, Begin, Reference, SetTimeout, AskTimeout, GetTimeout, TakeSequence, NoSequence,
                  SendFails, AppendNode, TimeOut, Recheck, Leave, wire
    <3>2. CASE ~\E t \in Callers : Caller(t)
      BY <1>4, <3>2 DEF Next, Owner, Acquire, AcquireFails, Unwind, Close, StopReader, JoinReader, Release,
           Disconnect, Reader, ReaderEnds, ReaderDone, ReaderWakes, vars, wire
    <3> QED
      BY <3>1, <3>2
  <2> QED
    BY <1>1, <2>1
<1> HIDE DEF m, n
<1> QED
  BY <1>2, <1>3, <1>4

LEMMA WireGrows ==
  ASSUME ListTyped, NEW t \in Callers, Send(t)
  PROVE  \/ Wire' = Wire
         \/ /\ Len(Wire') = Len(Wire) + 1 /\ DOMAIN Wire' = 1 .. Len(Wire) + 1
            /\ \A k \in 1 .. Len(Wire) : Wire'[k] = Wire[k]
            /\ Wire'[Len(Wire) + 1] = query[t]
<1>1. CASE toDevice' = toDevice
  BY <1>1 DEF Send, Wire
<1>2. CASE toDevice' = Append(toDevice, query[t])
  <2>1. query[t] \in Queries /\ fromDevice \in Seq(Queries) /\ toDevice \in Seq(Queries) /\ fromDevice' = fromDevice
    BY DEF ListTyped, Send
  <2>2. /\ toDevice' = toDevice \o <<query[t]>> /\ <<query[t]>> \in Seq(Queries)
    BY <1>2, <2>1, AppendIsConcat
  <2>3. Wire' = Wire \o <<query[t]>>
    BY <2>1, <2>2, ConcatAssociative DEF Wire
  <2>4. Wire' = Append(Wire, query[t]) /\ Wire \in Seq(Queries)
    BY <2>1, <2>3, WireTyped, AppendIsConcat
  <2> HIDE DEF Wire
  <2>5. /\ Wire' \in Seq(Queries) /\ Len(Wire') = Len(Wire) + 1
        /\ \A k \in 1 .. Len(Wire) : Wire'[k] = Wire[k]
        /\ Wire'[Len(Wire) + 1] = query[t]
    BY <2>1, <2>4, AppendProperties
  <2> QED
    BY <2>5, LenProperties
<1> QED
  BY <1>1, <1>2 DEF Send


-----------------------------------------------------------------------------
(* The four ways in which a step concerns the mutex and the numbers: a       *)
(* number is taken, a query is sent, the mutex is given back, or neither.    *)
Aside ==
  /\ sequence_mutex' = sequence_mutex
  /\ \A t \in Callers : pc[t] # "leaving" => query'[t] = query[t]
  /\ \A t \in Callers : \A l \in {"sending", "sent"} : pc'[t] = l <=> pc[t] = l

LEMMA MutexMoves ==
  ASSUME ListInv, [Next]_vars
  PROVE  Aside \/ \E t \in Callers : TakeSequence(t) \/ Send(t) \/ SendFails(t) \/ AppendNode(t)
<1> USE DEF ListInv, HandleInv, Typed
<1>1. CASE ~\E t \in Callers : Caller(t)
  <2>1. sequence_mutex' = sequence_mutex /\ query' = query /\ (pc' = pc \/ pc' = Broadcast(pc))
    BY <1>1 DEF Next, Owner, Acquire, AcquireFails, Unwind, Close, StopReader, JoinReader, Release, Answer,
         Disconnect, Reader, Receive, ProcessIncoming, ReaderEnds, ReaderDone, ReaderWakes, vars, callers
  <2> QED
    BY <2>1 DEF Aside, Broadcast
<1>2. ASSUME NEW t \in Callers,
             Begin(t) \/ Reference(t) \/ SetTimeout(t) \/ AskTimeout(t) \/ GetTimeout(t) \/ NoSequence(t) \/ TimeOut(t)
      PROVE  Aside
  <2>1. sequence_mutex' = sequence_mutex /\ query' = query
    BY <1>2 DEF Begin, Reference, SetTimeout, AskTimeout, GetTimeout, NoSequence, TimeOut
  <2>2. pc[t] \notin {"sending", "sent"} /\ \E l \in Places \ {"sending", "sent"} : pc' = [pc EXCEPT ![t] = l]
    BY <1>2 DEF Begin, Reference, SetTimeout, AskTimeout, GetTimeout, NoSequence, TimeOut, Fail, Places
  <2> QED
    BY <2>1, <2>2 DEF Aside
<1>3. ASSUME NEW t \in Callers, Recheck(t) PROVE Aside
  <2>1. \E l \in {"leaving", "waiting"} : pc' = [pc EXCEPT ![t] = l]
    BY <1>3 DEF Recheck, Fail
  <2>2. sequence_mutex' = sequence_mutex /\ query' = query /\ pc[t] \notin {"sending", "sent"}
    BY <1>3 DEF Recheck
  <2> QED
    BY <2>1, <2>2 DEF Aside
<1>4. ASSUME NEW t \in Callers, Leave(t) PROVE Aside
  <2>1. /\ sequence_mutex' = sequence_mutex /\ pc[t] = "leaving" /\ pc' = [pc EXCEPT ![t] = "idle"]
        /\ query' = [query EXCEPT ![t] = NoQuery]
    BY <1>4 DEF Leave
  <2> QED
    BY <2>1 DEF Aside, ListTyped
<1> QED
  BY <1>1, <1>2, <1>3, <1>4 DEF Caller

LEMMA OrderStart == Init => OrderInv
<1> SUFFICES ASSUME Init PROVE OrderInv
  OBVIOUS
<1>1. /\ queries_replies = <<>> /\ fromDevice = <<>> /\ toDevice = <<>> /\ sequence_mutex = "free"
      /\ \A t \in Callers : pc[t] = "idle"
  BY DEF Init
<1>2. Wire = <<>>
  BY <1>1 DEF Wire
<1>3. \A t \in Callers : t # "free"
  BY ConnectionAssumption
<1> QED
  BY <1>1, <1>2, <1>3, ListStart, CallsStart
     DEF OrderInv, MutexHeld, TakenLast, ListBelow, WireBelow, Increasing

LEMMA OrderStep == BelowTheWrap /\ OrderInv /\ [Next]_vars => OrderInv'
<1> SUFFICES ASSUME BelowTheWrap, OrderInv, [Next]_vars PROVE OrderInv'
  OBVIOUS
<1>0. /\ ListInv /\ ListInv' /\ CallsCounted' /\ ListTyped /\ ListTyped'
      /\ sequence \in Nat /\ pc \in [Callers -> Places] /\ query \in [Callers -> Queries] /\ "free" \notin Callers
      /\ \A t \in Callers : TakeSequence(t) => sequence' = sequence + 1
      /\ (~\E t \in Callers : TakeSequence(t)) => sequence' = sequence
  <2>1. ListInv /\ ListInv'
    BY ListStep DEF OrderInv
  <2>2. "free" \notin Callers
    BY ConnectionAssumption
  <2> QED
    BY <2>1, <2>2, CallsStep DEF OrderInv, ListInv, ListTyped, HandleInv, Typed
<1>1. /\ \A i \in DOMAIN queries_replies : queries_replies[i].sequence \in Nat
      /\ \A i \in DOMAIN queries_replies' : queries_replies'[i].sequence \in Nat
      /\ \A i \in DOMAIN queries_replies : i \in Nat
  <2>1. queries_replies' \in Seq(Nodes) /\ queries_replies \in Seq(Nodes)
    BY <1>0 DEF ListTyped
  <2>2. \A i \in DOMAIN queries_replies' : queries_replies'[i] \in Nodes
    BY <2>1, ElementOfSeq, LenProperties
  <2> QED
    BY <1>0, <2>1, <2>2, NodesTyped, LenProperties DEF Nodes
<1>2. /\ DOMAIN Wire = 1 .. Len(Wire) /\ Len(Wire) \in Nat
      /\ \A k \in DOMAIN Wire : Wire[k].sequence \in Nat
  BY <1>0, WireTyped
<1> USE DEF OrderInv
(* The list.                                                                 *)
<1>3. ASSUME ~\E t \in Callers : AppendNode(t)
      PROVE  /\ Increasing(queries_replies')
             /\ \A k \in DOMAIN queries_replies' : \E i \in DOMAIN queries_replies :
                  queries_replies'[k].sequence = queries_replies[i].sequence
  <2>1. PICK e : Descends(e)
    BY <1>0, <1>3, ListDescends
  <2> QED
    BY <2>1 DEF Descends, Increasing
(* The socket.                                                               *)
<1>4. ASSUME ~\E t \in Callers : Send(t)
      PROVE  /\ Increasing(Wire')
             /\ \A k \in DOMAIN Wire' : \E i \in DOMAIN Wire : Wire'[k] = Wire[i]
  <2>1. PICK d \in {0, 1} : /\ DOMAIN Wire' = 1 .. Len(Wire) - d
                            /\ \A k \in DOMAIN Wire' : Wire'[k] = Wire[k + d]
    BY <1>0, <1>4, WireShifts
  <2>2. \A k \in DOMAIN Wire' : k + d \in DOMAIN Wire
    BY <1>2, <2>1
  <2>3. Increasing(Wire')
    <3> SUFFICES ASSUME NEW k \in DOMAIN Wire', NEW l \in DOMAIN Wire', k < l
                 PROVE  Wire'[k].sequence < Wire'[l].sequence
      BY DEF Increasing
    <3>1. k + d < l + d
      BY <1>2, <2>1
    <3>2. Wire[k + d].sequence < Wire[l + d].sequence
      BY <2>2, <3>1 DEF Increasing
    <3> QED
      BY <2>1, <3>2
  <2> QED
    BY <2>1, <2>2, <2>3
<1>5. ASSUME NEW t \in Callers, TakeSequence(t) PROVE OrderInv'
  <2>1. /\ sequence_mutex = "free" /\ sequence_mutex' = t /\ sequence' = sequence + 1
        /\ query'[t].sequence = sequence /\ pc'[t] = "sending" /\ pc[t] = "queueing"
        /\ \A u \in Callers : u # t => pc'[u] = pc[u]
        /\ queries_replies' = queries_replies /\ Wire' = Wire
    BY <1>0, <1>5 DEF TakeSequence, wire, Wire
  <2>2. MutexHeld' /\ TakenLast'
    BY <1>0, <2>1 DEF MutexHeld, TakenLast
  <2>3. ListBelow' /\ WireBelow'
    BY <1>0, <1>1, <1>2, <2>1 DEF ListBelow, WireBelow
  <2> QED
    BY <1>0, <2>1, <2>2, <2>3
<1>6. ASSUME NEW t \in Callers, Send(t) PROVE OrderInv'
  <2>1. /\ sequence_mutex = t /\ sequence_mutex' = t /\ query' = query /\ query[t].sequence = sequence - 1
        /\ pc[t] = "sending" /\ pc'[t] = "sent" /\ queries_replies' = queries_replies
        /\ \A u \in Callers : u # t => pc'[u] = pc[u]
    BY <1>0, <1>6 DEF Send, MutexHeld, TakenLast
  <2>2. sequence' = sequence
    BY <1>6 DEF Send
  <2>3. MutexHeld' /\ TakenLast'
    BY <2>1, <2>2 DEF MutexHeld, TakenLast
  <2>4. ListBelow' /\ Increasing(queries_replies')
    BY <2>1, <2>2 DEF ListBelow, Increasing
  <2>5. ~\E u \in Callers : pc'[u] = "sending"
    BY <2>1 DEF MutexHeld
  <2>6. \A k \in DOMAIN Wire : Wire[k].sequence < sequence - 1
    BY <2>1 DEF WireBelow
  <2>7. WireBelow' /\ Increasing(Wire')
    <3>1. CASE Wire' = Wire
      BY <2>2, <2>5, <3>1 DEF WireBelow
    <3>2. CASE /\ DOMAIN Wire' = 1 .. Len(Wire) + 1
               /\ \A k \in 1 .. Len(Wire) : Wire'[k] = Wire[k]
               /\ Wire'[Len(Wire) + 1] = query[t]
      <4>1. \A k \in DOMAIN Wire' : k \in 1 .. Len(Wire) \/ k = Len(Wire) + 1
        BY <1>2, <3>2
      <4>2. \A k \in DOMAIN Wire' : Wire'[k].sequence < sequence
        BY <1>0, <1>2, <2>1, <2>6, <3>2, <4>1
      <4>3. ASSUME NEW k \in DOMAIN Wire', NEW l \in DOMAIN Wire', k < l
            PROVE  Wire'[k].sequence < Wire'[l].sequence
        <5>1. k \in 1 .. Len(Wire)
          BY <1>2, <3>2, <4>3
        <5>2. CASE l \in 1 .. Len(Wire)
          BY <1>2, <3>2, <4>3, <5>1, <5>2 DEF Increasing
        <5>3. CASE l = Len(Wire) + 1
          BY <1>2, <2>1, <2>6, <3>2, <5>1, <5>3
        <5> QED
          BY <4>1, <5>2, <5>3
      <4> QED
        BY <2>2, <2>5, <4>2, <4>3 DEF WireBelow, Increasing
    <3> QED
      BY <1>0, <1>6, <3>1, <3>2, WireGrows
  <2> QED
    BY <1>0, <2>3, <2>4, <2>7
<1>7. ASSUME NEW t \in Callers, SendFails(t) \/ AppendNode(t) PROVE OrderInv'
  <2>1. /\ sequence_mutex = t /\ sequence_mutex' = "free" /\ sequence' = sequence
        /\ pc[t] \in {"sending", "sent"} /\ pc'[t] \notin {"sending", "sent"}
        /\ \A u \in Callers : u # t => pc'[u] = pc[u]
        /\ Wire' = Wire /\ query' = query /\ query[t].sequence = sequence - 1
    BY <1>0, <1>7 DEF SendFails, AppendNode, Fail, MutexHeld, TakenLast, wire, Wire
  <2>2. MutexHeld' /\ TakenLast'
    BY <1>0, <2>1 DEF MutexHeld, TakenLast
  <2>3. WireBelow' /\ Increasing(Wire')
    <3>1. ~\E u \in Callers : pc'[u] = "sending"
      BY <1>0, <2>1, <2>2 DEF MutexHeld
    <3> QED
      BY <2>1, <3>1 DEF WireBelow
  <2>4. ListBelow' /\ Increasing(queries_replies')
    <3>1. CASE SendFails(t)
      BY <2>1, <3>1 DEF SendFails, ListBelow
    <3>2. CASE AppendNode(t)
      <4> DEFINE n == Len(queries_replies)
      <4>1. /\ queries_replies' = Append(queries_replies, Node(t)) /\ queries_replies \in Seq(Nodes)
            /\ Node(t) \in Nodes /\ Node(t).sequence = sequence - 1
        BY <1>0, <2>1, <3>2 DEF AppendNode, ListTyped, Nodes, Node, Queries, Requests
      <4>2. /\ n \in Nat /\ DOMAIN queries_replies = 1 .. n /\ DOMAIN queries_replies' = 1 .. n + 1
            /\ queries_replies'[n + 1] = Node(t)
            /\ \A i \in 1 .. n : queries_replies'[i] = queries_replies[i]
        <5>1. /\ Len(queries_replies') = Len(queries_replies) + 1 /\ queries_replies' \in Seq(Nodes)
              /\ \A i \in 1 .. Len(queries_replies) : queries_replies'[i] = queries_replies[i]
              /\ queries_replies'[Len(queries_replies) + 1] = Node(t)
          BY <4>1, AppendProperties
        <5> QED
          BY <4>1, <5>1, LenProperties
      <4> HIDE DEF n
      <4>3. \A i \in 1 .. n : queries_replies[i].sequence < sequence - 1
        BY <1>0, <2>1, <4>2 DEF ListBelow
      <4>4. \A k \in 1 .. n + 1 : k \in 1 .. n \/ k = n + 1
        BY <4>2
      <4>5. \A k \in 1 .. n + 1 : queries_replies'[k].sequence < sequence
        BY <1>0, <1>1, <4>1, <4>2, <4>3, <4>4
      <4>6. ASSUME NEW k \in 1 .. n + 1, NEW l \in 1 .. n + 1, k < l
            PROVE  queries_replies'[k].sequence < queries_replies'[l].sequence
        <5>1. k \in 1 .. n
          BY <4>2, <4>6
        <5>2. CASE l \in 1 .. n
          BY <4>2, <4>6, <5>1, <5>2 DEF Increasing
        <5>3. CASE l = n + 1
          BY <4>1, <4>2, <4>3, <5>1, <5>3
        <5> QED
          BY <4>4, <5>2, <5>3
      <4> QED
        BY <2>1, <4>2, <4>5, <4>6 DEF ListBelow, Increasing
    <3> QED
      BY <1>7, <3>1, <3>2
  <2> QED
    BY <1>0, <2>2, <2>3, <2>4
<1>8. CASE Aside /\ ~\E t \in Callers : TakeSequence(t) \/ Send(t) \/ SendFails(t) \/ AppendNode(t)
  <2>1. sequence' = sequence /\ sequence_mutex' = sequence_mutex
    BY <1>0, <1>8 DEF Aside
  <2>2. MutexHeld'
    BY <1>8 DEF Aside, MutexHeld
  <2>3. TakenLast'
    BY <1>8, <2>1 DEF Aside, TakenLast, MutexHeld
  <2>4. ListBelow' /\ Increasing(queries_replies')
    BY <1>3, <1>8, <2>1 DEF ListBelow
  <2>5. WireBelow' /\ Increasing(Wire')
    <3>1. (\E t \in Callers : pc'[t] = "sending") => \E t \in Callers : pc[t] = "sending"
      BY <1>8 DEF Aside
    <3> QED
      BY <1>4, <1>8, <2>1, <3>1 DEF WireBelow
  <2> QED
    BY <1>0, <2>2, <2>3, <2>4, <2>5
<1> QED
  BY <1>0, <1>5, <1>6, <1>7, <1>8, MutexMoves

(* The list is in the order of the socket (eth32_internal.c:302-340,         *)
(* 882-912), which process_incoming takes  for granted: for any number of   *)
(* threads, as long as there are fewer calls than sequence numbers, because  *)
(* the mutex of the numbers is held until the node is in the list.           *)
THEOREM ListFollowsWire ==
  ASSUME BelowTheWrap
  PROVE  Spec => []ListInWireOrder
<1>1. OrderInv /\ [Next]_vars => OrderInv'
  BY OrderStep
<1>2. OrderInv => ListInWireOrder
  BY DEF OrderInv, ListInWireOrder, Increasing, Wire
<1>3. Spec => []OrderInv
  BY <1>1, OrderStart, PTL DEF Spec
<1> QED
  BY <1>2, <1>3, PTL

-----------------------------------------------------------------------------
(* The parts of the inductive invariant about questions and answers.         *)

(* Who asked what, from the query over the socket to the node.               *)
Asked == {"sending", "sent"} \cup InList
NumberIsOwn == \A t, u \in Callers :
  pc[t] \in Asked /\ pc[u] \in Asked /\ query[t].sequence = query[u].sequence => t = u
AskedBelow == \A t \in Callers : pc[t] \in Asked => query[t].sequence < sequence
AnswerIsOwn == \A t \in Callers : pc[t] \in Asked =>
  \A k \in DOMAIN Wire : Wire[k].sequence = query[t].sequence => Wire[k].asks = query[t].asks
NodeIsOwn == \A i \in DOMAIN queries_replies : ~queries_replies[i].abandoned =>
  /\ queries_replies[i].sequence = query[queries_replies[i].caller].sequence
  /\ queries_replies[i].received => queries_replies[i].reply = query[queries_replies[i].caller].asks
ReplyIsOwn == \A t \in Callers :
  /\ pc[t] # "leaving" => result[t].reply = <<>>
  /\ result[t].reply \in {<<>>, query[t].asks}
OwnInv == OrderInv /\ NumberIsOwn /\ AskedBelow /\ AnswerIsOwn /\ NodeIsOwn /\ ReplyIsOwn

LEMMA OwnStart == Init => OwnInv
<1> SUFFICES ASSUME Init PROVE OwnInv
  OBVIOUS
<1>1. /\ queries_replies = <<>> /\ \A t \in Callers : pc[t] = "idle" /\ result[t] = NoResult
  BY DEF Init
<1> QED
  BY <1>1, OrderStart DEF OwnInv, NumberIsOwn, AskedBelow, AnswerIsOwn, NodeIsOwn, ReplyIsOwn, Asked, InList, NoResult

(* Whoever waits for an answer keeps its query, and whoever takes a reply    *)
(* takes that of its node.                                                   *)
LEMMA QueriesKept ==
  ASSUME ListInv, [Next]_vars, NEW t \in Callers, ~TakeSequence(t)
  PROVE  /\ pc'[t] \in Asked => pc[t] \in Asked
         /\ pc[t] # "leaving" => query'[t] = query[t]
<1> USE DEF ListInv, HandleInv, Typed
<1>1. CASE ~\E u \in Callers : Caller(u)
  <2>1. query' = query /\ (pc' = pc \/ pc' = Broadcast(pc))
    BY <1>1 DEF Next, Owner, Acquire, AcquireFails, Unwind, Close, StopReader, JoinReader, Release, Answer,
         Disconnect, Reader, Receive, ProcessIncoming, ReaderEnds, ReaderDone, ReaderWakes, vars, callers
  <2> QED
    BY <2>1 DEF Broadcast, Asked, InList
<1>2. ASSUME NEW u \in Callers, Caller(u)
      PROVE  /\ pc'[t] \in Asked => pc[t] \in Asked
             /\ pc[t] # "leaving" => query'[t] = query[t]
  <2>1. CASE Begin(u) \/ Reference(u) \/ SetTimeout(u) \/ AskTimeout(u) \/ GetTimeout(u) \/ NoSequence(u) \/ SendFails(u)
    <3>1. query' = query /\ \E l \in Places \ Asked : pc' = [pc EXCEPT ![u] = l]
      BY <2>1 DEF Begin, Reference, SetTimeout, AskTimeout, GetTimeout, NoSequence, SendFails, Fail, Places, Asked, InList
    <3> QED
      BY <3>1
  <2>2. CASE Send(u) \/ AppendNode(u) \/ TimeOut(u)
    BY <2>2 DEF Send, AppendNode, TimeOut, Asked, InList
  <2>3. CASE Recheck(u)
    <3>1. query' = query /\ pc[u] \in Asked /\ \E l \in {"leaving", "waiting"} : pc' = [pc EXCEPT ![u] = l]
      BY <2>3 DEF Recheck, Fail, Asked, InList
    <3> QED
      BY <3>1
  <2>4. CASE Leave(u)
    BY <2>4 DEF Leave, Asked, InList, ListTyped
  <2>5. CASE TakeSequence(u)
    <3>1. u # t
      BY <2>5
    <3> QED
      BY <2>5, <3>1 DEF TakeSequence, ListTyped
  <2> QED
    BY <1>2, <2>1, <2>2, <2>3, <2>4, <2>5 DEF Caller
<1> QED
  BY <1>1, <1>2

LEMMA LeavingKeeps ==
  ASSUME ListInv, [Next]_vars, NEW t \in Callers, pc[t] = "leaving", pc'[t] = "leaving"
  PROVE  query'[t] = query[t]
<1> USE DEF ListInv, HandleInv, Typed
<1>1. CASE ~\E u \in Callers : Caller(u)
  BY <1>1 DEF Next, Owner, Acquire, AcquireFails, Unwind, Close, StopReader, JoinReader, Release, Answer,
       Disconnect, Reader, Receive, ReaderEnds, ReaderDone, ReaderWakes, vars, callers
<1>2. ASSUME NEW u \in Callers, Caller(u) PROVE query'[t] = query[t]
  <2>1. CASE Leave(u)
    <3>1. u # t
      BY <2>1 DEF Leave
    <3> QED
      BY <2>1, <3>1 DEF Leave, ListTyped
  <2>2. CASE TakeSequence(u)
    <3>1. u # t
      BY <2>2 DEF TakeSequence
    <3> QED
      BY <2>2, <3>1 DEF TakeSequence, ListTyped
  <2>3. CASE ~Leave(u) /\ ~TakeSequence(u)
    BY <1>2, <2>3 DEF Caller, Begin, Reference, SetTimeout, AskTimeout, GetTimeout, NoSequence, Send, SendFails,
                      AppendNode, TimeOut, Recheck
  <2> QED
    BY <2>1, <2>2, <2>3
<1> QED
  BY <1>1, <1>2

LEMMA ResultsMove ==
  ASSUME ListInv, [Next]_vars, NEW t \in Callers
  PROVE  \/ result'[t].reply = result[t].reply /\ ~(pc[t] = "leaving" /\ pc'[t] # "leaving")
         \/ result'[t].reply = <<>>
         \/ /\ Recheck(t) /\ queries_replies[Mine(t)].received /\ pc'[t] = "leaving"
            /\ result'[t].reply = queries_replies[Mine(t)].reply
<1> USE DEF ListInv, HandleInv, Typed
<1>0. result \in [Callers -> Results]
  BY DEF ListTyped
<1>1. CASE ~\E u \in Callers : Caller(u)
  <2>1. result' = result /\ (pc' = pc \/ pc' = Broadcast(pc))
    BY <1>1 DEF Next, Owner, Acquire, AcquireFails, Unwind, Close, StopReader, JoinReader, Release, Answer,
         Disconnect, Reader, Receive, ProcessIncoming, ReaderEnds, ReaderDone, ReaderWakes, vars, callers
  <2> QED
    BY <2>1 DEF Broadcast
<1>2. ASSUME NEW u \in Callers, Caller(u)
      PROVE  \/ result'[t].reply = result[t].reply /\ ~(pc[t] = "leaving" /\ pc'[t] # "leaving")
             \/ result'[t].reply = <<>>
             \/ /\ Recheck(t) /\ queries_replies[Mine(t)].received /\ pc'[t] = "leaving"
                /\ result'[t].reply = queries_replies[Mine(t)].reply
  <2>1. CASE Begin(u) \/ Reference(u) \/ SetTimeout(u) \/ AskTimeout(u) \/ GetTimeout(u)
    BY <2>1 DEF Begin, Reference, SetTimeout, AskTimeout, GetTimeout
  <2>2. CASE TakeSequence(u) \/ Send(u) \/ AppendNode(u) \/ TimeOut(u)
    BY <2>2 DEF TakeSequence, Send, AppendNode, TimeOut
  <2>3. CASE NoSequence(u) \/ SendFails(u)
    <3>1. /\ \E e \in {"ETH_TIMEOUT", "ETH_NETWORK_ERROR", "ETH_CLOSING"} : Fail(u, e)
          /\ pc[u] # "leaving"
      BY <2>3 DEF NoSequence, SendFails, Check
    <3>2. result'[t].reply = result[t].reply
      BY <1>0, <3>1, ResultFacts DEF Fail
    <3> QED
      BY <3>1, <3>2 DEF Fail
  <2>4. CASE Recheck(u)
    <3>0. pc[u] \in {"woken", "late"}
      BY <2>4 DEF Recheck
    <3>1. CASE \E e \in {"ETH_TIMEOUT", "ETH_NETWORK_ERROR", "ETH_CLOSING"} : Fail(u, e)
      <4>1. result'[t].reply = result[t].reply
        BY <1>0, <3>1, ResultFacts DEF Fail
      <4> QED
        BY <3>0, <3>1, <4>1 DEF Fail
    <3>2. CASE result' = result /\ pc' = [pc EXCEPT ![u] = "waiting"]
      BY <3>0, <3>2
    <3>3. CASE /\ queries_replies[Mine(u)].received /\ pc' = [pc EXCEPT ![u] = "leaving"]
               /\ result' = [result EXCEPT ![u].reply = queries_replies[Mine(u)].reply]
      <4>1. queries_replies[Mine(u)].reply \in Requests
        BY <3>0, MineIsOpen, NodesTyped DEF InList
      <4>2. result'[u].reply = queries_replies[Mine(u)].reply /\ (u # t => result'[t] = result[t])
        BY <1>0, <3>3, <4>1, ResultFacts
      <4> QED
        BY <2>4, <3>3, <4>2
    <3>4. \/ \E e \in {"ETH_TIMEOUT", "ETH_NETWORK_ERROR", "ETH_CLOSING"} : Fail(u, e)
          \/ result' = result /\ pc' = [pc EXCEPT ![u] = "waiting"]
          \/ /\ queries_replies[Mine(u)].received /\ pc' = [pc EXCEPT ![u] = "leaving"]
             /\ result' = [result EXCEPT ![u].reply = queries_replies[Mine(u)].reply]
      BY <2>4 DEF Recheck, Check
    <3> QED
      BY <3>1, <3>2, <3>3, <3>4
  <2>5. CASE Leave(u)
    BY <1>0, <2>5 DEF Leave, NoResult
  <2> QED
    BY <1>2, <2>1, <2>2, <2>3, <2>4, <2>5 DEF Caller
<1> QED
  BY <1>1, <1>2

LEMMA OwnStep == BelowTheWrap /\ OwnInv /\ [Next]_vars => OwnInv'
<1> SUFFICES ASSUME BelowTheWrap, OwnInv, [Next]_vars PROVE OwnInv'
  OBVIOUS
<1>0. /\ OrderInv /\ OrderInv' /\ ListInv /\ ListInv' /\ ListTyped /\ CallsCounted
      /\ sequence \in Nat /\ pc \in [Callers -> Places] /\ query \in [Callers -> Queries]
      /\ \A t \in Callers : TakeSequence(t) => sequence' = sequence + 1
      /\ (~\E t \in Callers : TakeSequence(t)) => sequence' = sequence
  <2>1. OrderInv /\ OrderInv'
    BY OrderStep DEF OwnInv
  <2> QED
    BY <2>1, CallsStep DEF OrderInv, ListInv, ListTyped, HandleInv, Typed
<1>1. \A t \in Callers : query[t].sequence \in Nat /\ query[t].asks \in Requests
  BY <1>0 DEF Queries
<1>2. \A t \in Callers : ~TakeSequence(t) =>
        /\ pc'[t] \in Asked => pc[t] \in Asked /\ query'[t] = query[t]
        /\ pc[t] # "leaving" => query'[t] = query[t]
  <2>1. \A t \in Callers : pc[t] = "leaving" => pc[t] \notin Asked
    BY DEF Asked, InList
  <2> QED
    BY <1>0, <2>1, QueriesKept
<1>3. \A t \in Callers : TakeSequence(t) =>
        /\ pc[t] = "queueing" /\ query'[t].sequence = sequence /\ sequence' = sequence + 1
        /\ \A u \in Callers : u # t => query'[u] = query[u] /\ ~TakeSequence(u)
        /\ Wire' = Wire /\ queries_replies' = queries_replies /\ result' = result /\ pc'[t] = "sending"
  <2> SUFFICES ASSUME NEW t \in Callers, TakeSequence(t)
               PROVE  /\ pc[t] = "queueing" /\ query'[t].sequence = sequence /\ sequence' = sequence + 1
                      /\ \A u \in Callers : u # t => query'[u] = query[u] /\ ~TakeSequence(u)
                      /\ Wire' = Wire /\ queries_replies' = queries_replies /\ result' = result
                      /\ pc'[t] = "sending"
    OBVIOUS
  <2>1. /\ pc[t] = "queueing" /\ query' = [query EXCEPT ![t] = [sequence |-> sequence, asks |-> <<t, calls[t]>>]]
        /\ queries_replies' = queries_replies /\ result' = result /\ fromDevice' = fromDevice /\ toDevice' = toDevice
        /\ sequence_mutex' = t /\ pc' = [pc EXCEPT ![t] = "sending"]
    BY DEF TakeSequence, wire
  <2>2. \A u \in Callers : TakeSequence(u) => sequence_mutex' = u
    BY DEF TakeSequence
  <2> QED
    BY <1>0, <2>1, <2>2 DEF Wire
<1>4. NumberIsOwn' /\ AskedBelow'
  <2>1. \A t \in Callers : pc[t] \in Asked => query[t].sequence < sequence
    BY DEF OwnInv, AskedBelow
  <2>2. CASE \E v \in Callers : TakeSequence(v)
    <3>1. PICK v \in Callers : TakeSequence(v)
      BY <2>2
    <3>2. query'[v].sequence = sequence /\ sequence' = sequence + 1
      BY <1>3, <3>1
    <3>3. \A t \in Callers : t # v /\ pc'[t] \in Asked => pc[t] \in Asked /\ query'[t] = query[t]
      BY <1>2, <1>3, <3>1
    <3>4. \A t \in Callers : t # v /\ pc'[t] \in Asked => query'[t].sequence < sequence /\ query'[t].sequence \in Nat
      BY <1>1, <2>1, <3>3
    <3>5. AskedBelow'
      BY <1>0, <3>2, <3>4 DEF AskedBelow
    <3>6. NumberIsOwn'
      <4> SUFFICES ASSUME NEW t \in Callers, NEW u \in Callers, pc'[t] \in Asked, pc'[u] \in Asked,
                          query'[t].sequence = query'[u].sequence
                   PROVE  t = u
        BY DEF NumberIsOwn
      <4>1. CASE t # v /\ u # v
        BY <3>3, <4>1 DEF OwnInv, NumberIsOwn
      <4>2. CASE t # v /\ u = v
        BY <1>0, <3>2, <3>4, <4>2
      <4>3. CASE t = v /\ u # v
        BY <1>0, <3>2, <3>4, <4>3
      <4> QED
        BY <4>1, <4>2, <4>3
    <3> QED
      BY <3>5, <3>6
  <2>3. CASE ~\E v \in Callers : TakeSequence(v)
    <3>1. \A t \in Callers : pc'[t] \in Asked => pc[t] \in Asked /\ query'[t] = query[t]
      BY <1>2, <2>3
    <3> QED
      BY <1>0, <2>1, <2>3, <3>1 DEF OwnInv, NumberIsOwn, AskedBelow
  <2> QED
    BY <2>2, <2>3
<1>5. AnswerIsOwn'
  <2>0. /\ DOMAIN Wire = 1 .. Len(Wire) /\ Len(Wire) \in Nat
        /\ \A k \in DOMAIN Wire : Wire[k].sequence \in Nat /\ Wire[k].sequence < sequence
    BY <1>0, WireTyped DEF OrderInv, WireBelow
  <2>1. CASE \E v \in Callers : Send(v)
    <3>1. PICK v \in Callers : Send(v)
      BY <2>1
    <3>2. pc[v] \in Asked /\ pc'[v] \in Asked /\ query' = query /\ \A t \in Callers : pc'[t] \in Asked => pc[t] \in Asked
      BY <1>0, <3>1 DEF Send, Asked
    <3>3. CASE Wire' = Wire
      BY <3>2, <3>3 DEF OwnInv, AnswerIsOwn
    <3>4. CASE /\ DOMAIN Wire' = 1 .. Len(Wire) + 1
               /\ \A k \in 1 .. Len(Wire) : Wire'[k] = Wire[k]
               /\ Wire'[Len(Wire) + 1] = query[v]
      <4> SUFFICES ASSUME NEW t \in Callers, pc'[t] \in Asked, NEW k \in DOMAIN Wire',
                          Wire'[k].sequence = query'[t].sequence
                   PROVE  Wire'[k].asks = query'[t].asks
        BY DEF AnswerIsOwn
      <4>1. CASE k \in 1 .. Len(Wire)
        BY <2>0, <3>2, <3>4, <4>1 DEF OwnInv, AnswerIsOwn
      <4>2. CASE k = Len(Wire) + 1
        <5>1. t = v
          BY <3>2, <3>4, <4>2 DEF OwnInv, NumberIsOwn
        <5> QED
          BY <3>2, <3>4, <4>2, <5>1
      <4> QED
        BY <2>0, <3>4, <4>1, <4>2
    <3> QED
      BY <1>0, <3>1, <3>3, <3>4, WireGrows
  <2>2. CASE ~\E v \in Callers : Send(v)
    <3>1. \A k \in DOMAIN Wire' : \E i \in DOMAIN Wire : Wire'[k] = Wire[i]
      <4>1. PICK d \in {0, 1} : /\ DOMAIN Wire' = 1 .. Len(Wire) - d
                                /\ \A k \in DOMAIN Wire' : Wire'[k] = Wire[k + d]
        BY <1>0, <2>2, WireShifts
      <4>2. \A k \in DOMAIN Wire' : k + d \in DOMAIN Wire
        BY <2>0, <4>1
      <4> QED
        BY <4>1, <4>2
    <3> SUFFICES ASSUME NEW t \in Callers, pc'[t] \in Asked, NEW k \in DOMAIN Wire',
                        Wire'[k].sequence = query'[t].sequence
                 PROVE  Wire'[k].asks = query'[t].asks
      BY DEF AnswerIsOwn
    <3>2. PICK i \in DOMAIN Wire : Wire'[k] = Wire[i]
      BY <3>1
    <3>3. ~TakeSequence(t)
      BY <1>0, <1>3, <2>0, <3>2
    <3> QED
      BY <1>2, <3>2, <3>3 DEF OwnInv, AnswerIsOwn
  <2> QED
    BY <2>1, <2>2
<1>6. NodeIsOwn'
  <2>0. \A k \in DOMAIN queries_replies : ~queries_replies[k].abandoned =>
          /\ queries_replies[k].caller \in Callers
          /\ pc[queries_replies[k].caller] \in InList
    BY <1>0, NodesTyped DEF ListInv, OneOpenNode
  <2>a. \A t \in Callers : pc[t] \in InList => pc[t] \in Asked /\ query'[t] = query[t]
    BY <1>2, <1>3 DEF InList, Asked
  <2>1. CASE \E v \in Callers : AppendNode(v)
    <3>1. PICK v \in Callers : AppendNode(v)
      BY <2>1
    <3> DEFINE n == Len(queries_replies)
    <3>2. /\ queries_replies' = Append(queries_replies, Node(v)) /\ queries_replies \in Seq(Nodes)
          /\ Node(v) \in Nodes /\ Node(v).sequence = query[v].sequence /\ Node(v).caller = v /\ ~Node(v).received
          /\ query' = query
      BY <1>0, <3>1 DEF AppendNode, ListTyped, Nodes, Node, Queries, Requests
    <3>3. /\ DOMAIN queries_replies = 1 .. n /\ DOMAIN queries_replies' = 1 .. n + 1 /\ n \in Nat
          /\ queries_replies'[n + 1] = Node(v)
          /\ \A i \in 1 .. n : queries_replies'[i] = queries_replies[i]
      <4>1. /\ Len(queries_replies') = Len(queries_replies) + 1 /\ queries_replies' \in Seq(Nodes)
            /\ \A i \in 1 .. Len(queries_replies) : queries_replies'[i] = queries_replies[i]
            /\ queries_replies'[Len(queries_replies) + 1] = Node(v)
        BY <3>2, AppendProperties
      <4> QED
        BY <3>2, <4>1, LenProperties
    <3> HIDE DEF n
    <3>4. \A k \in 1 .. n + 1 : k \in 1 .. n \/ k = n + 1
      BY <3>3
    <3> QED
      BY <3>2, <3>3, <3>4 DEF OwnInv, NodeIsOwn
  <2>2. CASE ~\E v \in Callers : AppendNode(v)
    <3>1. PICK e : Descends(e)
      BY <1>0, <2>2, ListDescends
    <3> SUFFICES ASSUME NEW k \in DOMAIN queries_replies', ~queries_replies'[k].abandoned
                 PROVE  /\ queries_replies'[k].sequence = query'[queries_replies'[k].caller].sequence
                        /\ queries_replies'[k].received =>
                             queries_replies'[k].reply = query'[queries_replies'[k].caller].asks
      BY DEF NodeIsOwn
    <3> DEFINE old == queries_replies[e[k]]
               t == old.caller
    <3>2. /\ e[k] \in DOMAIN queries_replies /\ queries_replies'[k].caller = t
          /\ queries_replies'[k].sequence = old.sequence
          /\ ~old.abandoned
          /\ queries_replies'[k].received =>
               \/ old.received /\ queries_replies'[k].reply = old.reply
               \/ /\ Receive /\ fromDevice # <<>> /\ old.sequence = Head(fromDevice).sequence
                  /\ queries_replies'[k].reply = Head(fromDevice).asks
      BY <3>1 DEF Descends
    <3>3. /\ t \in Callers /\ pc[t] \in Asked /\ query'[t] = query[t]
          /\ old.sequence = query[t].sequence /\ (old.received => old.reply = query[t].asks)
      BY <2>0, <2>a, <3>2 DEF OwnInv, NodeIsOwn
    <3> HIDE DEF old, t
    <3>4. ASSUME fromDevice # <<>>, old.sequence = Head(fromDevice).sequence
          PROVE  Head(fromDevice).asks = query[t].asks
      <4>1. /\ fromDevice \in Seq(Queries) /\ toDevice \in Seq(Queries) /\ Len(fromDevice) \in Nat /\ Len(fromDevice) >= 1
            /\ Len(toDevice) \in Nat /\ Head(fromDevice) = fromDevice[1]
        BY <1>0, <3>4, LenProperties, EmptySeq DEF ListTyped
      <4>2. 1 \in DOMAIN Wire /\ Wire[1] = Head(fromDevice)
        <5>1. /\ Wire \in Seq(Queries) /\ Len(Wire) = Len(fromDevice) + Len(toDevice)
              /\ \A i \in 1 .. Len(fromDevice) + Len(toDevice) :
                   Wire[i] = IF i <= Len(fromDevice) THEN fromDevice[i] ELSE toDevice[i - Len(fromDevice)]
          BY <4>1, ConcatProperties DEF Wire
        <5> QED
          BY <4>1, <5>1, LenProperties
      <4> QED
        BY <3>3, <3>4, <4>2 DEF OwnInv, AnswerIsOwn
    <3> QED
      BY <3>2, <3>3, <3>4
  <2> QED
    BY <2>1, <2>2
<1>7. ReplyIsOwn'
  <2> SUFFICES ASSUME NEW t \in Callers
               PROVE  /\ pc'[t] # "leaving" => result'[t].reply = <<>>
                      /\ result'[t].reply \in {<<>>, query'[t].asks}
    BY DEF ReplyIsOwn
  <2>0. /\ pc[t] # "leaving" => result[t].reply = <<>>
        /\ result[t].reply \in {<<>>, query[t].asks}
    BY DEF OwnInv, ReplyIsOwn
  <2>1. CASE result'[t].reply = result[t].reply /\ ~(pc[t] = "leaving" /\ pc'[t] # "leaving")
    <3>1. CASE pc[t] # "leaving"
      BY <2>0, <2>1, <3>1
    <3>2. CASE pc[t] = "leaving"
      <4>1. ~TakeSequence(t) /\ pc'[t] = "leaving"
        BY <1>3, <2>1, <3>2
      <4>2. query'[t] = query[t]
        BY <1>0, <3>2, <4>1, LeavingKeeps
      <4> QED
        BY <2>0, <2>1, <4>1, <4>2
    <3> QED
      BY <3>1, <3>2
  <2>2. CASE result'[t].reply = <<>>
    BY <2>2
  <2>3. CASE /\ Recheck(t) /\ queries_replies[Mine(t)].received /\ pc'[t] = "leaving"
             /\ result'[t].reply = queries_replies[Mine(t)].reply
    <3>1. pc[t] \in InList /\ query'[t] = query[t]
      BY <2>3 DEF Recheck, InList
    <3>2. /\ Mine(t) \in DOMAIN queries_replies
          /\ queries_replies[Mine(t)].caller = t /\ ~queries_replies[Mine(t)].abandoned
      BY <1>0, <3>1, MineIsOpen DEF ListInv
    <3>3. queries_replies[Mine(t)].reply = query[t].asks
      BY <2>3, <3>2 DEF OwnInv, NodeIsOwn
    <3> QED
      BY <2>3, <3>1, <3>3
  <2> QED
    BY <1>0, <2>1, <2>2, <2>3, ResultsMove
<1> QED
  BY <1>0, <1>4, <1>5, <1>6, <1>7 DEF OwnInv

(* Replies go to their own queries (eth32_internal.c:302-380, 860-998):      *)
(* the invariant RepliesAreOwn holds for any number of threads and of        *)
(* queries under way, whatever was given up, answered late or dropped, as    *)
(* long as there are fewer calls than sequence numbers.                      *)
THEOREM RepliesFindTheirQueries ==
  ASSUME BelowTheWrap
  PROVE  Spec => []RepliesAreOwn
<1>1. OwnInv /\ [Next]_vars => OwnInv'
  BY OwnStep
<1>2. OwnInv => RepliesAreOwn
  BY DEF OwnInv, ReplyIsOwn, RepliesAreOwn
<1>3. Spec => []OwnInv
  BY <1>1, OwnStart, PTL DEF Spec
<1> QED
  BY <1>2, <1>3, PTL
=============================================================================
