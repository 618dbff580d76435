-------------------------- MODULE RecordStoreProofs --------------------------
(***************************************************************************)
(* Theorems about the write path of the data handler, for every set of     *)
(* records and tables, every capacity and every batch size.                *)
(***************************************************************************)
EXTENDS RecordStore, FiniteSetTheorems, SequenceTheorems, TLAPS

(* What SMT needs to know of the sequence operators the actions use. *)
LEMMA SeqFacts ==
  ASSUME NEW S, NEW s \in Seq(S)
  PROVE  /\ Len(s) \in Nat
         /\ \A e \in S : Append(s, e) \in Seq(S)
         /\ \A t \in Seq(S) : s \o t \in Seq(S)
         /\ s # <<>> => Head(s) \in S /\ Tail(s) \in Seq(S)
         /\ Range(s) \subseteq S
<1>1. Len(s) \in Nat
  BY LenProperties
<1>2. \A e \in S : Append(s, e) \in Seq(S)
  BY AppendProperties
<1>3. \A t \in Seq(S) : s \o t \in Seq(S)
  BY ConcatProperties
<1>4. s # <<>> => Head(s) \in S /\ Tail(s) \in Seq(S)
  BY HeadTailProperties
<1>5. Range(s) \subseteq S
  BY RangeOfSeq
<1> QED
  BY <1>1, <1>2, <1>3, <1>4, <1>5

-----------------------------------------------------------------------------
(* Type correctness *)

LEMMA InitType == Init => TypeOK
<1> SUFFICES ASSUME Init PROVE TypeOK
  OBVIOUS
<1>1. <<>> \in Seq(Data)
  BY EmptySeq
<1> QED
  BY <1>1 DEF Init, TypeOK, Channels, SenderStates, WriterStates

LEMMA NextType == TypeOK /\ [Next]_vars => TypeOK'
<1> SUFFICES ASSUME TypeOK, [Next]_vars PROVE TypeOK'
  OBVIOUS
<1> USE RecordsAssumption, BoundsAssumption, FailureAssumption
<1>1. ASSUME NEW d \in Data, WriteUnknown(d) PROVE TypeOK'
  BY <1>1 DEF TypeOK, WriteUnknown, Return, SenderStates
<1>2. ASSUME NEW d \in Data, CheckFull(d) PROVE TypeOK'
  BY <1>2 DEF TypeOK, CheckFull, Return, SenderStates
<1>3. ASSUME NEW d \in Data, Push(d) PROVE TypeOK'
  <2>1. DataBuffer' \in [RecordTables -> Seq(Data)]
    BY <1>3, SeqFacts DEF TypeOK, Push
  <2> QED
    BY <2>1, <1>3 DEF TypeOK, Push, Return, SenderStates
<1>4. ASSUME NEW d \in Data, WriteSynt(d) PROVE TypeOK'
  <2>0. \A id \in RecordTables : Append(table[id], d) \in Seq(Data)
    BY SeqFacts DEF TypeOK
  <2>1. table' \in [RecordTables -> Seq(Data)]
    BY <2>0, <1>4 DEF TypeOK, WriteSynt
  <2>2. sender' \in [Data -> SenderStates]
    BY <1>4 DEF TypeOK, WriteSynt, Return, SenderStates
  <2> QED
    BY <2>1, <2>2, <1>4 DEF TypeOK, WriteSynt
<1>5. ASSUME NEW id \in RecordTables, Receive(id) PROVE TypeOK'
  <2>1. DataBuffer[id] \in Seq(Data) /\ buffer[id] \in Seq(Data)
    BY DEF TypeOK
  <2>2. Tail(DataBuffer[id]) \in Seq(Data)
    BY <2>1, <1>5, SeqFacts DEF Receive
  <2>3. Append(buffer[id], Head(DataBuffer[id])) \in Seq(Data)
    BY <2>1, <1>5, SeqFacts DEF Receive
  <2>4. DataBuffer' \in [RecordTables -> Seq(Data)] /\ buffer' \in [RecordTables -> Seq(Data)]
    BY <2>2, <2>3, <1>5 DEF TypeOK, Receive
  <2> QED
    BY <2>4, <1>5 DEF TypeOK, Receive, MustWrite, WriterStates
<1>6. ASSUME NEW id \in RecordTables, IdleTimeout(id) PROVE TypeOK'
  BY <1>6 DEF TypeOK, IdleTimeout, WriterStates
<1>7. ASSUME NEW id \in RecordTables, WriteRange(id) PROVE TypeOK'
  <2>1. buffer[id] \in Seq(Data) /\ table[id] \in Seq(Data)
    BY DEF TypeOK
  <2>2. table[id] \o buffer[id] \in Seq(Data) /\ Range(buffer[id]) \subseteq Data
    BY <2>1, SeqFacts
  <2>3. table' \in [RecordTables -> Seq(Data)] /\ lost' \in SUBSET Data
    BY <2>2, <1>7 DEF TypeOK, WriteRange
  <2>4. <<>> \in Seq(Data)
    BY EmptySeq
  <2>5. buffer' \in [RecordTables -> Seq(Data)]
    BY <2>4, <1>7 DEF TypeOK, WriteRange, EmptyBatch
  <2>6. writer' \in [RecordTables -> WriterStates] /\ lapsed' \in [RecordTables -> BOOLEAN]
    BY <1>7 DEF TypeOK, WriteRange, WriterStates
  <2> QED
    BY <2>3, <2>5, <2>6, <1>7 DEF TypeOK, WriteRange
<1>8. ASSUME NEW id \in RecordTables, Elapse(id) PROVE TypeOK'
  BY <1>8 DEF TypeOK, Elapse
<1>9. CASE UNCHANGED vars
  BY <1>9 DEF TypeOK, vars
<1> QED
  BY <1>1, <1>2, <1>3, <1>4, <1>5, <1>6, <1>7, <1>8, <1>9
  DEF Next, SenderStep, WriterStep

(* In every reachable state each variable of the write path has its type:   *)
(* channels and batches hold records, and only tables that Init found have  *)
(* any (handler.go:180-198).                                                *)
THEOREM TypeCorrect == Spec => []TypeOK
BY InitType, NextType, PTL DEF Spec
-----------------------------------------------------------------------------
(* The size of a batch *)

LEMMA NextBounded == TypeOK /\ BatchBounded /\ [Next]_vars => BatchBounded'
<1> SUFFICES ASSUME TypeOK, BatchBounded, [Next]_vars, NEW id \in RecordTables
             PROVE  /\ Len(buffer'[id]) <= BATCH
                    /\ writer'[id] = "select" => Len(buffer'[id]) < BATCH
                    /\ writer'[id] # "select" => buffer'[id] # <<>>
  BY DEF BatchBounded
<1> USE BoundsAssumption
<1>0. buffer[id] \in Seq(Data) /\ Len(buffer[id]) \in Nat
  BY LenProperties DEF TypeOK
<1>1. ASSUME NEW d \in Data, SenderStep(d)
      PROVE  UNCHANGED <<buffer, writer>>
  BY <1>1 DEF SenderStep, WriteUnknown, CheckFull, Push, WriteSynt
<1>2. ASSUME NEW k \in RecordTables, Receive(k)
      PROVE  /\ k # id => UNCHANGED <<buffer[id], writer[id]>>
             /\ k = id => /\ writer[id] = "select"
                          /\ Len(buffer'[id]) = Len(buffer[id]) + 1
                          /\ buffer'[id] # <<>>
                          /\ writer'[id] = "select" => Len(buffer[id]) + 1 < BATCH
  <2>1. Head(DataBuffer[k]) \in Data
    BY <1>2, SeqFacts DEF TypeOK, Receive
  <2>2. k = id => /\ Len(buffer'[id]) = Len(buffer[id]) + 1
                  /\ buffer'[id] # <<>>
    BY <2>1, <1>0, <1>2, AppendProperties DEF TypeOK, Receive
  <2>3. k = id /\ writer'[id] = "select" => Len(buffer[id]) + 1 < BATCH
    BY <1>0, <1>2 DEF TypeOK, Receive, MustWrite
  <2> QED
    BY <2>2, <2>3, <1>2 DEF TypeOK, Receive, MustWrite
<1>3. ASSUME NEW k \in RecordTables, IdleTimeout(k)
      PROVE  /\ buffer' = buffer
             /\ k # id => writer'[id] = writer[id]
             /\ k = id => writer[id] = "select" /\ (writer'[id] # "select" => buffer[id] # <<>>)
  BY <1>3 DEF TypeOK, IdleTimeout
<1>4. ASSUME NEW k \in RecordTables, WriteRange(k)
      PROVE  /\ k # id => UNCHANGED <<buffer[id], writer[id]>>
             /\ k = id => buffer'[id] = <<>> /\ writer'[id] = "select"
  BY <1>4 DEF TypeOK, WriteRange, EmptyBatch
<1>5. ASSUME NEW k \in RecordTables, Elapse(k)
      PROVE  UNCHANGED <<buffer, writer>>
  BY <1>5 DEF Elapse
<1>6. CASE \E d \in Data : SenderStep(d)
  BY <1>1, <1>6 DEF BatchBounded
<1>7. CASE \E k \in RecordTables : Receive(k)
  <2>1. PICK k \in RecordTables : Receive(k)
    BY <1>7
  <2>2. CASE k # id
    BY <2>1, <2>2, <1>2 DEF BatchBounded
  <2>3. CASE k = id
    <3>1. Len(buffer[id]) < BATCH
      BY <2>1, <2>3, <1>2 DEF BatchBounded
    <3> QED
      BY <2>1, <2>3, <3>1, <1>0, <1>2
  <2> QED
    BY <2>2, <2>3
<1>8. CASE \E k \in RecordTables : IdleTimeout(k)
  BY <1>0, <1>3, <1>8 DEF BatchBounded
<1>9. CASE \E k \in RecordTables : WriteRange(k)
  <2>1. Len(<<>>) = 0
    OBVIOUS
  <2> QED
    BY <2>1, <1>0, <1>4, <1>9 DEF BatchBounded
<1>10. CASE \E k \in RecordTables : Elapse(k)
  BY <1>5, <1>10 DEF BatchBounded
<1>11. CASE UNCHANGED vars
  BY <1>11 DEF BatchBounded, vars
<1> QED
  BY <1>6, <1>7, <1>8, <1>9, <1>10, <1>11 DEF Next, WriterStep

(* A batch never holds more than BATCH records, so one failed INSERT never  *)
(* drops more than that many, however the receives, the idle timer and slow *)
(* writes interleave (handler.go:595-624).                                  *)
THEOREM BatchStaysBounded == Spec => []BatchBounded
<1>1. Init => BatchBounded
  BY BoundsAssumption DEF Init, BatchBounded
<1> QED
  BY <1>1, NextBounded, TypeCorrect, PTL DEF Spec
-----------------------------------------------------------------------------
(* Ranges and injectivity of the sequences the actions build *)

LEMMA AppendRange ==
  ASSUME NEW S, NEW s \in Seq(S), NEW e \in S
  PROVE  /\ Range(Append(s, e)) = Range(s) \cup {e}
         /\ IsInjective(s) /\ e \notin Range(s) => IsInjective(Append(s, e))
<1>1. /\ Append(s, e) \in Seq(S)
      /\ Len(Append(s, e)) = Len(s) + 1
      /\ \A i \in 1 .. Len(s) : Append(s, e)[i] = s[i]
      /\ Append(s, e)[Len(s) + 1] = e
  BY AppendProperties
<1>2. Len(s) \in Nat /\ DOMAIN s = 1 .. Len(s) /\ DOMAIN Append(s, e) = 1 .. Len(s) + 1
  BY <1>1, LenProperties
<1>3. Range(Append(s, e)) = Range(s) \cup {e}
  BY <1>1, <1>2 DEF Range
<1>4. IsInjective(s) /\ e \notin Range(s) => IsInjective(Append(s, e))
  BY <1>1, <1>2 DEF Range, IsInjective
<1> QED
  BY <1>3, <1>4

LEMMA TailRange ==
  ASSUME NEW S, NEW s \in Seq(S), s # <<>>
  PROVE  /\ Range(s) = {Head(s)} \cup Range(Tail(s))
         /\ IsInjective(s) => IsInjective(Tail(s)) /\ Head(s) \notin Range(Tail(s))
<1>1. /\ Tail(s) \in Seq(S)
      /\ Len(Tail(s)) = Len(s) - 1
      /\ \A i \in 1 .. Len(Tail(s)) : Tail(s)[i] = s[i + 1]
  BY HeadTailProperties
<1>2. Len(s) \in Nat \ {0} /\ DOMAIN s = 1 .. Len(s) /\ DOMAIN Tail(s) = 1 .. Len(s) - 1
  BY <1>1, LenProperties, EmptySeq
<1>3. Head(s) = s[1]
  OBVIOUS
<1>4. Range(s) \subseteq {Head(s)} \cup Range(Tail(s))
  <2> SUFFICES ASSUME NEW i \in 1 .. Len(s), i # 1
               PROVE  \E j \in DOMAIN Tail(s) : Tail(s)[j] = s[i]
    BY <1>2, <1>3 DEF Range
  <2>1. i - 1 \in 1 .. Len(Tail(s)) /\ (i - 1) + 1 = i
    BY <1>1, <1>2
  <2> QED
    BY <2>1, <1>1, <1>2
<1>5. {Head(s)} \cup Range(Tail(s)) \subseteq Range(s)
  BY <1>1, <1>2, <1>3 DEF Range
<1>6. IsInjective(s) => IsInjective(Tail(s)) /\ Head(s) \notin Range(Tail(s))
  BY <1>1, <1>2, <1>3, SMTT(30) DEF Range, IsInjective
<1> QED
  BY <1>4, <1>5, <1>6

LEMMA ConcatRange ==
  ASSUME NEW S, NEW s \in Seq(S), NEW t \in Seq(S)
  PROVE  /\ Range(s \o t) = Range(s) \cup Range(t)
         /\ IsInjective(s) /\ IsInjective(t) /\ Range(s) \cap Range(t) = {}
              => IsInjective(s \o t)
<1>1. Range(s \o t) = Range(s) \cup Range(t)
  BY RangeConcatenation
<1>2. /\ s \o t \in Seq(S)
      /\ Len(s \o t) = Len(s) + Len(t)
      /\ \A i \in 1 .. Len(s) + Len(t) : (s \o t)[i] = IF i <= Len(s) THEN s[i] ELSE t[i - Len(s)]
  BY ConcatProperties
<1>3. /\ Len(s) \in Nat /\ DOMAIN s = 1 .. Len(s)
      /\ Len(t) \in Nat /\ DOMAIN t = 1 .. Len(t)
      /\ DOMAIN (s \o t) = 1 .. Len(s) + Len(t)
  BY <1>2, LenProperties
<1>4. ASSUME IsInjective(s), IsInjective(t), Range(s) \cap Range(t) = {}
      PROVE  IsInjective(s \o t)
  <2> SUFFICES ASSUME NEW i \in 1 .. Len(s) + Len(t), NEW j \in 1 .. Len(s) + Len(t),
                      (s \o t)[i] = (s \o t)[j]
               PROVE  i = j
    BY <1>3 DEF IsInjective
  <2>1. CASE i <= Len(s) /\ j <= Len(s)
    BY <2>1, <1>2, <1>3, <1>4 DEF IsInjective
  <2>2. CASE i > Len(s) /\ j > Len(s)
    <3>1. i - Len(s) \in DOMAIN t /\ j - Len(s) \in DOMAIN t
      BY <2>2, <1>3
    <3>2. t[i - Len(s)] = t[j - Len(s)]
      BY <2>2, <1>2, <1>3
    <3>3. i - Len(s) = j - Len(s)
      BY <3>1, <3>2, <1>4 DEF IsInjective
    <3> QED
      BY <3>3, <1>3
  <2>3. \A m \in 1 .. Len(s), n \in 1 .. Len(s) + Len(t) :
          n > Len(s) => (s \o t)[m] # (s \o t)[n]
    <3> SUFFICES ASSUME NEW m \in 1 .. Len(s), NEW n \in 1 .. Len(s) + Len(t), n > Len(s)
                 PROVE  (s \o t)[m] # (s \o t)[n]
      OBVIOUS
    <3>1. (s \o t)[m] \in Range(s)
      BY <1>2, <1>3, SMTT(30) DEF Range
    <3>2. n - Len(s) \in DOMAIN t /\ (s \o t)[n] = t[n - Len(s)]
      BY <1>2, <1>3
    <3>3. (s \o t)[n] \in Range(t)
      BY <3>2 DEF Range
    <3> QED
      BY <3>1, <3>3, <1>4
  <2> QED
    BY <2>1, <2>2, <2>3, <1>3
<1> QED
  BY <1>1, <1>4

LEMMA EmptyRange == Range(<<>>) = {} /\ IsInjective(<<>>)
BY DEF Range, IsInjective
-----------------------------------------------------------------------------
(* Every record is in one place *)

(* A call that returns without the record having been taken. *)
LEMMA NotTaken ==
  ASSUME TypeOK, EachRecordInOnePlace,
         UNCHANGED <<DataBuffer, buffer, table, lost>>,
         \A d \in Data :
           \/ sender'[d] = sender[d]
           \/ /\ sender[d] \notin {"buffered", "stored"}
              /\ sender'[d] \notin {"buffered", "stored"}
              /\ sender'[d] = "pushing" => IdOf[d] \in RecordTables
  PROVE  EachRecordInOnePlace'
<1>1. \A id : Held(id)' = Held(id)
  BY DEF Held
<1>2. NoRepeats'
  BY <1>1 DEF EachRecordInOnePlace, NoRepeats
<1>3. NoOverlap'
  BY <1>1 DEF EachRecordInOnePlace, NoOverlap
<1>4. Conserved'
  BY <1>1 DEF EachRecordInOnePlace, Conserved
<1>5. NoNilPush'
  BY DEF EachRecordInOnePlace, NoNilPush
<1> QED
  BY <1>2, <1>3, <1>4, <1>5 DEF EachRecordInOnePlace

LEMMA PushOnePlace ==
  ASSUME TypeOK, EachRecordInOnePlace, NEW d \in Data, Push(d)
  PROVE  EachRecordInOnePlace'
<1> DEFINE k == IdOf[d]
<1>1. k \in RecordTables /\ d \in RecordsOf(k)
  BY DEF EachRecordInOnePlace, NoNilPush, Push, RecordsOf
<1>2. d \notin lost /\ d \notin Held(k)
  BY <1>1 DEF EachRecordInOnePlace, Conserved, Push
<1>3. DataBuffer[k] \in Seq(Data) /\ DataBuffer'[k] = Append(DataBuffer[k], d)
  BY <1>1 DEF TypeOK, Push
<1>4. /\ Range(DataBuffer'[k]) = Range(DataBuffer[k]) \cup {d}
      /\ IsInjective(DataBuffer[k]) => IsInjective(DataBuffer'[k])
  BY <1>2, <1>3, AppendRange DEF Held
<1>5. \A id \in RecordTables : id # k => DataBuffer'[id] = DataBuffer[id]
  BY DEF TypeOK, Push
<1>6. UNCHANGED <<buffer, table, lost>>
  BY DEF Push
<1>7. /\ Held(k)' = Held(k) \cup {d}
      /\ \A id \in RecordTables : id # k => Held(id)' = Held(id)
  BY <1>4, <1>5, <1>6 DEF Held
<1>8. NoRepeats'
  <2> SUFFICES ASSUME NEW id \in RecordTables
               PROVE  /\ Held(id)' \subseteq RecordsOf(id)
                      /\ IsInjective(DataBuffer'[id])
                      /\ IsInjective(buffer'[id])
                      /\ IsInjective(table'[id])
    BY DEF NoRepeats, RecordsOf
  <2>1. CASE id = k
    BY <2>1, <1>1, <1>4, <1>6, <1>7 DEF EachRecordInOnePlace, NoRepeats
  <2>2. CASE id # k
    BY <2>2, <1>5, <1>6, <1>7 DEF EachRecordInOnePlace, NoRepeats
  <2> QED
    BY <2>1, <2>2
<1>9. NoOverlap'
  <2> SUFFICES ASSUME NEW id \in RecordTables
               PROVE  /\ Range(DataBuffer'[id]) \cap Range(buffer'[id]) = {}
                      /\ Range(DataBuffer'[id]) \cap Range(table'[id]) = {}
                      /\ Range(buffer'[id]) \cap Range(table'[id]) = {}
                      /\ lost' \cap Held(id)' = {}
    BY DEF NoOverlap
  <2>1. CASE id = k
    BY <2>1, <1>1, <1>2, <1>4, <1>6, <1>7 DEF EachRecordInOnePlace, NoOverlap, Held
  <2>2. CASE id # k
    BY <2>2, <1>5, <1>6, <1>7 DEF EachRecordInOnePlace, NoOverlap
  <2> QED
    BY <2>1, <2>2
<1>10. sender' = [sender EXCEPT ![d] = "buffered"]
  BY DEF Push, Return
<1>11. Conserved'
  <2> SUFFICES ASSUME NEW e \in Data
               PROVE  sender'[e] \in {"buffered", "stored"} <=>
                        e \in lost \/ (IdOf[e] \in RecordTables /\ e \in Held(IdOf[e])')
    BY <1>6 DEF Conserved
  <2>1. CASE e = d
    BY <2>1, <1>1, <1>7, <1>10 DEF TypeOK
  <2>2. CASE e # d
    <3>1. IdOf[e] \in RecordTables => (e \in Held(IdOf[e])' <=> e \in Held(IdOf[e]))
      BY <2>2, <1>7
    <3>2. sender'[e] = sender[e]
      BY <2>2, <1>10 DEF TypeOK
    <3> QED
      BY <3>1, <3>2 DEF EachRecordInOnePlace, Conserved
  <2> QED
    BY <2>1, <2>2
<1>12. NoNilPush'
  BY <1>10 DEF TypeOK, EachRecordInOnePlace, NoNilPush
<1> QED
  BY <1>8, <1>9, <1>11, <1>12 DEF EachRecordInOnePlace
LEMMA WriteSyntOnePlace ==
  ASSUME TypeOK, EachRecordInOnePlace, NEW d \in Data, WriteSynt(d)
  PROVE  EachRecordInOnePlace'
<1> DEFINE k == IdOf[d]
<1>0. UNCHANGED <<DataBuffer, buffer, lost>>
  BY DEF WriteSynt
<1>1. CASE UNCHANGED table /\ (Return(d, "unknown") \/ Return(d, "failed"))
  BY <1>0, <1>1, NotTaken DEF TypeOK, WriteSynt, Return
<1>2. ASSUME k \in RecordTables,
             table' = [table EXCEPT ![k] = Append(@, d)],
             sender' = [sender EXCEPT ![d] = "stored"]
      PROVE  EachRecordInOnePlace'
  <2>1. d \in RecordsOf(k) /\ d \notin lost /\ d \notin Held(k)
    BY <1>2 DEF EachRecordInOnePlace, Conserved, WriteSynt, RecordsOf
  <2>2. table[k] \in Seq(Data) /\ table'[k] = Append(table[k], d)
    BY <1>2 DEF TypeOK
  <2>3. /\ Range(table'[k]) = Range(table[k]) \cup {d}
        /\ IsInjective(table[k]) => IsInjective(table'[k])
    BY <2>1, <2>2, AppendRange DEF Held
  <2>4. \A id \in RecordTables : id # k => table'[id] = table[id]
    BY <1>2 DEF TypeOK
  <2>5. /\ Held(k)' = Held(k) \cup {d}
        /\ \A id \in RecordTables : id # k => Held(id)' = Held(id)
    BY <1>0, <2>3, <2>4 DEF Held
  <2>6. NoRepeats'
    <3> SUFFICES ASSUME NEW id \in RecordTables
                 PROVE  /\ Held(id)' \subseteq RecordsOf(id)
                        /\ IsInjective(DataBuffer'[id])
                        /\ IsInjective(buffer'[id])
                        /\ IsInjective(table'[id])
      BY DEF NoRepeats, RecordsOf
    <3>1. CASE id = k
      BY <3>1, <1>0, <1>2, <2>1, <2>3, <2>5 DEF EachRecordInOnePlace, NoRepeats
    <3>2. CASE id # k
      BY <3>2, <1>0, <2>4, <2>5 DEF EachRecordInOnePlace, NoRepeats
    <3> QED
      BY <3>1, <3>2
  <2>7. NoOverlap'
    <3> SUFFICES ASSUME NEW id \in RecordTables
                 PROVE  /\ Range(DataBuffer'[id]) \cap Range(buffer'[id]) = {}
                        /\ Range(DataBuffer'[id]) \cap Range(table'[id]) = {}
                        /\ Range(buffer'[id]) \cap Range(table'[id]) = {}
                        /\ lost' \cap Held(id)' = {}
      BY DEF NoOverlap
    <3>1. CASE id = k
      <4>1. d \notin Range(DataBuffer[k]) /\ d \notin Range(buffer[k])
        BY <2>1 DEF Held
      <4>2. /\ Range(DataBuffer[k]) \cap Range(buffer[k]) = {}
            /\ Range(DataBuffer[k]) \cap Range(table[k]) = {}
            /\ Range(buffer[k]) \cap Range(table[k]) = {}
            /\ lost \cap Held(k) = {}
        BY <1>2 DEF EachRecordInOnePlace, NoOverlap
      <4>3. /\ Range(DataBuffer'[k]) \cap Range(table'[k]) = {}
            /\ Range(buffer'[k]) \cap Range(table'[k]) = {}
        BY <4>1, <4>2, <1>0, <2>3
      <4>4. lost' \cap Held(k)' = {}
        BY <4>2, <1>0, <2>1, <2>5
      <4> QED
        BY <3>1, <4>2, <4>3, <4>4, <1>0
    <3>2. CASE id # k
      BY <3>2, <1>0, <2>4, <2>5 DEF EachRecordInOnePlace, NoOverlap
    <3> QED
      BY <3>1, <3>2
  <2>8. Conserved'
    <3> SUFFICES ASSUME NEW e \in Data
                 PROVE  sender'[e] \in {"buffered", "stored"} <=>
                          e \in lost \/ (IdOf[e] \in RecordTables /\ e \in Held(IdOf[e])')
      BY <1>0 DEF Conserved
    <3>1. CASE e = d
      BY <3>1, <1>2, <2>5 DEF TypeOK
    <3>2. CASE e # d
      <4>1. IdOf[e] \in RecordTables => (e \in Held(IdOf[e])' <=> e \in Held(IdOf[e]))
        BY <3>2, <2>5
      <4>2. sender'[e] = sender[e]
        BY <3>2, <1>2 DEF TypeOK
      <4> QED
        BY <4>1, <4>2 DEF EachRecordInOnePlace, Conserved
    <3> QED
      BY <3>1, <3>2
  <2>9. NoNilPush'
    BY <1>2 DEF TypeOK, EachRecordInOnePlace, NoNilPush
  <2> QED
    BY <2>6, <2>7, <2>8, <2>9 DEF EachRecordInOnePlace
<1> QED
  BY <1>1, <1>2 DEF WriteSynt, Return

(* A record that moves between the places of one id changes nobody's state. *)
LEMMA Moved ==
  ASSUME TypeOK, EachRecordInOnePlace, NEW k \in RecordTables, UNCHANGED sender,
         \A id \in RecordTables : id # k =>
           UNCHANGED <<DataBuffer[id], buffer[id], table[id]>>,
         \A id \in RecordTables : id # k => lost' \cap Held(id) = lost \cap Held(id),
         IsInjective(DataBuffer'[k]), IsInjective(buffer'[k]), IsInjective(table'[k]),
         Range(DataBuffer'[k]) \cap Range(buffer'[k]) = {},
         Range(DataBuffer'[k]) \cap Range(table'[k]) = {},
         Range(buffer'[k]) \cap Range(table'[k]) = {},
         lost' \cap Held(k)' = {},
         lost \subseteq lost',
         Held(k)' \subseteq Held(k),
         Held(k) \cup lost = Held(k)' \cup lost'
  PROVE  EachRecordInOnePlace'
<1>1. \A id \in RecordTables : id # k => Held(id)' = Held(id)
  BY DEF Held
<1>2. NoRepeats'
  <2> SUFFICES ASSUME NEW id \in RecordTables
               PROVE  /\ Held(id)' \subseteq RecordsOf(id)
                      /\ IsInjective(DataBuffer'[id])
                      /\ IsInjective(buffer'[id])
                      /\ IsInjective(table'[id])
    BY DEF NoRepeats, RecordsOf
  <2>1. CASE id = k
    BY <2>1 DEF EachRecordInOnePlace, NoRepeats
  <2>2. CASE id # k
    BY <2>2, <1>1 DEF EachRecordInOnePlace, NoRepeats
  <2> QED
    BY <2>1, <2>2
<1>3. NoOverlap'
  <2> SUFFICES ASSUME NEW id \in RecordTables
               PROVE  /\ Range(DataBuffer'[id]) \cap Range(buffer'[id]) = {}
                      /\ Range(DataBuffer'[id]) \cap Range(table'[id]) = {}
                      /\ Range(buffer'[id]) \cap Range(table'[id]) = {}
                      /\ lost' \cap Held(id)' = {}
    BY DEF NoOverlap
  <2>1. CASE id = k
    BY <2>1
  <2>2. CASE id # k
    BY <2>2, <1>1 DEF EachRecordInOnePlace, NoOverlap
  <2> QED
    BY <2>1, <2>2
<1>4. Conserved'
  <2> SUFFICES ASSUME NEW e \in Data
               PROVE  (e \in lost' \/ (IdOf[e] \in RecordTables /\ e \in Held(IdOf[e])'))
                        <=> (e \in lost \/ (IdOf[e] \in RecordTables /\ e \in Held(IdOf[e])))
    BY DEF EachRecordInOnePlace, Conserved
  <2>1. CASE IdOf[e] = k
    BY <2>1
  <2>2. CASE IdOf[e] # k
    <3>1. e \notin Held(k)
      BY <2>2 DEF EachRecordInOnePlace, NoRepeats, RecordsOf
    <3>2. e \in lost' <=> e \in lost
      BY <3>1
    <3> QED
      BY <2>2, <3>2, <1>1
  <2> QED
    BY <2>1, <2>2
<1>5. NoNilPush'
  BY DEF EachRecordInOnePlace, NoNilPush
<1> QED
  BY <1>2, <1>3, <1>4, <1>5 DEF EachRecordInOnePlace

LEMMA ReceiveOnePlace ==
  ASSUME TypeOK, EachRecordInOnePlace, NEW k \in RecordTables, Receive(k)
  PROVE  EachRecordInOnePlace'
<1> DEFINE h == Head(DataBuffer[k])
<1>1. /\ DataBuffer[k] \in Seq(Data) /\ DataBuffer[k] # <<>>
      /\ buffer[k] \in Seq(Data)
      /\ h \in Data
  BY SeqFacts DEF TypeOK, Receive
<1>2. DataBuffer'[k] = Tail(DataBuffer[k]) /\ buffer'[k] = Append(buffer[k], h)
  BY DEF TypeOK, Receive
<1>3. UNCHANGED <<sender, table, lost>>
  BY DEF Receive
<1>4. \A id \in RecordTables : id # k => UNCHANGED <<DataBuffer[id], buffer[id], table[id]>>
  BY <1>3 DEF TypeOK, Receive
<1>5. /\ IsInjective(DataBuffer[k]) /\ IsInjective(buffer[k]) /\ IsInjective(table[k])
      /\ Range(DataBuffer[k]) \cap Range(buffer[k]) = {}
      /\ Range(DataBuffer[k]) \cap Range(table[k]) = {}
      /\ Range(buffer[k]) \cap Range(table[k]) = {}
      /\ lost \cap Held(k) = {}
  BY DEF EachRecordInOnePlace, NoRepeats, NoOverlap
<1>6. /\ Range(DataBuffer[k]) = {h} \cup Range(DataBuffer'[k])
      /\ IsInjective(DataBuffer'[k]) /\ h \notin Range(DataBuffer'[k])
  BY <1>1, <1>2, <1>5, TailRange
<1>7. Range(buffer'[k]) = Range(buffer[k]) \cup {h} /\ IsInjective(buffer'[k])
  BY <1>1, <1>2, <1>5, <1>6, AppendRange
<1>8. Held(k)' = Held(k)
  BY <1>3, <1>6, <1>7 DEF Held
<1>9. /\ Range(DataBuffer'[k]) \cap Range(buffer'[k]) = {}
      /\ Range(DataBuffer'[k]) \cap Range(table'[k]) = {}
      /\ Range(buffer'[k]) \cap Range(table'[k]) = {}
  BY <1>3, <1>5, <1>6, <1>7
<1> QED
  BY <1>3, <1>4, <1>5, <1>6, <1>7, <1>8, <1>9, Moved

LEMMA WriteRangeOnePlace ==
  ASSUME TypeOK, EachRecordInOnePlace, NEW k \in RecordTables, WriteRange(k)
  PROVE  EachRecordInOnePlace'
<1>1. buffer[k] \in Seq(Data) /\ table[k] \in Seq(Data)
  BY DEF TypeOK
<1>2. UNCHANGED <<sender, DataBuffer>> /\ buffer'[k] = <<>>
  BY DEF TypeOK, WriteRange, EmptyBatch
<1>3. \A id \in RecordTables : id # k => UNCHANGED <<DataBuffer[id], buffer[id], table[id]>>
  BY DEF TypeOK, WriteRange, EmptyBatch
<1>4. /\ IsInjective(DataBuffer[k]) /\ IsInjective(buffer[k]) /\ IsInjective(table[k])
      /\ Range(DataBuffer[k]) \cap Range(buffer[k]) = {}
      /\ Range(DataBuffer[k]) \cap Range(table[k]) = {}
      /\ Range(buffer[k]) \cap Range(table[k]) = {}
      /\ lost \cap Held(k) = {}
  BY DEF EachRecordInOnePlace, NoRepeats, NoOverlap
<1>5. Range(buffer'[k]) = {} /\ IsInjective(buffer'[k])
  BY <1>2, EmptyRange
<1>6. CASE table' = [table EXCEPT ![k] = @ \o buffer[k]] /\ UNCHANGED lost
  <2>1. table'[k] = table[k] \o buffer[k]
    BY <1>6 DEF TypeOK
  <2>2. /\ Range(table'[k]) = Range(table[k]) \cup Range(buffer[k])
        /\ IsInjective(table'[k])
    BY <2>1, <1>1, <1>4, ConcatRange
  <2>3. Held(k)' = Held(k)
    BY <1>2, <1>5, <2>2 DEF Held
  <2>4. /\ Range(DataBuffer'[k]) \cap Range(buffer'[k]) = {}
        /\ Range(DataBuffer'[k]) \cap Range(table'[k]) = {}
        /\ Range(buffer'[k]) \cap Range(table'[k]) = {}
        /\ lost' \cap Held(k)' = {}
    BY <1>2, <1>4, <1>5, <1>6, <2>2, <2>3
  <2> QED
    BY <1>2, <1>3, <1>4, <1>5, <1>6, <2>2, <2>3, <2>4, Moved
<1>7. CASE lost' = lost \cup Range(buffer[k]) /\ UNCHANGED table
  <2>1. Held(k) = Held(k)' \cup Range(buffer[k])
    BY <1>2, <1>5, <1>7 DEF Held
  <2>2. \A id \in RecordTables : id # k => lost' \cap Held(id) = lost \cap Held(id)
    <3> SUFFICES ASSUME NEW id \in RecordTables, id # k
                 PROVE  Range(buffer[k]) \cap Held(id) = {}
      BY <1>7
    <3>1. Range(buffer[k]) \subseteq RecordsOf(k) /\ Held(id) \subseteq RecordsOf(id)
      BY DEF EachRecordInOnePlace, NoRepeats, Held
    <3> QED
      BY <3>1 DEF RecordsOf
  <2>3. /\ Range(DataBuffer'[k]) \cap Range(buffer'[k]) = {}
        /\ Range(DataBuffer'[k]) \cap Range(table'[k]) = {}
        /\ Range(buffer'[k]) \cap Range(table'[k]) = {}
    BY <1>2, <1>4, <1>5, <1>7
  <2>4. lost' \cap Held(k)' = {}
    BY <1>2, <1>4, <1>5, <1>7 DEF Held
  <2> QED
    BY <1>2, <1>3, <1>4, <1>5, <1>7, <2>1, <2>2, <2>3, <2>4, Moved
<1> QED
  BY <1>6, <1>7 DEF WriteRange

LEMMA NextOnePlace == TypeOK /\ EachRecordInOnePlace /\ [Next]_vars => EachRecordInOnePlace'
<1> SUFFICES ASSUME TypeOK, EachRecordInOnePlace, [Next]_vars PROVE EachRecordInOnePlace'
  OBVIOUS
<1>1. ASSUME NEW d \in Data, WriteUnknown(d) PROVE EachRecordInOnePlace'
  BY <1>1, NotTaken DEF WriteUnknown, Return, TypeOK
<1>2. ASSUME NEW d \in Data, CheckFull(d) PROVE EachRecordInOnePlace'
  BY <1>2, NotTaken DEF CheckFull, Return, TypeOK
<1>3. ASSUME UNCHANGED <<sender, DataBuffer, buffer, table, lost>> PROVE EachRecordInOnePlace'
  BY <1>3, NotTaken
<1> QED
  BY <1>1, <1>2, <1>3, PushOnePlace, WriteSyntOnePlace, ReceiveOnePlace, WriteRangeOnePlace
  DEF Next, SenderStep, WriterStep, IdleTimeout, Elapse, vars

(* No row is ever changed or removed, and what a step adds to a table is    *)
(* the writer's whole batch, which it then forgets, or the one record of a  *)
(* WriteSynt: handler.go:213-340, 605-620.                                  *)
THEOREM StoredWhole == Spec => WholeBatches
<1> DEFINE Whole(id) ==
      \/ table'[id] = table[id]
      \/ table'[id] = table[id] \o buffer[id] /\ buffer'[id] = <<>>
      \/ \E d \in DirectWriters : table'[id] = Append(table[id], d)
<1>1. ASSUME TypeOK, NEW id \in RecordTables, NEW d \in Data, SenderStep(d) PROVE Whole(id)
  <2>1. CASE WriteSynt(d) /\ IdOf[d] = id
    BY <1>1, <2>1 DEF TypeOK, WriteSynt
  <2>2. CASE WriteSynt(d) /\ IdOf[d] # id
    BY <1>1, <2>2 DEF TypeOK, WriteSynt
  <2>3. CASE WriteUnknown(d) \/ CheckFull(d) \/ Push(d)
    BY <2>3 DEF WriteUnknown, CheckFull, Push
  <2> QED
    BY <1>1, <2>1, <2>2, <2>3 DEF SenderStep
<1>2. ASSUME TypeOK, NEW id \in RecordTables, NEW k \in RecordTables, WriteRange(k) PROVE Whole(id)
  BY <1>2 DEF TypeOK, WriteRange, EmptyBatch
<1>3. ASSUME NEW id \in RecordTables, UNCHANGED table PROVE Whole(id)
  BY <1>3
<1>4. TypeOK /\ [Next]_vars => [\A id \in RecordTables : Whole(id)]_vars
  <2> SUFFICES ASSUME TypeOK, Next, NEW id \in RecordTables PROVE Whole(id)
    OBVIOUS
  <2>1. CASE \E d \in Data : SenderStep(d)
    BY <1>1, <2>1
  <2>2. CASE \E k \in RecordTables : Receive(k) \/ IdleTimeout(k) \/ Elapse(k)
    BY <1>3, <2>2 DEF Receive, IdleTimeout, Elapse
  <2>3. CASE \E k \in RecordTables : WriteRange(k)
    BY <1>2, <2>3
  <2> QED
    BY <2>1, <2>2, <2>3 DEF Next, WriterStep
<1> QED
  BY <1>4, TypeCorrect, PTL DEF Spec, WholeBatches

(* A record the handler accepted is in exactly one of channel, batch, table *)
(* and failed write, exactly once, and no other record is in any of them:   *)
(* nothing is stored twice and nothing vanishes silently, whatever the      *)
(* interleaving of callers and handleData goroutines (handler.go:577-624).  *)
THEOREM EveryRecordInOnePlace == Spec => []EachRecordInOnePlace
<1>1. Init => EachRecordInOnePlace
  <2> SUFFICES ASSUME Init PROVE EachRecordInOnePlace
    OBVIOUS
  <2>1. \A id \in RecordTables :
          DataBuffer[id] = <<>> /\ buffer[id] = <<>> /\ table[id] = <<>> /\ Held(id) = {}
    BY EmptyRange DEF Init, Channels, Held
  <2>2. NoRepeats /\ NoOverlap
    BY <2>1, EmptyRange DEF NoRepeats, NoOverlap
  <2>3. Conserved /\ NoNilPush
    BY <2>1 DEF Init, Conserved, NoNilPush
  <2> QED
    BY <2>2, <2>3 DEF EachRecordInOnePlace
<1> QED
  BY <1>1, NextOnePlace, TypeCorrect, PTL DEF Spec
-----------------------------------------------------------------------------
(* What a failed write loses                                                 *)

(* The records of an id that are lost, and those of them that could not be   *)
(* stored.                                                                   *)
Gone(L, id) == L \cap RecordsOf(id)
Bad(L, id) == {d \in Gone(L, id) : ~Storable(d)}
LossInv == IsFiniteSet(lost) /\ LossIsLocal

(* A sequence has at most as many elements as positions.                     *)
LEMMA RangeIsSmall ==
  ASSUME NEW S, NEW s \in Seq(S)
  PROVE  IsFiniteSet(Range(s)) /\ Cardinality(Range(s)) \in Nat /\ Cardinality(Range(s)) <= Len(s)
<1>1. Len(s) \in Nat /\ DOMAIN s = 1 .. Len(s) /\ s \in [1 .. Len(s) -> S]
  BY LenProperties
<1>2. s \in Surjection(1 .. Len(s), Range(s))
  BY <1>1 DEF Surjection, Range
<1>3. IsFiniteSet(1 .. Len(s)) /\ Cardinality(1 .. Len(s)) = Len(s)
  BY <1>1, FS_Interval, SMTT(30)
<1>4. IsFiniteSet(Range(s)) /\ Cardinality(Range(s)) <= Len(s)
  BY <1>2, <1>3, FS_Surjection
<1> QED
  BY <1>4, FS_CardinalityType

LEMMA DisjointUnion ==
  ASSUME NEW S, NEW T, IsFiniteSet(S), IsFiniteSet(T), S \cap T = {}
  PROVE  /\ IsFiniteSet(S \cup T) /\ Cardinality(S) \in Nat /\ Cardinality(T) \in Nat
         /\ Cardinality(S \cup T) = Cardinality(S) + Cardinality(T)
<1>1. Cardinality(S \cap T) = 0
  BY FS_EmptySet
<1>2. IsFiniteSet(S \cup T) /\ Cardinality(S \cup T) = Cardinality(S) + Cardinality(T) - Cardinality(S \cap T)
  BY FS_Union
<1>3. Cardinality(S) \in Nat /\ Cardinality(T) \in Nat
  BY FS_CardinalityType
<1> QED
  BY <1>1, <1>2, <1>3

(* One record more that could not be stored pays for a batch.                *)
LEMMA OneBatchMore ==
  ASSUME NEW b \in Nat, NEW n \in Nat, NEW m \in Nat, NEW k \in Nat, NEW g \in Nat,
         g <= b * n, k <= b, m >= 1
  PROVE  g + k <= b * (n + m)
<1>1. b * (n + m) = b * n + b * m
  OBVIOUS
<1>2. b * m >= b
  <2>1. PICK j \in Nat : m = 1 + j
    <3>1. m - 1 \in Nat /\ m = 1 + (m - 1)
      OBVIOUS
    <3> QED
      BY <3>1
  <2>2. b * m = b + b * j
    BY <2>1
  <2>3. b * j \in Nat
    OBVIOUS
  <2> QED
    BY <2>2, <2>3
<1>3. b * n \in Nat /\ b * m \in Nat
  OBVIOUS
<1> QED
  BY <1>1, <1>2, <1>3

LEMMA FailedWriteIsLocal ==
  ASSUME TypeOK, BatchBounded, EachRecordInOnePlace, IsFiniteSet(lost), NEW id \in RecordTables,
         Cardinality(Gone(lost, id)) <= BATCH * Cardinality(Bad(lost, id)),
         NEW bad \in Range(buffer[id]), ~Storable(bad)
  PROVE  LET L == lost \cup Range(buffer[id])
         IN Cardinality(Gone(L, id)) <= BATCH * Cardinality(Bad(L, id))
<1> DEFINE batch == Range(buffer[id])
           L == lost \cup batch
           worst == {d \in batch : ~Storable(d)}
<1>1. IsFiniteSet(batch) /\ Cardinality(batch) \in Nat /\ Cardinality(batch) <= BATCH
  <2>1. buffer[id] \in Seq(Data) /\ Len(buffer[id]) <= BATCH
    BY DEF TypeOK, BatchBounded
  <2>2. Cardinality(batch) <= Len(buffer[id]) /\ IsFiniteSet(batch) /\ Cardinality(batch) \in Nat
    BY <2>1, RangeIsSmall
  <2>3. BATCH \in Nat /\ Len(buffer[id]) \in Nat
    BY <2>1, LenProperties, BoundsAssumption
  <2> QED
    BY <2>1, <2>2, <2>3
<1>2. batch \subseteq RecordsOf(id) /\ lost \cap batch = {}
  BY DEF EachRecordInOnePlace, NoRepeats, NoOverlap, Held
<1>3. IsFiniteSet(Gone(lost, id)) /\ IsFiniteSet(Bad(lost, id))
  <2>1. Gone(lost, id) \in SUBSET lost /\ Bad(lost, id) \in SUBSET lost
    BY DEF Gone, Bad
  <2> QED
    BY <2>1, FS_Subset
<1>4. IsFiniteSet(worst) /\ worst # {}
  <2>1. worst \in SUBSET batch /\ bad \in worst
    OBVIOUS
  <2> QED
    BY <1>1, <2>1, FS_Subset
<1>5. Cardinality(worst) \in Nat /\ Cardinality(worst) >= 1
  <2>1. Cardinality(worst) \in Nat /\ Cardinality(worst) # 0
    BY <1>4, FS_EmptySet, FS_CardinalityType
  <2> QED
    BY <2>1
<1>6. /\ Gone(L, id) = Gone(lost, id) \cup batch /\ Gone(lost, id) \cap batch = {}
      /\ Bad(L, id) = Bad(lost, id) \cup worst /\ Bad(lost, id) \cap worst = {}
  BY <1>2 DEF Gone, Bad
<1> HIDE DEF batch, worst, L
<1>7. /\ Cardinality(Gone(L, id)) = Cardinality(Gone(lost, id)) + Cardinality(batch)
      /\ Cardinality(Gone(lost, id)) \in Nat
  BY <1>1, <1>3, <1>6, DisjointUnion
<1>8. /\ Cardinality(Bad(L, id)) = Cardinality(Bad(lost, id)) + Cardinality(worst)
      /\ Cardinality(Bad(lost, id)) \in Nat
  BY <1>3, <1>4, <1>6, DisjointUnion
<1>9. BATCH \in Nat
  BY BoundsAssumption
<1>10. Cardinality(Gone(L, id)) <= BATCH * Cardinality(Bad(L, id))
  BY <1>1, <1>5, <1>7, <1>8, <1>9, OneBatchMore
<1> QED
  BY <1>10 DEF L, batch

LEMMA LossStep ==
  ASSUME TypeOK, BatchBounded, EachRecordInOnePlace, LossInv, [Next]_vars
  PROVE  LossInv'
<1>1. CASE UNCHANGED lost
  BY <1>1 DEF LossInv, LossIsLocal
<1>2. ASSUME NEW k \in RecordTables, WriteRange(k), ~UNCHANGED lost
      PROVE  LossInv'
  <2> DEFINE batch == Range(buffer[k])
  <2>1. /\ lost' = lost \cup batch
        /\ k \in FlakyTables \/ \E d \in batch : ~Storable(d)
    BY <1>2 DEF WriteRange
  <2>2. IsFiniteSet(batch) /\ batch \subseteq RecordsOf(k)
    <3>1. buffer[k] \in Seq(Data)
      BY DEF TypeOK
    <3> QED
      BY <3>1, RangeIsSmall DEF EachRecordInOnePlace, NoRepeats, Held
  <2>3. IsFiniteSet(lost')
    BY <2>1, <2>2, FS_Union DEF LossInv
  <2>4. ASSUME NEW id \in RecordTables \ FlakyTables
        PROVE  Cardinality(Gone(lost', id)) <= BATCH * Cardinality(Bad(lost', id))
    <3>1. Cardinality(Gone(lost, id)) <= BATCH * Cardinality(Bad(lost, id))
      BY DEF LossInv, LossIsLocal, Gone, Bad
    <3>2. CASE id = k
      <4>1. PICK d \in batch : ~Storable(d)
        BY <2>1, <3>2
      <4> QED
        BY <2>1, <3>1, <3>2, <4>1, FailedWriteIsLocal DEF LossInv
    <3>3. CASE id # k
      <4>1. Gone(lost', id) = Gone(lost, id)
        BY <2>1, <2>2, <3>3 DEF Gone, RecordsOf
      <4>2. Bad(lost', id) = Bad(lost, id)
        BY <4>1 DEF Bad
      <4> QED
        BY <3>1, <4>1, <4>2
    <3> QED
      BY <3>2, <3>3
  <2> QED
    BY <2>3, <2>4 DEF LossInv, LossIsLocal, Gone, Bad
<1>3. UNCHANGED lost \/ \E k \in RecordTables : WriteRange(k)
  BY DEF Next, vars, SenderStep, WriterStep, WriteUnknown, CheckFull, Push, WriteSynt, Receive, IdleTimeout, Elapse
<1> QED
  BY <1>1, <1>2, <1>3

(* Where the database takes every well-formed INSERT, every batch of an id   *)
(* that is lost has a malformed record of that id in it, so at most BATCH    *)
(* records are lost for each, whatever happens to the INSERTs of other       *)
(* tables (handler.go:295-340, 595-624).                                     *)
THEOREM LossStaysLocal == Spec => []LossIsLocal
<1>1. Init => LossInv
  <2> SUFFICES ASSUME Init PROVE LossInv
    OBVIOUS
  <2>1. lost = {} /\ IsFiniteSet({}) /\ Cardinality({}) = 0
    BY FS_EmptySet DEF Init
  <2>2. \A id : lost \cap RecordsOf(id) = {} /\ {d \in lost \cap RecordsOf(id) : ~Storable(d)} = {}
    BY <2>1
  <2>3. 0 <= BATCH * 0
    BY BoundsAssumption
  <2> QED
    BY <2>1, <2>2, <2>3 DEF LossInv, LossIsLocal
<1>2. TypeOK /\ BatchBounded /\ EachRecordInOnePlace /\ LossInv /\ [Next]_vars => LossInv'
  BY LossStep
<1>3. LossInv => LossIsLocal
  BY DEF LossInv
<1> QED
  BY <1>1, <1>2, <1>3, TypeCorrect, BatchStaysBounded, EveryRecordInOnePlace, PTL DEF Spec

-----------------------------------------------------------------------------
(* The write path implements RecordLog *)

LEMMA ConcatAppend ==
  ASSUME NEW b \in Seq(Data), NEW c \in Seq(Data), NEW e \in Data
  PROVE  b \o Append(c, e) = Append(b \o c, e)
<1>1. <<e>> \in Seq(Data) /\ b \o c \in Seq(Data)
  BY ConcatProperties
<1>2. Append(c, e) = c \o <<e>> /\ Append(b \o c, e) = (b \o c) \o <<e>>
  BY <1>1, AppendIsConcat
<1> QED
  BY <1>1, <1>2, ConcatAssociative

LEMMA MoveHead ==
  ASSUME NEW S, NEW b \in Seq(S), NEW c \in Seq(S), c # <<>>
  PROVE  Append(b, Head(c)) \o Tail(c) = b \o c
<1>1. /\ Head(c) \in S
      /\ Tail(c) \in Seq(S)
      /\ Len(Tail(c)) = Len(c) - 1
      /\ \A i \in 1 .. Len(Tail(c)) : Tail(c)[i] = c[i + 1]
  BY HeadTailProperties
<1> DEFINE h == <<Head(c)>>
<1>2. h \in Seq(S) /\ Len(h) = 1 /\ h[1] = c[1]
  BY <1>1
<1>3. Len(c) \in Nat \ {0}
  BY EmptySeq
<1>4. h \o Tail(c) = c
  <2> HIDE DEF h
  <2> DEFINE t == Tail(c)
  <2>0. t \in Seq(S) /\ Len(t) = Len(c) - 1
    BY <1>1
  <2> HIDE DEF t
  <2>a. /\ h \o t \in Seq(S)
        /\ Len(h \o t) = Len(h) + Len(t)
        /\ \A i \in 1 .. Len(h) + Len(t) :
             (h \o t)[i] = IF i <= Len(h) THEN h[i] ELSE t[i - Len(h)]
    BY <2>0, <1>2, ConcatProperties
  <2>b. Len(h) + Len(t) = Len(c)
    BY <2>0, <1>2, <1>3
  <2>1. /\ h \o t \in Seq(S)
        /\ Len(h \o t) = Len(c)
        /\ \A i \in 1 .. Len(c) : (h \o t)[i] = IF i <= 1 THEN h[i] ELSE t[i - 1]
    BY <2>a, <2>b, <1>2
  <2> USE DEF t
  <2>2. \A i \in 1 .. Len(c) : (h \o Tail(c))[i] = c[i]
    BY <2>1, <1>1, <1>2, <1>3
  <2> QED
    BY <2>1, <2>2, SeqEqual
<1>5. Append(b, Head(c)) = b \o h
  BY <1>1, AppendIsConcat
<1> QED
  BY <1>1, <1>2, <1>4, <1>5, ConcatAssociative

LEMMA SplitConcat ==
  ASSUME NEW b \in Seq(Data), NEW c \in Seq(Data), b # <<>>
  PROVE  /\ Len(b) \in 1 .. Len(b \o c)
         /\ SubSeq(b \o c, 1, Len(b)) = b
         /\ SubSeq(b \o c, Len(b) + 1, Len(b \o c)) = c
<1>1. Len(b) \in Nat \ {0} /\ Len(c) \in Nat
  BY EmptySeq, LenProperties
<1>2. Len(b \o c) = Len(b) + Len(c)
  BY ConcatProperties
<1>3. SubSeq(b \o c, 1, Len(b)) = b
  BY <1>1, SubSeqOfConcat1, SubSeqFull
<1>4. CASE c = <<>>
  <2>1. Len(c) = 0
    BY <1>4
  <2> QED
    BY <2>1, <1>1, <1>2, <1>3, <1>4, SubSeqEmpty
<1>5. CASE c # <<>>
  <2>1. Len(c) > 0
    BY <1>5, <1>1, EmptySeq
  <2>2. /\ Len(b) + 1 \in Len(b) + 1 .. Len(b) + Len(c)
        /\ Len(b) + Len(c) \in Len(b) + 1 .. Len(b) + Len(c)
        /\ Len(b) + 1 - Len(b) = 1
        /\ Len(b) + Len(c) - Len(b) = Len(c)
    BY <2>1, <1>1
  <2>3. SubSeq(b \o c, Len(b) + 1, Len(b) + Len(c)) = SubSeq(c, 1, Len(c))
    BY <2>2, SubSeqOfConcat2
  <2> QED
    BY <2>3, <1>1, <1>2, <1>3, SubSeqFull
<1> QED
  BY <1>4, <1>5

LEMMA InitImplements == Init => Log!Init
<1> SUFFICES ASSUME Init PROVE Log!Init
  OBVIOUS
<1>1. <<>> \o <<>> = <<>>
  BY EmptySeq, ConcatEmptySeq
<1> QED
  BY <1>1 DEF Init, Channels, Log!Init

LEMMA NextImplements ==
  TypeOK /\ NoNilPush /\ BatchBounded /\ [Next]_vars => [Log!Next]_(Log!vars)
<1> SUFFICES ASSUME TypeOK, NoNilPush, BatchBounded, [Next]_vars
             PROVE  Log!Next \/ UNCHANGED Log!vars
  OBVIOUS
<1> DEFINE Waiting == {d \in Data : sender[d] \in {"calling", "pushing"}}
           Pending == [id \in RecordTables |-> buffer[id] \o DataBuffer[id]]
<1>1. ASSUME NEW d \in Data, WriteUnknown(d) PROVE Log!Refuse(d)
  BY <1>1 DEF TypeOK, WriteUnknown, Return, Log!Refuse
<1>2. ASSUME NEW d \in Data, CheckFull(d) PROVE Log!Refuse(d) \/ UNCHANGED Log!vars
  BY <1>2 DEF TypeOK, CheckFull, Return, Log!Refuse, Log!vars
<1>3. ASSUME NEW d \in Data, Push(d) PROVE Log!Accept(d)
  <2>1. IdOf[d] \in RecordTables /\ d \in Waiting
    BY <1>3 DEF NoNilPush, Push
  <2>2. Waiting' = Waiting \ {d}
    BY <1>3 DEF TypeOK, Push, Return
  <2>3. Pending' = [Pending EXCEPT ![IdOf[d]] = Append(@, d)]
    <3>1. \A id \in RecordTables :
            Pending'[id] = IF id = IdOf[d] THEN Append(Pending[id], d) ELSE Pending[id]
      <4> SUFFICES ASSUME NEW id \in RecordTables
                   PROVE  buffer'[id] \o DataBuffer'[id] =
                            IF id = IdOf[d] THEN Append(buffer[id] \o DataBuffer[id], d)
                                            ELSE buffer[id] \o DataBuffer[id]
        OBVIOUS
      <4>1. buffer[id] \in Seq(Data) /\ DataBuffer[id] \in Seq(Data)
        BY DEF TypeOK
      <4>2. /\ buffer'[id] = buffer[id]
            /\ DataBuffer'[id] = IF id = IdOf[d] THEN Append(DataBuffer[id], d)
                                                 ELSE DataBuffer[id]
        BY <1>3 DEF TypeOK, Push
      <4>3. buffer[id] \o Append(DataBuffer[id], d) = Append(buffer[id] \o DataBuffer[id], d)
        BY <4>1, ConcatAppend
      <4> QED
        BY <4>2, <4>3
    <3> QED
      BY <3>1
  <2> QED
    BY <2>1, <2>2, <2>3, <1>3 DEF Log!Accept, Push
<1>4. ASSUME NEW d \in Data, WriteSynt(d) PROVE Log!Refuse(d) \/ Log!Insert(d)
  <2>1. Pending' = Pending
    BY <1>4 DEF WriteSynt
  <2>2. d \in Waiting /\ Waiting' = Waiting \ {d}
    BY <1>4 DEF TypeOK, WriteSynt, Return
  <2> QED
    BY <2>1, <2>2, <1>4 DEF WriteSynt, Log!Refuse, Log!Insert
<1>5. ASSUME NEW k \in RecordTables, Receive(k) PROVE UNCHANGED Log!vars
  <2>1. \A id \in RecordTables : Pending'[id] = Pending[id]
    <3> SUFFICES ASSUME NEW id \in RecordTables PROVE Pending'[id] = Pending[id]
      OBVIOUS
    <3>1. CASE id = k
      <4>1. /\ DataBuffer[k] \in Seq(Data) /\ DataBuffer[k] # <<>> /\ buffer[k] \in Seq(Data)
            /\ DataBuffer'[k] = Tail(DataBuffer[k])
            /\ buffer'[k] = Append(buffer[k], Head(DataBuffer[k]))
        BY <1>5 DEF TypeOK, Receive
      <4> QED
        BY <3>1, <4>1, MoveHead, ZenonT(30)
    <3>2. CASE id # k
      BY <3>2, <1>5 DEF TypeOK, Receive
    <3> QED
      BY <3>1, <3>2
  <2>2. Pending' = Pending
    BY <2>1
  <2> QED
    BY <2>2, <1>5 DEF Receive, Log!vars
<1>6. ASSUME NEW k \in RecordTables, IdleTimeout(k) \/ Elapse(k) PROVE UNCHANGED Log!vars
  BY <1>6 DEF IdleTimeout, Elapse, Log!vars
<1>7. ASSUME NEW k \in RecordTables, WriteRange(k) PROVE Log!Settle(k)
  <2>1. /\ buffer[k] \in Seq(Data) /\ DataBuffer[k] \in Seq(Data) /\ buffer[k] # <<>>
        /\ buffer'[k] = <<>> /\ DataBuffer' = DataBuffer
    BY <1>7 DEF TypeOK, BatchBounded, WriteRange, EmptyBatch
  <2> DEFINE n == Len(buffer[k])
  <2>2. /\ n \in 1 .. Len(Pending[k])
        /\ SubSeq(Pending[k], 1, n) = buffer[k]
        /\ SubSeq(Pending[k], n + 1, Len(Pending[k])) = DataBuffer[k]
    <3>1. Pending[k] = buffer[k] \o DataBuffer[k]
      OBVIOUS
    <3>2. /\ Len(buffer[k]) \in 1 .. Len(buffer[k] \o DataBuffer[k])
          /\ SubSeq(buffer[k] \o DataBuffer[k], 1, Len(buffer[k])) = buffer[k]
          /\ SubSeq(buffer[k] \o DataBuffer[k], Len(buffer[k]) + 1, Len(buffer[k] \o DataBuffer[k]))
               = DataBuffer[k]
      BY <2>1, SplitConcat
    <3> HIDE DEF Pending
    <3> QED
      BY <3>1, <3>2
  <2>3. \A id \in RecordTables :
          Pending'[id] = IF id = k THEN DataBuffer[id] ELSE Pending[id]
    BY <2>1, <1>7, ConcatEmptySeq DEF TypeOK, WriteRange, EmptyBatch
  <2>4. Pending' = [Pending EXCEPT ![k] = SubSeq(@, n + 1, Len(@))]
    BY <2>2, <2>3
  <2>5. Waiting' = Waiting
    BY <1>7 DEF WriteRange
  <2>6. Log!Leave(k, n)
    BY <2>4, <2>5 DEF Log!Leave
  <2>7. Log!Commit(k, n) \/ Log!Discard(k, n)
    BY <2>2, <2>6, <1>7 DEF WriteRange, Log!Commit, Log!Discard
  <2> QED
    BY <2>2, <2>7 DEF Log!Settle
<1>8. CASE UNCHANGED vars
  BY <1>8 DEF vars, Log!vars
<1> QED
  BY <1>1, <1>2, <1>3, <1>4, <1>5, <1>6, <1>7, <1>8
  DEF Next, SenderStep, WriterStep, Log!Next

(* Channel, goroutine and batch keep RecordLog's promise, for every number  *)
(* of callers and every capacity: a record enters its id's queue once, and  *)
(* prefixes of the queue leave it atomically (handler.go:276-340, 577-624). *)
THEOREM StoreImplementsLog == Spec => ImplementsLog
<1>1. EachRecordInOnePlace => NoNilPush
  BY DEF EachRecordInOnePlace
<1> QED
  BY <1>1, InitImplements, NextImplements, TypeCorrect, BatchStaysBounded,
     EveryRecordInOnePlace, PTL
  DEF Spec, ImplementsLog, Log!Spec
=============================================================================
