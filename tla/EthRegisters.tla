---------------------------- MODULE EthRegisters ----------------------------
(* What a caller of the ETH32 API may rely on. A call changes registers to   *)
(* the values it names, and reads others; it is not atomic: its registers    *)
(* change and are read one group after the other, while other threads' calls *)
(* do the same. A call that returns "OK" has changed all of them and read    *)
(* all of them; one that fails may have changed some. The registers are      *)
(* those every later read on this connection sees: the device itself may     *)
(* still have to catch up, and never does when the connection is lost.       *)
EXTENDS Naturals, TLC

CONSTANTS Threads,   \* threads of the program that uses the API
          Asked,     \* calls: [sets : register -> value, gets : set of registers]
          Factories, \* what the registers may hold when the connection is opened
          Errors     \* what a failing call returns

VARIABLES value,     \* register -> its value
          call,      \* thread -> the call it is in, or Idle
          result     \* thread -> what its last call returned

vars == <<value, call, result>>

Idle == [sets |-> <<>>, gets |-> {}, done |-> {}, seen |-> <<>>, busy |-> FALSE]
NoResult == [code |-> "none", seen |-> <<>>]

Init ==
  /\ value \in Factories
  /\ call = [t \in Threads |-> Idle]
  /\ result = [t \in Threads |-> NoResult]

(* A call begins. *)
Begin(t) ==
  LET c == [sets |-> call'[t].sets, gets |-> call'[t].gets] IN
  /\ ~call[t].busy
  /\ c \in Asked
  /\ call' = [call EXCEPT ![t] =
        [sets |-> c.sets, gets |-> c.gets, done |-> {}, seen |-> <<>>, busy |-> TRUE]]
  /\ result' = [result EXCEPT ![t] = NoResult]
  /\ UNCHANGED value

(* Registers the call has not read yet are read, as they are now, or those   *)
(* it has not changed yet get their value.                                   *)
Advance(t) ==
  LET changed == call'[t].done \ call[t].done
      read == DOMAIN call'[t].seen \ DOMAIN call[t].seen
  IN
  /\ call[t].busy
  /\ changed \subseteq DOMAIN call[t].sets /\ read \subseteq call[t].gets
  /\ value' = [r \in changed |-> call[t].sets[r]] @@ value
  /\ call' = [call EXCEPT ![t].done = @ \cup changed,
                         ![t].seen = [r \in read |-> value[r]] @@ @]
  /\ UNCHANGED result

(* The call is over. *)
Return(t) ==
  /\ call[t].busy
  /\ \E code \in Errors \cup {"OK"} :
       /\ code = "OK" => /\ call[t].done = DOMAIN call[t].sets
                         /\ DOMAIN call[t].seen = call[t].gets
       /\ result' = [result EXCEPT ![t] = [code |-> code, seen |-> IF code = "OK" THEN call[t].seen ELSE <<>>]]
  /\ call' = [call EXCEPT ![t] = Idle]
  /\ UNCHANGED value

(* A call with a wrong argument, or on a dead connection, returns at once. *)
Reject(t) ==
  /\ ~call[t].busy
  /\ \E code \in Errors :
       result' = [result EXCEPT ![t] = [code |-> code, seen |-> <<>>]]
  /\ UNCHANGED <<value, call>>

Next == \E t \in Threads :
  Begin(t) \/ Advance(t) \/ Return(t) \/ Reject(t)

Spec == Init /\ [][Next]_vars
=============================================================================
