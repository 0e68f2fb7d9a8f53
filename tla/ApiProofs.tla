------------------------------ MODULE ApiProofs ------------------------------
(***************************************************************************)
(* Proofs about Api, for every limit, number of rounds and of calls: the   *)
(* ids of attempts, the answers to challenges, and the growth of delays.   *)
(***************************************************************************)
EXTENDS Api, TLAPS

\* The counter is ahead of every id given out, the current one included once
\* a call has begun.
IdInv ==
  /\ calls \in Nat /\ seq \in Nat /\ id \in Nat
  /\ calls > 0 => id < seq
  /\ \A i \in used : i \in Nat /\ i < seq /\ i # id
  /\ calls = 0 => pc = "idle"

LEMMA IdInit == Init => IdInv
  BY DEF Init, IdInv

\* An attempt takes the counter's value, which no earlier one had.
LEMMA IdAttempt ==
  ASSUME IdInv, NewAttempt, calls' \in Nat, calls' > 0
  PROVE  IdInv'
  BY DEF IdInv, NewAttempt, NextSeq

LEMMA IdStep == IdInv /\ [Next]_vars => IdInv'
<1> SUFFICES ASSUME IdInv, [Next]_vars PROVE IdInv'
  OBVIOUS
<1>1. CASE Call
  <2>1. calls' \in Nat /\ calls' > 0
    BY <1>1 DEF Call, IdInv
  <2> QED
    BY <1>1, <2>1, IdAttempt DEF Call
<1>2. CASE TriesAgain
  <2>1. calls' \in Nat /\ calls' > 0
    BY <1>2 DEF TriesAgain, IdInv
  <2> QED
    BY <1>2, <2>1, IdAttempt DEF TriesAgain
<1>3. ASSUME NEW f \in Fates, Answered(f) PROVE IdInv'
  BY <1>3 DEF Answered, IdInv
<1>4. ASSUME NEW c \in Challenges, Gated(c) PROVE IdInv'
  BY <1>4 DEF Gated, IdInv
<1>5. CASE TooManyRounds
  BY <1>5 DEF TooManyRounds, IdInv
<1>6. CASE GivesUp
  BY <1>6 DEF GivesUp, IdInv
<1>7. CASE UNCHANGED vars
  BY <1>7 DEF vars, IdInv
<1> QED
  BY <1>1, <1>2, <1>3, <1>4, <1>5, <1>6, <1>7 DEF Next, Reply

\* No attempt of a client ever reuses the id of an earlier one (api.rs:85).
THEOREM AttemptsAlwaysDistinct == Spec => []AttemptsAreDistinct
<1>1. IdInv => AttemptsAreDistinct
  BY DEF IdInv, AttemptsAreDistinct
<1> QED
  BY IdInit, IdStep, <1>1, PTL DEF Spec

-----------------------------------------------------------------------------
\* What the next post answers is the last challenge, in every round of every
\* attempt, the first of a retry included (api.rs:89-108).
LEMMA AnswerStep == AnswersTheChallenge /\ [Next]_vars => AnswersTheChallenge'
<1> SUFFICES ASSUME AnswersTheChallenge, [Next]_vars PROVE AnswersTheChallenge'
  OBVIOUS
<1> USE DEF AnswersTheChallenge
<1>1. CASE Call
  BY <1>1 DEF Call, NewAttempt, FirstHashcash
<1>2. CASE TriesAgain
  BY <1>2 DEF TriesAgain, NewAttempt, FirstHashcash
<1>3. ASSUME NEW f \in Fates, Answered(f) PROVE AnswersTheChallenge'
  BY <1>3 DEF Answered, Outcome
<1>4. ASSUME NEW c \in Challenges, Gated(c) PROVE AnswersTheChallenge'
  BY <1>4 DEF Gated
<1>5. CASE TooManyRounds
  BY <1>5 DEF TooManyRounds
<1>6. CASE GivesUp
  BY <1>6 DEF GivesUp
<1>7. CASE UNCHANGED vars
  BY <1>7 DEF vars
<1> QED
  BY <1>1, <1>2, <1>3, <1>4, <1>5, <1>6, <1>7 DEF Next, Reply

\* Every post answers the last challenge set to it, or none (api.rs:90-108).
THEOREM ChallengesAreAnswered == Spec => []AnswersTheChallenge
<1>1. Init => AnswersTheChallenge
  BY DEF Init, AnswersTheChallenge
<1> QED
  BY <1>1, AnswerStep, PTL DEF Spec

-----------------------------------------------------------------------------
\* A delay is slept only up to the limit, so no delay, doubled once more, ever
\* passes twice the limit, whatever the server answers (api.rs:76-80).
LEMMA TypeStep == TypeOK /\ [Next]_vars => TypeOK'
<1> SUFFICES ASSUME TypeOK, [Next]_vars PROVE TypeOK'
  OBVIOUS
<1> USE ApiAssumption DEF TypeOK
<1>n. ASSUME NewAttempt
      PROVE  /\ pc' = "post" /\ seq' \in Nat /\ id' \in Nat /\ used' \subseteq Nat
             /\ round' \in 0..Rounds /\ hashcash' = NoChallenge /\ challenge' = NoChallenge
  <2>1. used' \subseteq Nat
    <3>1. used' \subseteq used \cup {id}
      BY <1>n DEF NewAttempt
    <3> QED
      BY <3>1
  <2>2. seq' \in Nat /\ id' \in Nat /\ round' \in 0..Rounds
    BY <1>n DEF NewAttempt, NextSeq
  <2> QED
    BY <1>n, <2>1, <2>2 DEF NewAttempt, NextSeq, FirstHashcash
<1>1. CASE Call
  BY <1>1, <1>n DEF Call
<1>2. CASE TriesAgain
  <2>1. delay \in 1..GiveUpAfter
    BY <1>2 DEF TriesAgain, TooLong
  <2>2. waited' \in Nat /\ delay' \in 1..(2 * GiveUpAfter)
    BY <1>2, <2>1 DEF TriesAgain
  <2> QED
    BY <1>2, <1>n, <2>2 DEF TriesAgain
<1>3. ASSUME NEW f \in Fates, Answered(f) PROVE TypeOK'
  BY <1>3 DEF Answered, Outcome
<1>4. ASSUME NEW c \in Challenges, Gated(c) PROVE TypeOK'
  <2>1. last' \in Fates
    BY <1>4 DEF Gated, Fates
  <2>2. round' \in 0..Rounds
    BY <1>4 DEF Gated, RoundSpent
  <2> QED
    BY <1>4, <2>1, <2>2 DEF Gated
<1>5. CASE TooManyRounds
  BY <1>5 DEF TooManyRounds
<1>6. CASE GivesUp
  BY <1>6 DEF GivesUp
<1>7. CASE UNCHANGED vars
  BY <1>7 DEF vars
<1> QED
  BY <1>1, <1>2, <1>3, <1>4, <1>5, <1>6, <1>7 DEF Next, Reply

\* Types, with what they say of numbers: delay, round and the ids.
THEOREM ApiTyped == Spec => []TypeOK
<1>1. Init => TypeOK
  BY ApiAssumption DEF Init, TypeOK, NoChallenge
<1> QED
  BY <1>1, TypeStep, PTL DEF Spec

-----------------------------------------------------------------------------
\* Delays double, so what a call has waited is its next delay less the first.
PatienceInv == TypeOK /\ waited = delay - 1

LEMMA PatienceStep == PatienceInv /\ [Next]_vars => PatienceInv'
<1> SUFFICES ASSUME PatienceInv, [Next]_vars PROVE PatienceInv'
  OBVIOUS
<1>t. TypeOK /\ TypeOK'
  BY TypeStep DEF PatienceInv
<1>d. delay \in Nat /\ waited = delay - 1
  BY <1>t, ApiAssumption DEF PatienceInv, TypeOK
<1>1. CASE Call
  BY <1>1, <1>t DEF Call, PatienceInv
<1>2. CASE TriesAgain
  BY <1>2, <1>t, <1>d DEF TriesAgain, PatienceInv
<1>3. CASE UNCHANGED <<delay, waited>>
  BY <1>3, <1>t, <1>d DEF PatienceInv
<1>4. Next => Call \/ TriesAgain \/ UNCHANGED <<delay, waited>>
  BY DEF Next, Reply, Answered, Gated, TooManyRounds, GivesUp
<1> QED
  BY <1>1, <1>2, <1>3, <1>4 DEF vars

\* The waits of a call stay below twice the limit, whatever the server answers
\* and however often (api.rs:68-80).
THEOREM PatienceIsBounded == Spec => []BoundedPatience
<1>1. Init => PatienceInv
  <2>1. Init => TypeOK
    BY ApiAssumption DEF Init, TypeOK, NoChallenge
  <2> QED
    BY <2>1 DEF Init, PatienceInv
<1>2. PatienceInv => BoundedPatience
  BY ApiAssumption DEF PatienceInv, TypeOK, BoundedPatience
<1> QED
  BY <1>1, <1>2, PatienceStep, PTL DEF Spec

=============================================================================
