--------------------------- MODULE KeepAlive_proofs ---------------------------
(***************************************************************************)
(* A registered query never times out, for every timeout, interval and     *)
(* latency that leave the margin: how far the server's clock of the query  *)
(* runs ahead of the client's is bounded at every step.                    *)
(***************************************************************************)
EXTENDS KeepAlive, TLAPS

USE KeepAliveAssumption

-----------------------------------------------------------------------------
(* Arithmetic of the constants *)

LEMMA ConstantsNat ==
  Period \in Nat /\ Limit \in Nat /\ Threshold \in Nat /\ Interval * TicksPerSec \in Nat
  BY DEF Period, Limit, Threshold

\* Whole seconds above k means k + 1 full seconds of ticks.
LEMMA WholeSeconds ==
  ASSUME NEW s \in Nat \ {0}, NEW a \in Nat, NEW k \in Nat
  PROVE a \div s > k <=> a >= (k + 1) * s
<1> DEFINE d == a \div s
<1>1. d \in Nat /\ s * d <= a /\ a < s * d + s
  OBVIOUS
<1> HIDE DEF d
<1>2. CASE d > k
  <2>1. d = (k + 1) + (d - (k + 1)) /\ d - (k + 1) \in Nat
    BY <1>1, <1>2
  <2>2. \A e \in Nat : s * ((k + 1) + e) >= s * (k + 1)
    OBVIOUS
  <2> QED
    BY <1>1, <1>2, <2>1, <2>2
<1>3. CASE ~(d > k)
  <2>1. k = d + (k - d) /\ k - d \in Nat
    BY <1>1, <1>3
  <2>2. \A e \in Nat : s * (d + e + 1) >= s * d + s
    BY <1>1
  <2> QED
    BY <1>1, <1>3, <2>1, <2>2
<1> QED
  BY <1>2, <1>3 DEF d

\* A query that is not due was accessed less than Threshold ago.
LEMMA DueAtThreshold ==
  ASSUME sinceAccess \in Nat PROVE NeedHeartbeat <=> sinceAccess >= Threshold
<1>1. Timeout \div 2 \in Nat
  OBVIOUS
<1> QED
  BY <1>1, WholeSeconds DEF NeedHeartbeat, Threshold

-----------------------------------------------------------------------------
(* The inductive invariant *)

\* An answer under way is no older than what the server last heard.
AnswersOK ==
  /\ beat = "answered" => sinceServed <= beatAge
  /\ page = "answered" => sinceServed <= pageAge

\* The client's clock is behind the server's by one answer at most.
ClocksOK == registered => sinceServed <= sinceAccess + AnswerTicks

\* Since the last check the server's clock has run on from what an access that was
\* not due then leaves, and a heartbeat under way adds one period.
CheckedOK ==
  registered =>
  /\ beat # "sent" => sinceServed < Threshold + AnswerTicks + sinceCheck
  /\ beat = "sent" => /\ sinceServed < Threshold + AnswerTicks + Period + sinceCheck
                      /\ sinceCheck <= RequestTicks

IInv == TypeOK /\ AnswersOK /\ ClocksOK /\ CheckedOK /\ NeverExpired

-----------------------------------------------------------------------------

LEMMA InitIInv == Init => IInv
  BY ConstantsNat DEF Init, IInv, TypeOK, AnswersOK, ClocksOK, CheckedOK, NeverExpired, Period,
     Threshold

\* One lemma per action.
LEMMA CheckKeeps == ASSUME IInv, Check PROVE IInv'
<1> USE ConstantsNat DEF IInv, TypeOK, Check
<1>1. TypeOK' /\ AnswersOK' /\ ClocksOK' /\ NeverExpired'
  BY DEF AnswersOK, ClocksOK, NeverExpired
<1>2. CheckedOK'
  BY DueAtThreshold DEF ClocksOK, CheckedOK
<1> QED
  BY <1>1, <1>2

LEMMA ServeBeatKeeps == ASSUME IInv, ServeBeat PROVE IInv'
<1> USE ConstantsNat DEF IInv, TypeOK, ServeBeat
<1>1. TypeOK' /\ AnswersOK' /\ ClocksOK' /\ NeverExpired'
  BY DEF AnswersOK, ClocksOK, NeverExpired
<1>2. CheckedOK'
  BY DEF CheckedOK, Threshold
<1> QED
  BY <1>1, <1>2

LEMMA ReadBeatKeeps == ASSUME IInv, ReadBeat PROVE IInv'
  BY ConstantsNat
     DEF IInv, TypeOK, ReadBeat, AnswersOK, ClocksOK, CheckedOK, NeverExpired

LEMMA ServePageKeeps == ASSUME IInv, ServePage PROVE IInv'
<1> USE ConstantsNat DEF IInv, TypeOK, ServePage
<1>1. TypeOK' /\ AnswersOK' /\ ClocksOK' /\ NeverExpired'
  BY DEF AnswersOK, ClocksOK, NeverExpired
<1>2. CheckedOK'
  BY DEF CheckedOK, Threshold
<1> QED
  BY <1>1, <1>2

LEMMA ReadPageKeeps == ASSUME IInv, ReadPage PROVE IInv'
  BY ConstantsNat
     DEF IInv, TypeOK, ReadPage, AnswersOK, ClocksOK, CheckedOK, NeverExpired

LEMMA DropResultKeeps == ASSUME IInv, DropResult PROVE IInv'
<1>1. ~registered'
  BY DEF DropResult
<1>2. TypeOK'
  <2>1. registered' \in BOOLEAN /\ alive' \in BOOLEAN /\ page' \in {"none", "answered"}
    BY Zenon DEF IInv, DropResult, TypeOK
  <2>2. sinceAccess' \in Nat /\ sinceServed' \in Nat /\ sinceCheck' \in 0 .. Period'
        /\ beatAge' \in 0 .. AnswerTicks /\ pageAge' \in 0 .. AnswerTicks
    BY ConstantsNat DEF IInv, DropResult, TypeOK, Period
  <2>3. beat' \in {"none", "sent", "answered"}
    BY Zenon DEF IInv, DropResult, TypeOK
  <2> QED
    BY <2>1, <2>2, <2>3 DEF TypeOK
<1>3. ClocksOK' /\ CheckedOK' /\ NeverExpired'
  BY <1>1, Zenon DEF ClocksOK, CheckedOK, NeverExpired
<1>4. AnswersOK'
  BY DEF IInv, DropResult, AnswersOK
<1> QED
  BY <1>2, <1>3, <1>4 DEF IInv

\* The server's clock never reaches the timeout with the margin.
LEMMA ExpireKeeps == ASSUME IInv, Expire PROVE IInv'
<1> USE ConstantsNat DEF IInv, TypeOK, Expire
<1>1. TypeOK' /\ AnswersOK' /\ ClocksOK' /\ CheckedOK'
  BY DEF AnswersOK, ClocksOK, CheckedOK
<1>2. NeverExpired'
  BY DEF CheckedOK, NeverExpired, Margin
<1> QED
  BY <1>1, <1>2

LEMMA TickKeeps == ASSUME IInv, Tick PROVE IInv'
<1> USE ConstantsNat DEF IInv, TypeOK, Tick, LoopOnTime
<1>1. TypeOK' /\ AnswersOK' /\ NeverExpired'
  BY DEF AnswersOK, NeverExpired
<1>2. ClocksOK' /\ CheckedOK'
  BY DEF ClocksOK, CheckedOK
<1> QED
  BY <1>1, <1>2

LEMMA StutterKeeps == ASSUME IInv, UNCHANGED vars PROVE IInv'
  BY DEF IInv, vars, TypeOK, AnswersOK, ClocksOK, CheckedOK, NeverExpired

-----------------------------------------------------------------------------
(* The theorems *)

\* IInv holds in every reachable state.
THEOREM InductiveInvariant == Spec => []IInv
<1>1. Init => IInv
  BY InitIInv
<1>2. IInv /\ [Next]_vars => IInv'
  BY CheckKeeps, ServeBeatKeeps, ReadBeatKeeps, ServePageKeeps, ReadPageKeeps,
     DropResultKeeps, ExpireKeeps, TickKeeps, StutterKeeps DEF Next
<1> QED
  BY <1>1, <1>2, PTL DEF Spec

\* The clocks count up to their bounds and no further.
THEOREM TypeCorrect == Spec => []TypeOK
  BY InductiveInvariant, PTL DEF IInv

\* With the margin, whatever the timeout, the interval and the delays are, the
\* server never gives up a registered query (client.rs:92-96).
THEOREM KeptAliveForever == Spec => []NeverExpired
  BY InductiveInvariant, PTL DEF IInv

=============================================================================
