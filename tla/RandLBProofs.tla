----------------------------- MODULE RandLBProofs -----------------------------
(***************************************************************************)
(* Theorems about RandLB, for any number of addresses and clients, any     *)
(* length of retryCH and any number of failures.                           *)
(***************************************************************************)
EXTENDS RandLB, SequenceTheorems, TLAPS

\* Who still has clients to close has closed exitCH before.
ClosesWhenStopped == closing # {} => stopped

BInv == TypeOK /\ ClosesWhenStopped

\* It holds of what NewRandLB returns.
LEMMA BInvInit == Init => BInv
<1> SUFFICES ASSUME Init PROVE BInv OBVIOUS
<1>1. sock \in [Conns -> Addrs \cup {"dead", "closed"}]
  <2>1. \A c \in Conns : (\E a \in Addrs : Given[a] = c) =>
                           (CHOOSE a \in Addrs : Given[a] = c) \in Addrs
    OBVIOUS
  <2> QED BY <2>1 DEF Init
<1>2. retrier \in [at : {"idle", "dial", "gone"}, addr : Addrs]
  <2>1. (CHOOSE a \in Addrs : TRUE) \in Addrs BY ConstAssumption
  <2> QED BY <2>1 DEF Init
<1>3. retryCH \in Seq(Addrs) /\ Len(retryCH) <= RetryLen
  BY ConstAssumption, EmptySeq DEF Init
<1>4. /\ up \in SUBSET Addrs /\ downs \in 0..MaxDowns /\ clients \in [Addrs -> Conns]
      /\ owner = "using" /\ closing = {}
      /\ pinger \in [Addrs -> [at : {"top", "call", "send", "gone"}, conn : Conns \cup {NoConn}]]
  BY ConstAssumption DEF Init
<1> QED BY <1>1, <1>2, <1>3, <1>4 DEF BInv, TypeOK, ClosesWhenStopped

\* A step of the ping goroutine.
LEMMA PingKeeps == ASSUME BInv, NEW a \in Addrs, Pinger(a) PROVE BInv'
<1> USE DEF BInv, TypeOK, ClosesWhenStopped, stopped, env, PingGoto
<1>1. CASE PingExit(a) BY <1>1 DEF PingExit
<1>2. CASE PingStart(a) BY <1>2 DEF PingStart
<1>3. CASE PingOk(a) BY <1>3 DEF PingOk
<1>4. CASE PingFail(a) BY <1>4 DEF PingFail
<1>5. CASE PingSend(a)
  <2>1. retryCH' \in Seq(Addrs) /\ Len(retryCH') = Len(retryCH) + 1 /\ Len(retryCH) \in Nat
    BY <1>5, AppendProperties, LenProperties DEF PingSend
  <2>2. Len(retryCH') <= RetryLen BY <1>5, <2>1, ConstAssumption DEF PingSend, HasRoom
  <2> QED BY <1>5, <2>1, <2>2 DEF PingSend
<1> QED BY <1>1, <1>2, <1>3, <1>4, <1>5 DEF Pinger

\* A step of the goroutine that connects again.
LEMMA RetryKeeps == ASSUME BInv, Retrier \/ RetryExit PROVE BInv'
<1> USE DEF BInv, TypeOK, ClosesWhenStopped, stopped, env
<1>1. CASE RetryTake
  <2>1. Head(retryCH) \in Addrs /\ Tail(retryCH) \in Seq(Addrs)
    BY <1>1, HeadTailProperties DEF RetryTake
  <2>2. Len(Tail(retryCH)) = Len(retryCH) - 1 /\ Len(retryCH) \in Nat
    BY <1>1, HeadTailProperties, LenProperties DEF RetryTake
  <2>3. Len(retryCH') <= RetryLen BY <1>1, <2>2, ConstAssumption DEF RetryTake
  <2> QED BY <1>1, <2>1, <2>3 DEF RetryTake
<1>2. CASE DialOk BY <1>2 DEF DialOk
<1>3. CASE DialFail BY <1>3 DEF DialFail, AfterDialFail
<1>4. CASE RetryExit BY <1>4 DEF RetryExit
<1> QED BY <1>1, <1>2, <1>3, <1>4 DEF Retrier

\* A step of a server or of the owner.
LEMMA OthersKeep ==
  ASSUME BInv, (\E a \in Addrs : ServerDown(a) \/ ServerUp(a)) \/ Stop \/ Destroy \/ DestroyClose
  PROVE  BInv'
<1> USE DEF BInv, TypeOK, ClosesWhenStopped, stopped, env
<1>1. ASSUME NEW a \in Addrs, ServerDown(a) PROVE BInv'
  <2>1. downs' \in 0..MaxDowns BY <1>1, ConstAssumption DEF ServerDown
  <2> QED BY <1>1, <2>1 DEF ServerDown
<1>2. ASSUME NEW a \in Addrs, ServerUp(a) PROVE BInv' BY <1>2 DEF ServerUp
<1>3. CASE Stop BY <1>3 DEF Stop
<1>4. CASE Destroy BY <1>4 DEF Destroy
<1>5. CASE DestroyClose BY <1>5 DEF DestroyClose
<1> QED BY <1>1, <1>2, <1>3, <1>4, <1>5

\* Every step keeps the invariant, and so does none.
LEMMA BInvNext == BInv /\ [Next]_vars => BInv'
<1> SUFFICES ASSUME BInv, [Next]_vars PROVE BInv' OBVIOUS
<1>1. CASE UNCHANGED vars
  BY <1>1 DEF BInv, TypeOK, ClosesWhenStopped, stopped, vars
<1> QED BY <1>1, PingKeeps, RetryKeeps, OthersKeep DEF Next

\* Every variable keeps its type, and retryCH never holds more than its capacity.
THEOREM BalancerTyping == Spec => []TypeOK
<1>1. BInv => TypeOK BY DEF BInv
<1> QED BY <1>1, BInvInit, BInvNext, PTL DEF Spec

\* As long as the owner uses the clients, nobody closes one that works: the ping
\* goroutine closes the client its failed call used, which is not the one that has
\* taken its place, and Destroy closes after exitCH.
THEOREM WorkingStayOpen == Spec => OnlyBrokenAreClosed
<1>1. ASSUME BInv, [Next]_vars
      PROVE  [\A c \in Conns : Live(c) /\ sock'[c] = "closed" => stopped]_vars
  <2> SUFFICES ASSUME Next, NEW c \in Conns, Live(c), sock'[c] = "closed", ~stopped
               PROVE  FALSE
    BY <1>1
  <2>0. TypeOK /\ closing = {} BY <1>1 DEF BInv, ClosesWhenStopped
  <2>1. sock[c] # "closed"
    <3>1. sock[c] \in Addrs BY DEF Live
    <3> QED BY <3>1, ConstAssumption
  <2>2. ASSUME NEW a \in Addrs, ServerDown(a) PROVE FALSE
    BY <2>0, <2>1, <2>2 DEF ServerDown, TypeOK
  <2>3. ASSUME NEW a \in Addrs, PingFail(a) PROVE FALSE
    <3>1. ~Live(Failed(a)) BY <2>3 DEF PingFail, Failed
    <3>2. c # Failed(a) BY <3>1
    <3> QED BY <2>0, <2>1, <2>3, <3>2 DEF PingFail, TypeOK
  <2>4. CASE DialOk
    <3>1. c \in Conns /\ retrier.addr \in Addrs BY <2>0 DEF TypeOK
    <3>2. PICK d \in Conns : sock' = [sock EXCEPT ![d] = retrier.addr] BY <2>4 DEF DialOk
    <3>3. sock'[c] \in {sock[c], retrier.addr} BY <2>0, <3>2 DEF TypeOK
    <3> QED BY <2>1, <3>1, <3>3, ConstAssumption
  <2>5. ~DestroyClose BY <2>0 DEF DestroyClose
  <2>6. sock' # sock BY <2>1
  <2> QED
    BY <2>2, <2>3, <2>4, <2>5, <2>6 DEF Next, ServerUp, Pinger, PingExit, PingStart,
       PingOk, PingSend, Retrier, RetryTake, DialFail, RetryExit, Stop, Destroy
<1> QED BY <1>1, BInvInit, BInvNext, PTL DEF Spec, OnlyBrokenAreClosed
=============================================================================
