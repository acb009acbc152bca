-------------------------------- MODULE RandLB --------------------------------
(***************************************************************************)
(* The RPC clients of a service (rpc/rand_lb.go): one goroutine pings the  *)
(* server of each address, one goroutine connects again to the addresses   *)
(* it is handed through retryCH, and the owner may Stop or Destroy all.    *)
(***************************************************************************)
EXTENDS Integers, Sequences, FiniteSets

CONSTANTS
  Addrs,    \* addresses of the servers
  Conns,    \* bound: rpc.Client objects
  NoConn,   \* no client
  Given,    \* the clients NewRandLB is given, one for each address
  RetryLen, \* randLBRetryCHLength
  MaxDowns  \* bound: times a server goes down

ASSUME ConstAssumption ==
  /\ Addrs # {} /\ Addrs \cap {"dead", "closed"} = {}
  /\ NoConn \notin Conns
  /\ Given \in [Addrs -> Conns]
  /\ \A a, b \in Addrs : Given[a] = Given[b] => a = b
  /\ RetryLen \in Nat \ {0}
  /\ MaxDowns \in Nat

VARIABLES
  up,       \* addresses whose server runs
  downs,    \* servers that went down so far
  sock,     \* the address a client is connected to, or "dead" or "closed" (or unused)
  clients,  \* r.Clients
  pinger,   \* the ping goroutine of each address
  retrier,  \* the goroutine that connects again
  retryCH,  \* the channel between them
  owner,    \* what the owner of the object has done with it
  closing   \* clients Destroy still has to close

env  == <<up, downs>>
vars == <<up, downs, sock, clients, pinger, retrier, retryCH, owner, closing>>

Init ==
  /\ up      = Addrs
  /\ downs   = 0
  /\ clients = Given
  /\ sock    = [c \in Conns |-> IF \E a \in Addrs : Given[a] = c
                                THEN CHOOSE a \in Addrs : Given[a] = c ELSE "closed"]
  /\ pinger  = [a \in Addrs |-> [at |-> "top", conn |-> NoConn]]
  /\ retrier = [at |-> "idle", addr |-> CHOOSE a \in Addrs : TRUE]
  /\ retryCH = <<>>
  /\ owner   = "using"
  /\ closing = {}

Live(c) == sock[c] \in Addrs
stopped == owner # "using"   \* exitCH is closed

-----------------------------------------------------------------------------
\* The servers.
ServerDown(a) ==
  /\ a \in up /\ downs < MaxDowns
  /\ up' = up \ {a}
  /\ downs' = downs + 1
  /\ sock' = [c \in Conns |-> IF sock[c] = a THEN "dead" ELSE sock[c]]
  /\ UNCHANGED <<clients, pinger, retrier, retryCH, owner, closing>>

ServerUp(a) ==
  /\ a \notin up
  /\ up' = up \cup {a}
  /\ UNCHANGED <<downs, sock, clients, pinger, retrier, retryCH, owner, closing>>

-----------------------------------------------------------------------------
\* The ping goroutine of an address.
PingGoto(a, at, conn) == pinger' = [pinger EXCEPT ![a] = [at |-> at, conn |-> conn]]

PingExit(a) ==
  /\ pinger[a].at = "top" /\ stopped
  /\ PingGoto(a, "gone", NoConn)
  /\ UNCHANGED <<env, sock, clients, retrier, retryCH, owner, closing>>

PingStart(a) ==
  /\ pinger[a].at = "top" /\ ~ stopped
  /\ PingGoto(a, "call", clients[a])
  /\ UNCHANGED <<env, sock, clients, retrier, retryCH, owner, closing>>

PingOk(a) ==
  /\ pinger[a].at = "call" /\ Live(pinger[a].conn)
  /\ PingGoto(a, "top", NoConn)
  /\ UNCHANGED <<env, sock, clients, retrier, retryCH, owner, closing>>

\* Mutation: the client is looked up again to be closed.
CloseCurrent(a) == clients[a]

\* The client the goroutine closes when a ping failed.
Failed(a) == pinger[a].conn

PingFail(a) ==
  /\ pinger[a].at = "call" /\ ~ Live(pinger[a].conn)
  /\ sock' = [sock EXCEPT ![Failed(a)] = "closed"]
  /\ PingGoto(a, "send", NoConn)
  /\ UNCHANGED <<env, clients, retrier, retryCH, owner, closing>>

HasRoom == Len(retryCH) < RetryLen

\* The send blocks while the channel is full.
PingSend(a) ==
  /\ pinger[a].at = "send" /\ HasRoom
  /\ retryCH' = Append(retryCH, a)
  /\ PingGoto(a, "top", NoConn)
  /\ UNCHANGED <<env, sock, clients, retrier, owner, closing>>

-----------------------------------------------------------------------------
\* The goroutine that connects again; select takes either case when both are ready.
RetryTake ==
  /\ retrier.at = "idle" /\ retryCH # <<>>
  /\ retrier' = [at |-> "dial", addr |-> Head(retryCH)]
  /\ retryCH' = Tail(retryCH)
  /\ UNCHANGED <<env, sock, clients, pinger, owner, closing>>

RetryExit ==
  /\ retrier.at = "idle" /\ stopped
  /\ retrier' = [retrier EXCEPT !.at = "gone"]
  /\ UNCHANGED <<env, sock, clients, pinger, retryCH, owner, closing>>

\* A new client object: one that is not open and that nothing refers to.
Fresh(c) ==
  /\ sock[c] = "closed"
  /\ c \notin closing
  /\ \A a \in Addrs : clients[a] # c /\ pinger[a].conn # c

\* The new client replaces the old one in a copy of the map.
DialOk ==
  /\ retrier.at = "dial" /\ retrier.addr \in up
  /\ \E c \in Conns :
       /\ Fresh(c)
       /\ sock' = [sock EXCEPT ![c] = retrier.addr]
       /\ clients' = [clients EXCEPT ![retrier.addr] = c]
  /\ retrier' = [retrier EXCEPT !.at = "idle"]
  /\ UNCHANGED <<env, pinger, retryCH, owner, closing>>

\* Mutation: the address is dialled again without a look at exitCH.
AgainAtOnce == "dial"

\* Mutation: the goroutine ends with the first dial that fails.
GivesUp == "gone"

\* Where the goroutine goes on when the dial failed.
AfterDialFail == "idle"

DialFail ==
  /\ retrier.at = "dial" /\ retrier.addr \notin up
  /\ retrier' = [retrier EXCEPT !.at = AfterDialFail]
  /\ UNCHANGED <<env, sock, clients, pinger, retryCH, owner, closing>>

-----------------------------------------------------------------------------
\* The owner of the object.
Stop ==
  /\ owner = "using"
  /\ owner' = "stopped"
  /\ UNCHANGED <<env, sock, clients, pinger, retrier, retryCH, closing>>

\* Destroy goes through the map it finds when it begins.
Destroy ==
  /\ owner = "using"
  /\ owner' = "destroying"
  /\ closing' = {clients[a] : a \in Addrs}
  /\ UNCHANGED <<env, sock, clients, pinger, retrier, retryCH>>

DestroyClose ==
  /\ \E c \in closing :
       /\ closing' = closing \ {c}
       /\ sock' = [sock EXCEPT ![c] = "closed"]
       /\ owner' = IF closing = {c} THEN "destroyed" ELSE owner
  /\ UNCHANGED <<env, clients, pinger, retrier, retryCH>>

Pinger(a) == PingExit(a) \/ PingStart(a) \/ PingOk(a) \/ PingFail(a) \/ PingSend(a)
Retrier   == RetryTake \/ DialOk \/ DialFail

Next ==
  \/ \E a \in Addrs : ServerDown(a) \/ ServerUp(a) \/ Pinger(a)
  \/ Retrier \/ RetryExit \/ Stop \/ Destroy \/ DestroyClose

Spec == Init /\ [][Next]_vars

\* The goroutines are scheduled; nothing is said of the servers and the owner.
FairSpec ==
  /\ Spec
  /\ \A a \in Addrs : WF_vars(Pinger(a))
  /\ WF_vars(Retrier) /\ WF_vars(RetryExit) /\ WF_vars(DestroyClose)

-----------------------------------------------------------------------------
\* The types of the variables; retryCH keeps to its capacity.
TypeOK ==
  /\ up      \in SUBSET Addrs
  /\ downs   \in 0..MaxDowns
  /\ sock    \in [Conns -> Addrs \cup {"dead", "closed"}]
  /\ clients \in [Addrs -> Conns]
  /\ pinger  \in [Addrs -> [at : {"top", "call", "send", "gone"},
                            conn : Conns \cup {NoConn}]]
  /\ retrier \in [at : {"idle", "dial", "gone"}, addr : Addrs]
  /\ retryCH \in Seq(Addrs) /\ Len(retryCH) <= RetryLen
  /\ owner   \in {"using", "stopped", "destroying", "destroyed"}
  /\ closing \in SUBSET Conns

\* A ping that failed takes down the client it used and not the one that has
\* replaced it in the meantime: before Stop nobody closes a client that works.
OnlyBrokenAreClosed ==
  [][\A c \in Conns : Live(c) /\ sock'[c] = "closed" => stopped]_vars

\* When the server of an address is back for good, the clients of the address
\* work again for good, whatever happened and however the two goroutines met.
Reconnects ==
  \A a \in Addrs :
    <>[](a \in up /\ ~ stopped) => <>[]Live(clients[a])

\* Stop ends the goroutine that connects again.
RetrierStops == stopped ~> retrier.at = "gone"
=============================================================================
