----------------------------- MODULE MessageStore -----------------------------
(***************************************************************************)
(* What the message service promises about private messages, whatever      *)
(* storage is configured (the Storage interface of message/storage.go).    *)
(*                                                                         *)
(* A reader asks for the messages of a key above an id, and what it gets   *)
(* leaves no hole: whatever was there, is not expired and is missing from  *)
(* the answer has an id above everything in the answer, so that asking     *)
(* again with the last id received fetches the rest.                       *)
(***************************************************************************)
EXTENDS Integers, FiniteSets

CONSTANTS
  Keys,      \* user keys
  Readers,   \* goroutines serving requests
  Positions, \* ids a reader may have reached
  Messages,  \* messages: records with an id mid, a body and an expiry second
  NoKey      \* the key of a call not made

VARIABLES
  room,  \* messages of a key the storage keeps, as it was configured
  now,   \* the clock, in seconds
  held,  \* messages stored for each key
  call   \* the GetPrivate call of a reader

vars == <<room, now, held, call>>

\* A reader that asks nothing, with the answer of its last call.
Done(answer) ==
  [at |-> "done", key |-> NoKey, mid |-> 0, from |-> 0, msgs |-> {},
   answer |-> answer]

Init ==
  /\ room \in Nat
  /\ now = 0
  /\ held = [k \in Keys |-> {}]
  /\ call = [r \in Readers |-> Done({})]

Tick == now' = now + 1 /\ UNCHANGED <<room, held, call>>

\* A message with the same content and the same expiry may be stored already: it
\* is kept under its new id, or beside the new one.
Same(m, n) == m.body = n.body /\ m.expire = n.expire

Save(k, m) ==
  /\ UNCHANGED <<room, now, call>>
  /\ \E old \in {{}, {n \in held[k] : Same(m, n)}} :
       held' = [held EXCEPT ![k] = (@ \ old) \cup {m}]

\* Messages below room newer ones of their key can be dropped.
Trim(k) ==
  /\ UNCHANGED <<room, now, call>>
  /\ \E old \in SUBSET held[k] :
       /\ \A m \in old :
            Cardinality({n \in held[k] \ old : n.mid >= m.mid}) >= room
       /\ held' = [held EXCEPT ![k] = @ \ old]

\* Messages are cleaned in the second they expire at the earliest.
Clean ==
  /\ UNCHANGED <<room, now, call>>
  /\ \A k \in Keys : held'[k] \subseteq held[k]
  /\ \A k \in Keys : \A m \in held[k] \ held'[k] : m.expire <= now
  /\ DOMAIN held' = Keys

Delete(k) ==
  /\ UNCHANGED <<room, now, call>>
  /\ held' = [held EXCEPT ![k] = {}]

Ask(r, k, mid) ==
  /\ UNCHANGED <<room, now, held>>
  /\ call[r].at = "done"
  /\ call' = [call EXCEPT ![r] = [at |-> "ask", key |-> k, mid |-> mid,
                                  from |-> now, msgs |-> {}, answer |-> {}]]

\* The storage is read at one point of the call.
Look(r) ==
  /\ UNCHANGED <<room, now, held>>
  /\ call[r].at = "ask"
  /\ call' = [call EXCEPT ![r].at = "look",
                ![r].msgs = {m \in held[call[r].key] : m.mid > call[r].mid}]

\* An initial part of the messages in set S, in the order of their ids.
InitialPart(part, S) == \A m \in part, n \in S \ part : m.mid <= n.mid

Answer(r) ==
  /\ UNCHANGED <<room, now, held>>
  /\ call[r].at = "look"
  /\ \E t \in call[r].from..now :
       LET live == {m \in call[r].msgs : m.expire >= t} IN
       \E part \in SUBSET live :
         /\ InitialPart(part, live)
         /\ call' = [call EXCEPT ![r] = Done(part)]

\* The call fails and answers nothing, or its answer was taken.
Clear(r) ==
  /\ UNCHANGED <<room, now, held>>
  /\ call' = [call EXCEPT ![r] = Done({})]

Next ==
  \/ Tick \/ Clean
  \/ \E k \in Keys : Trim(k) \/ Delete(k) \/ \E m \in Messages : Save(k, m)
  \/ \E r \in Readers :
       \/ \E k \in Keys, mid \in Positions : Ask(r, k, mid)
       \/ Look(r) \/ Answer(r) \/ Clear(r)

Spec == Init /\ [][Next]_vars
=============================================================================
