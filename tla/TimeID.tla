-------------------------------- MODULE TimeID --------------------------------
(***************************************************************************)
(* The ids of a channel's messages (id/timeid.go): the clock in            *)
(* microseconds, or as long a sleep as it takes the clock to pass the last *)
(* id.  A sleep lasts at least as long as it was asked to.                 *)
(***************************************************************************)
EXTENDS Integers

VARIABLES
  lastID, \* TimeID.lastID
  sleep   \* microseconds ID has left to sleep, -1 when it is not called

NewTimeID == lastID = 0 /\ sleep = -1

\* Mutation: the clock may still show the last id.
Passed(now) == lastID > now

Behind(now) == lastID >= now

\* Mutation: the sleep ends when the clock shows the last id.
SleepToLast(now) == lastID - now

Sleep(now) == lastID - now + 1

\* One round of the loop of ID.
ID(now) ==
  IF Behind(now) THEN sleep' = Sleep(now) /\ UNCHANGED lastID
                 ELSE sleep' = -1 /\ lastID' = now
=============================================================================
