----------------------------- MODULE SettingsSync -----------------------------
(***************************************************************************)
(* The settings of one account, kept by the account server and pushed and  *)
(* pulled by several devices (services/syncService, SettingsRepository).   *)
(*                                                                         *)
(* The server numbers the versions of the settings.  A device remembers    *)
(* the revision it last pulled or pushed and sends it with its next push:  *)
(* the server refuses a push that expects another revision.  The check is  *)
(* a SELECT and the write an UPDATE of the same READ COMMITTED transaction *)
(* without a lock, so that two pushes can pass the check together.         *)
(*                                                                         *)
(* A request may be slow or lost: the device gives up after its timeout,   *)
(* and the server may work on the request all the same.  What a push sends *)
(* is identified with the push: version n is what the n-th push carries.   *)
(***************************************************************************)
EXTENDS Integers

CONSTANTS
  Devices,     \* the devices signed in to the account
  MaxPushes,   \* bound on the pushes
  MayReset     \* whether the settings may be deleted on the server

VARIABLES
  stored,    \* the row of the account in user_settings
  meta,      \* device -> its SyncMeta, and the version its revision came with
  pushes,    \* the pushes made, and how far they are
  pulled     \* device -> the answer to its last pull, while it is under way

vars == <<stored, meta, pushes, pulled>>

\* A version of the settings, or none: revision 0 and no row.
Known == [revision : 0..MaxPushes, version : 0..MaxPushes]
None == [revision |-> 0, version |-> 0]
Pushes == [by : Devices, expected : 0..MaxPushes, read : 0..MaxPushes,
           at : {"sent", "checked", "stored", "refused", "told"}, revision : 0..MaxPushes]

TypeOK ==
  /\ stored \in Known
  /\ meta \in [Devices -> Known]
  /\ DOMAIN pushes \in {1..n : n \in 0..MaxPushes} /\ \A n \in DOMAIN pushes : pushes[n] \in Pushes
  /\ pulled \in [Devices -> SUBSET Known]

Init ==
  /\ stored = None
  /\ meta = [d \in Devices |-> None]
  /\ pushes = [n \in {} |-> None]
  /\ pulled = [d \in Devices |-> {}]

Count == IF DOMAIN pushes = {} THEN 0 ELSE CHOOSE n \in DOMAIN pushes : n + 1 \notin DOMAIN pushes

-----------------------------------------------------------------------------
(* The server.                                                             *)

\* The check of putSettings: the row is read, and its revision compared when one
\* is expected (0 stands for a push that expects none).
Accepts(p) == p.expected \in {0, stored.revision}

Check(n) ==
  /\ pushes[n].at = "sent"
  /\ pushes' = [pushes EXCEPT ![n].at = IF Accepts(pushes[n]) THEN "checked" ELSE "refused",
                              ![n].read = IF Accepts(pushes[n]) THEN stored.revision ELSE 0]
  /\ UNCHANGED <<stored, meta, pulled>>

\* Here the revision the check has read is counted on.
NextRevisionOfTheRowRead(p) == p.read + 1

\* The statement that writes: revision + 1 of the row as it then is.
NextRevision(p) == stored.revision + 1

\* The write: an UPDATE when the check found a row, an INSERT when it found none.
\* The first fails when the row has gone, the second when it has come.
Store(n) ==
  LET ok == (pushes[n].read = 0) <=> (stored = None)
      new == [revision |-> NextRevision(pushes[n]), version |-> n]
  IN /\ pushes[n].at = "checked"
     /\ stored' = IF ok THEN new ELSE stored
     /\ pushes' = [pushes EXCEPT ![n].at = IF ok THEN "stored" ELSE "refused",
                                 ![n].revision = IF ok THEN new.revision ELSE 0,
                                 ![n].read = 0]
     /\ UNCHANGED <<meta, pulled>>

\* DELETE /v1/settings, or a restore of a backup without settings.
Reset ==
  /\ MayReset
  /\ stored' = None
  /\ UNCHANGED <<meta, pushes, pulled>>

-----------------------------------------------------------------------------
(* A device.                                                               *)

\* pushAll: a forced push, and one of a device that knows no revision, expects none.
\* A push does not wait for another: the timer's retry runs beside the user's.
Push(d, force) ==
  LET n == Count + 1
  IN /\ n <= MaxPushes
     /\ pushes' = [k \in DOMAIN pushes \cup {n} |->
                     IF k # n THEN pushes[k]
                     ELSE [by |-> d, expected |-> IF force THEN 0 ELSE meta[d].revision,
                           read |-> 0, at |-> "sent", revision |-> 0]]
     /\ UNCHANGED <<stored, meta, pulled>>

\* markPushed.  A push that was refused or failed, or whose answer is lost or comes
\* too late, changes nothing at its device: it is never told.
Pushed(n) ==
  /\ pushes[n].at = "stored"
  /\ meta' = [meta EXCEPT ![pushes[n].by] = [revision |-> pushes[n].revision, version |-> n]]
  /\ pushes' = [pushes EXCEPT ![n].at = "told"]
  /\ UNCHANGED <<stored, pulled>>

\* pullAll: the server reads the row, and its answer is on the way; it may come
\* after later pushes of the device, or never (the pull after a sign-in and the
\* retry by the timer run beside a push).
Pull(d) ==
  /\ pulled' = [pulled EXCEPT ![d] = {stored}]
  /\ UNCHANGED <<stored, meta, pushes>>

\* applyFromServer
Pulled(d) ==
  /\ pulled[d] # {}
  /\ \E answer \in pulled[d] : meta' = [meta EXCEPT ![d] = answer]
  /\ pulled' = [pulled EXCEPT ![d] = {}]
  /\ UNCHANGED <<stored, pushes>>

\* adoptAccount: signing out, and in again, forgets the revision; a request that
\* is under way then is not called off.
SignOut(d) ==
  /\ meta' = [meta EXCEPT ![d] = None]
  /\ UNCHANGED <<stored, pushes, pulled>>

-----------------------------------------------------------------------------
Next ==
  \/ \E n \in DOMAIN pushes : Check(n)
  \/ \E n \in DOMAIN pushes : Store(n)
  \/ \E n \in DOMAIN pushes : Pushed(n)
  \/ Reset
  \/ \E d \in Devices : \E force \in BOOLEAN : Push(d, force)
  \/ \E d \in Devices : Pull(d) \/ Pulled(d) \/ SignOut(d)

Spec == Init /\ [][Next]_vars

-----------------------------------------------------------------------------
(* A device that holds the server's revision holds, or has sent, the       *)
(* version that is on the server: the number a push expects stands for the *)
(* settings its device has seen, whatever pushes crossed and whichever     *)
(* answers were late or lost (expectedRevision, putSettings).              *)
RevisionNamesItsData ==
  \A d \in Devices : meta[d].revision = stored.revision => meta[d] = stored

-----------------------------------------------------------------------------
(* What the code's own comments say and the model refutes: nothing checks  *)
(* these; README.md tells the instances that show why.                     *)

(* A push that expects a revision replaces the version its device held     *)
(* (SettingsRepository.putSettings: "传入时做乐观并发校验").               *)
NoUnseenOverwrite ==
  [][\A n \in DOMAIN pushes :
       (pushes[n].at = "checked" /\ pushes'[n].at = "stored" /\ pushes[n].expected # 0)
         => pushes[n].expected = stored.revision]_vars

(* The revisions of the settings only grow (SettingsRepository: "revision  *)
(* 单调递增做乐观并发").                                                   *)
RevisionsGrow == [][stored' # stored => stored'.revision > stored.revision]_vars
=============================================================================
