---------------------------- MODULE AdminSessions ----------------------------
(***************************************************************************)
(* The administrator's password, sessions and login limit (security.py) as *)
(* the request threads of api.py use them: a handler checks, verifies and  *)
(* records in separate steps, and only each step holds the lock.           *)
(* One client address; time is in ticks of the failure window.             *)
(***************************************************************************)
EXTENDS Naturals, Sequences, FiniteSets, Selection

CONSTANTS AdHandlers,  (* request threads                                    *)
          AdPasswords, (* passwords an administrator or a guess may name     *)
          AdFirst,     (* the one in force at the beginning                  *)
          AdLimit,     (* login_failure_limit                                *)
          AdWindow,    (* login_failure_window                               *)
          AdTtl,       (* session_ttl                                        *)
          AdCap,       (* _max_sessions                                      *)
          AdEnd        (* bound: the last tick                               *)

ASSUME AdAssumption ==
  /\ IsFiniteSet(AdHandlers) /\ AdFirst \in AdPasswords
  /\ {AdLimit, AdWindow, AdTtl, AdCap, AdEnd} \subseteq Nat \ {0}

VARIABLES adnow,      (* the tick                                            *)
          adhash,     (* password_hash in memory                             *)
          adfile,     (* the persisted hash                                  *)
          adfailures, (* _login_failures of the address: times               *)
          adsessions, (* _sessions: the expiry of the one each thread opened *)
          adstep      (* what each request thread is doing                   *)

advars == <<adnow, adhash, adfile, adfailures, adsessions, adstep>>

AdIdle == [at |-> "idle"]
AdSteps ==
  {AdIdle} \cup
  [at : {"allowed"}, word : AdPasswords] \cup
  [at : {"refused", "verified", "opened", "stored"}] \cup
  [at : {"persist", "replace"}, word : AdPasswords]

(* Of a thread's sessions only the latest is kept; 0 when it has none.      *)
AdInit ==
  /\ adnow = 1 /\ adhash = AdFirst /\ adfile = AdFirst
  /\ adfailures = <<>> /\ adsessions = [h \in AdHandlers |-> 0]
  /\ adstep = [h \in AdHandlers |-> AdIdle]

(* _prune_locked                                                            *)
RecentFailures == Keep(adfailures, {t \in 1 .. AdEnd : t + AdWindow > adnow})
LiveSessions(ss) ==
  [h \in AdHandlers |-> IF ss[h] > adnow THEN ss[h] ELSE 0]

AdGoes(h, at, to) ==
  /\ adstep[h].at = at
  /\ adstep' = [adstep EXCEPT ![h] = to]

MayTryMutant(n) == n <= AdLimit

MayTry(n) == n < AdLimit

(* admin_login: login_allowed                                               *)
LoginAllowed(h, p) ==
  /\ adfailures' = RecentFailures /\ adsessions' = LiveSessions(adsessions)
  /\ AdGoes(h, "idle", IF MayTry(Len(RecentFailures))
                       THEN [at |-> "allowed", word |-> p] ELSE AdIdle)
  /\ UNCHANGED <<adnow, adhash, adfile>>

(* authenticate verifies against the hash it finds, without the lock.       *)
VerifyLogin(h) ==
  /\ AdGoes(h, "allowed",
            [at |-> IF adstep[h].word = adhash THEN "verified" ELSE "refused"])
  /\ UNCHANGED <<adnow, adhash, adfile, adfailures, adsessions>>

(* record_login_failure                                                     *)
RecordFailure(h) ==
  /\ AdGoes(h, "refused", AdIdle)
  /\ adfailures' = Append(RecentFailures, adnow)
  /\ adsessions' = LiveSessions(adsessions)
  /\ UNCHANGED <<adnow, adhash, adfile>>

(* A new session is stored; beyond the cap, the first to expire goes.       *)
OpenSession(h) ==
  /\ AdGoes(h, "verified", [at |-> "opened"])
  /\ LET ss == [LiveSessions(adsessions) EXCEPT ![h] = adnow + AdTtl]
         live == {g \in AdHandlers : ss[g] # 0}
     IN IF Cardinality(live) > AdCap
        THEN \E g \in live :
               /\ \A k \in live : ss[g] <= ss[k]
               /\ adsessions' = [ss EXCEPT ![g] = 0]
        ELSE adsessions' = ss
  /\ adfailures' = RecentFailures
  /\ UNCHANGED <<adnow, adhash, adfile>>

(* record_login_success                                                     *)
RecordSuccess(h) ==
  /\ AdGoes(h, "opened", AdIdle)
  /\ adfailures' = <<>>
  /\ UNCHANGED <<adnow, adhash, adfile, adsessions>>

(* admin_change_password, with a session that is still valid: verify, then  *)
(* persist, then replace in memory, then forget sessions and failures.      *)
VerifyChange(h, old, new) ==
  /\ adsessions[h] > adnow
  /\ AdGoes(h, "idle", IF old = adhash THEN [at |-> "persist", word |-> new]
                       ELSE AdIdle)
  /\ adfailures' = RecentFailures /\ adsessions' = LiveSessions(adsessions)
  /\ UNCHANGED <<adnow, adhash, adfile>>

PersistPassword(h) ==
  /\ AdGoes(h, "persist", [at |-> "replace", word |-> adstep[h].word])
  /\ adfile' = adstep[h].word
  /\ UNCHANGED <<adnow, adhash, adfailures, adsessions>>

(* The file is not written, or its mode cannot be set once it is in place.  *)
PersistFails(h) ==
  /\ AdGoes(h, "persist", AdIdle)
  /\ adfile' \in {adfile, adstep[h].word}
  /\ UNCHANGED <<adnow, adhash, adfailures, adsessions>>

ReplacePassword(h) ==
  /\ AdGoes(h, "replace", [at |-> "stored"])
  /\ adhash' = adstep[h].word
  /\ UNCHANGED <<adnow, adfile, adfailures, adsessions>>

ForgetSessions(h) ==
  /\ AdGoes(h, "stored", AdIdle)
  /\ adsessions' = [g \in AdHandlers |-> 0] /\ adfailures' = <<>>
  /\ UNCHANGED <<adnow, adhash, adfile>>

(* require_admin finds an expired session, or admin_logout revokes it.      *)
DropSession(h) ==
  /\ adstep[h] = AdIdle /\ adsessions[h] # 0
  /\ adsessions' = [LiveSessions(adsessions) EXCEPT ![h] = 0]
  /\ adfailures' = RecentFailures
  /\ UNCHANGED <<adnow, adhash, adfile, adstep>>

AdTick ==
  /\ adnow < AdEnd /\ adnow' = adnow + 1
  /\ UNCHANGED <<adhash, adfile, adfailures, adsessions, adstep>>

(* The service restarts and reads the hash of the password file.            *)
AdRestart ==
  /\ adhash' = adfile /\ adfailures' = <<>>
  /\ adsessions' = [h \in AdHandlers |-> 0]
  /\ adstep' = [h \in AdHandlers |-> AdIdle]
  /\ UNCHANGED <<adnow, adfile>>

AdNext ==
  \/ AdTick \/ AdRestart
  \/ \E h \in AdHandlers :
       \/ \E p \in AdPasswords : \/ LoginAllowed(h, p)
                                 \/ \E q \in AdPasswords : VerifyChange(h, p, q)
       \/ VerifyLogin(h) \/ RecordFailure(h) \/ OpenSession(h) \/ RecordSuccess(h)
       \/ PersistPassword(h) \/ PersistFails(h) \/ ReplacePassword(h)
       \/ ForgetSessions(h) \/ DropSession(h)

AdSpec == AdInit /\ [][AdNext]_advars

-----------------------------------------------------------------------------
(* The shape of the password, the sessions and the request threads.         *)
AdTypeOK ==
  /\ adnow \in 1 .. AdEnd /\ {adhash, adfile} \subseteq AdPasswords
  /\ adfailures \in Seq(1 .. AdEnd)
  /\ adsessions \in [AdHandlers -> Nat] /\ adstep \in [AdHandlers -> AdSteps]

(* Threads check the limit before they verify and count after it, yet the   *)
(* failures one window remembers and the attempts still being verified      *)
(* never exceed the limit by more than the other threads                    *)
(* (login_allowed, record_login_failure).                                   *)
GuessesBounded ==
  Len(RecentFailures)
    + Cardinality({h \in AdHandlers : adstep[h].at \in {"allowed", "refused"}})
  < AdLimit + Cardinality(AdHandlers)
=============================================================================
