------------------------------ MODULE MarketUsers ------------------------------
(***************************************************************************)
(* Market users and their browser sessions: market_accounts.py (the SQLite *)
(* account store and the Redis session store with its reverse index) under *)
(* the routes of market_api.py.  A route is a thread of the server that    *)
(* calls one store after the other: every call is atomic, nothing spans    *)
(* two of them.                                                            *)
(***************************************************************************)
EXTENDS Naturals, Sequences, FiniteSets

CONSTANTS MuUsers,
          MuTokens,      (* session ids a server hands out                  *)
          MuHandlers,    (* threads that serve requests                     *)
          MuAttempts,    (* failed logins allowed within a minute           *)
          MuMaxChanges,  (* bound on password changes and on disabling      *)
          MuNone

ASSUME MuAssumption ==
  /\ MuAttempts \in Nat \ {0} /\ MuMaxChanges \in Nat
  /\ MuUsers # {} /\ MuNone \notin MuUsers \cup MuTokens
  /\ IsFiniteSet(MuTokens) /\ IsFiniteSet(MuHandlers) /\ MuHandlers # {}

VARIABLES muser,   (* the row of each user, with its history of changes      *)
          mlive,   (* the session stored under each token, or MuNone         *)
          mindex,  (* the reverse index: tokens recorded for each user       *)
          mfails,  (* failed logins of the last minute, per name             *)
          mjob,    (* the request each thread serves: calls still to make    *)
          mlost    (* history: a revocation of the user's sessions got lost  *)

muvars == <<muser, mlive, mindex, mfails, mjob, mlost>>

(* What is counted tells a password or a stay from the earlier ones; the    *)
(* code stores a hash and a flag.  A request knows the row it was           *)
(* authenticated against, and a session the one its request knew.           *)
MuEra == [pass : 0 .. MuMaxChanges, off : 0 .. MuMaxChanges]
MuUser == [era : MuEra, enabled : BOOLEAN, must : BOOLEAN]
MuSession == [user : MuUsers, born : MuEra]
MuCalls == {"verify", "fail", "clear", "create", "revoke", "change", "reset",
            "disable", "enable"}
MuJob == [user : MuUsers, known : MuEra, calls : Seq(MuCalls)]
MuIdle == [user |-> CHOOSE u \in MuUsers : TRUE,
           known |-> [pass |-> 0, off |-> 0], calls |-> <<>>]

MuInit ==
  /\ muser = [u \in MuUsers |-> [era |-> [pass |-> 0, off |-> 0],
                                 enabled |-> TRUE, must |-> TRUE]]
  /\ mlive = [t \in MuTokens |-> MuNone]
  /\ mindex = [u \in MuUsers |-> {}]
  /\ mfails = [u \in MuUsers |-> 0]
  /\ mjob = [h \in MuHandlers |-> MuIdle]
  /\ mlost = [u \in MuUsers |-> FALSE]

(* What a request still has to call; with nothing left it ends.             *)
MuGoes(h, u, era, calls) ==
  mjob' = [mjob EXCEPT ![h] =
    IF calls = <<>> THEN MuIdle
                    ELSE [user |-> u, known |-> era, calls |-> calls]]

Serves(h, u, calls) ==
  /\ mjob[h].calls = <<>>
  /\ MuGoes(h, u, muser[u].era, calls)

Calling(h, call) == mjob[h].calls # <<>> /\ Head(mjob[h].calls) = call

Returned(h) == MuGoes(h, mjob[h].user, mjob[h].known, Tail(mjob[h].calls))
Ended(h) == MuGoes(h, mjob[h].user, mjob[h].known, <<>>)

(* login_allowed; the mutant lets one failure more pass.                    *)
MuMayTryMutant(u) == mfails[u] <= MuAttempts
MuMayTry(u) == mfails[u] < MuAttempts

(* POST /api/v1/session: the limit is looked at, the row read and the       *)
(* password verified, a failure counted or the failures forgotten and the   *)
(* session created, each by itself.                                         *)
MuLogin(h, u) ==
  /\ MuMayTry(u)
  /\ Serves(h, u, <<"verify">>)
  /\ UNCHANGED <<muser, mlive, mindex, mfails, mlost>>

(* authenticate: a disabled account is refused like a wrong password.       *)
MuVerify(h) ==
  LET u == mjob[h].user
  IN  /\ Calling(h, "verify")
      /\ \/ /\ muser[u].enabled
            /\ MuGoes(h, u, muser[u].era, <<"clear", "create">>)
         \/ MuGoes(h, u, mjob[h].known, <<"fail">>)
      /\ UNCHANGED <<muser, mlive, mindex, mfails, mlost>>

CountFailure(h) ==
  /\ Calling(h, "fail")
  /\ mfails' = [mfails EXCEPT ![mjob[h].user] = @ + 1]
  /\ Returned(h)
  /\ UNCHANGED <<muser, mlive, mindex, mlost>>

ForgetFailures(h) ==
  /\ Calling(h, "clear")
  /\ mfails' = [mfails EXCEPT ![mjob[h].user] = 0]
  /\ Returned(h)
  /\ UNCHANGED <<muser, mlive, mindex, mlost>>

(* The oldest failure is a minute old.                                      *)
MuMinutePasses(u) ==
  /\ mfails[u] > 0
  /\ mfails' = [mfails EXCEPT ![u] = @ - 1]
  /\ UNCHANGED <<muser, mlive, mindex, mjob, mlost>>

(* require_market_session: the stored session, then the user it is of.      *)
MuAdmitted(t) == mlive[t] # MuNone /\ muser[mlive[t].user].enabled

ForgetSession(t) ==
  /\ mlive' = [mlive EXCEPT ![t] = MuNone]
  /\ mindex' = [mindex EXCEPT ![mlive[t].user] = @ \ {t}]

(* A request with the session of a disabled user revokes it.                *)
MuRefused(t) ==
  /\ mlive[t] # MuNone
  /\ ~muser[mlive[t].user].enabled
  /\ ForgetSession(t)
  /\ UNCHANGED <<muser, mfails, mjob, mlost>>

MuLogout(t) ==
  /\ MuAdmitted(t)
  /\ ForgetSession(t)
  /\ UNCHANGED <<muser, mfails, mjob, mlost>>

(* Redis drops the payload after seven days and leaves the index entry.     *)
MuExpire(t) ==
  /\ mlive[t] # MuNone
  /\ mlive' = [mlive EXCEPT ![t] = MuNone]
  /\ UNCHANGED <<muser, mindex, mfails, mjob, mlost>>

PasswordCallsMutant == <<"revoke", "change", "create">>
PasswordCalls == <<"change", "revoke", "create">>

(* POST /api/v1/session/password.                                           *)
MuChangePassword(h, t) ==
  /\ MuAdmitted(t)
  /\ Serves(h, mlive[t].user, PasswordCalls)
  /\ UNCHANGED <<muser, mlive, mindex, mfails, mlost>>

PatchCalls(reset, enabled) ==
  (IF reset THEN <<"reset", "revoke">> ELSE <<>>) \o
  CASE enabled = "keep" -> <<>>
    [] enabled = "on" -> <<"enable">>
    [] enabled = "off" -> <<"disable", "revoke">>

(* PATCH /api/admin/users/{user_id}, with one field or both.                *)
MuPatch(h, u, reset, enabled) ==
  /\ reset \/ enabled # "keep"
  /\ Serves(h, u, PatchCalls(reset, enabled))
  /\ UNCHANGED <<muser, mlive, mindex, mfails, mlost>>

NewPassword(u) == [muser[u].era EXCEPT !.pass = @ + 1]
NewAbsence(u) == [muser[u].era EXCEPT !.off = @ + 1]

(* change_password verifies the current password and stores the new one in  *)
(* one transaction, if the account is enabled; otherwise the request ends.  *)
Change(h, u) ==
  \/ /\ muser[u].enabled
     /\ muser[u].era.pass < MuMaxChanges
     /\ muser' = [muser EXCEPT ![u] =
          [muser[u] EXCEPT !.era = NewPassword(u), !.must = FALSE]]
     /\ MuGoes(h, u, NewPassword(u), Tail(mjob[h].calls))
  \/ Ended(h) /\ UNCHANGED muser

Reset(h, u) ==
  /\ muser[u].era.pass < MuMaxChanges
  /\ muser' = [muser EXCEPT ![u] =
       [muser[u] EXCEPT !.era = NewPassword(u), !.must = TRUE]]
  /\ Returned(h)

Disable(h, u) ==
  /\ muser[u].era.off < MuMaxChanges
  /\ muser' = [muser EXCEPT ![u] =
       [muser[u] EXCEPT !.era = NewAbsence(u), !.enabled = FALSE]]
  /\ Returned(h)

Enable(h, u) ==
  /\ muser' = [muser EXCEPT ![u].enabled = TRUE]
  /\ Returned(h)

AccountCall(h, call) ==
  /\ Calling(h, call)
  /\ CASE call = "change" -> Change(h, mjob[h].user)
       [] call = "reset" -> Reset(h, mjob[h].user)
       [] call = "disable" -> Disable(h, mjob[h].user)
       [] call = "enable" -> Enable(h, mjob[h].user)
  /\ UNCHANGED <<mlive, mindex, mfails, mlost>>

(* Payload and index entry in one transaction.                              *)
CreateSession(h, t) ==
  LET u == mjob[h].user
  IN  /\ Calling(h, "create")
      /\ mlive[t] = MuNone
      /\ t \notin UNION {mindex[v] : v \in MuUsers}
      /\ mlive' = [mlive EXCEPT ![t] = [user |-> u, born |-> mjob[h].known]]
      /\ mindex' = [mindex EXCEPT ![u] = @ \cup {t}]
      /\ Returned(h)
      /\ UNCHANGED <<muser, mfails, mlost>>

(* The script: every token the index lists, then the index.                 *)
RevokeUser(h) ==
  LET u == mjob[h].user
  IN  /\ Calling(h, "revoke")
      /\ mlive' = [t \in MuTokens |-> IF t \in mindex[u] THEN MuNone
                                      ELSE mlive[t]]
      /\ mindex' = [mindex EXCEPT ![u] = {}]
      /\ mlost' = [mlost EXCEPT ![u] = FALSE]
      /\ Returned(h)
      /\ UNCHANGED <<muser, mfails>>

(* A call of SQLite or Redis raises, and nothing catches it: the request    *)
(* ends with what it has done so far.                                       *)
CallFails(h) ==
  /\ mjob[h].calls # <<>> /\ Head(mjob[h].calls) \notin {"fail", "clear"}
  /\ Ended(h)
  /\ mlost' = [mlost EXCEPT ![mjob[h].user] = @ \/ Calling(h, "revoke")]
  /\ UNCHANGED <<muser, mlive, mindex, mfails>>

Revoking(u) == \E h \in MuHandlers : mjob[h].user = u /\ Calling(h, "revoke")

(* The API restarts: requests and counted failures are gone, the accounts   *)
(* and the sessions are not.                                                *)
MuRestart ==
  /\ mjob' = [h \in MuHandlers |-> MuIdle]
  /\ mfails' = [u \in MuUsers |-> 0]
  /\ mlost' = [u \in MuUsers |-> mlost[u] \/ Revoking(u)]
  /\ UNCHANGED <<muser, mlive, mindex>>

MuNext ==
  \/ MuRestart
  \/ \E u \in MuUsers : MuMinutePasses(u)
  \/ \E t \in MuTokens : MuRefused(t) \/ MuLogout(t) \/ MuExpire(t)
  \/ \E h \in MuHandlers :
       \/ MuVerify(h) \/ CountFailure(h) \/ ForgetFailures(h)
       \/ RevokeUser(h) \/ CallFails(h)
       \/ \E c \in {"change", "reset", "disable", "enable"} :
            AccountCall(h, c)
       \/ \E t \in MuTokens : CreateSession(h, t) \/ MuChangePassword(h, t)
       \/ \E u \in MuUsers :
            \/ MuLogin(h, u)
            \/ \E r \in BOOLEAN, e \in {"keep", "on", "off"} :
                 MuPatch(h, u, r, e)

MuSpec == MuInit /\ [][MuNext]_muvars

(* The shape of the accounts, the stored sessions and the requests.         *)
MuTypeOK ==
  /\ muser \in [MuUsers -> MuUser]
  /\ mlive \in [MuTokens -> MuSession \cup {MuNone}]
  /\ mindex \in [MuUsers -> SUBSET MuTokens]
  /\ mfails \in [MuUsers -> Nat]
  /\ mjob \in [MuHandlers -> MuJob]
  /\ mlost \in [MuUsers -> BOOLEAN]

(* Stored sessions that were authenticated before the last change of the    *)
(* user's password or before the account was last disabled.                 *)
EarlierSessions(u) ==
  {t \in MuTokens : mlive[t] # MuNone /\ mlive[t].user = u
                       /\ mlive[t].born # muser[u].era}

(* However requests of the user, of other browsers and of administrators    *)
(* overlap, fail and restart: once the sessions of a user are revoked after *)
(* the last such change, the earlier ones that are stored come from         *)
(* requests that overlapped the revocation and created their session late,  *)
(* at most one per thread but the one that revoked.  Excepted is a user     *)
(* whose revocation is still to come or got lost between the account store  *)
(* and the session store.  It rests on the reverse index listing every      *)
(* stored session.                                                          *)
EarlierSessionsBounded ==
  \A u \in MuUsers :
    \/ Revoking(u) \/ mlost[u]
    \/ Cardinality(EarlierSessions(u)) < Cardinality(MuHandlers)

(* The attempts on a name that were admitted and are not counted.           *)
MuTrying(u) ==
  {h \in MuHandlers :
     mjob[h].user = u /\ (Calling(h, "verify") \/ Calling(h, "fail"))}

(* The limit on failed logins is overrun by at most the attempts that run   *)
(* at the same time: check, verification and count are steps of their own.  *)
MarketGuessesBounded ==
  \A u \in MuUsers :
    mfails[u] + Cardinality(MuTrying(u))
      < MuAttempts + Cardinality(MuHandlers)
==============================================================================
