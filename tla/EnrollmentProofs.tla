-------------------------- MODULE EnrollmentProofs --------------------------
(***************************************************************************)
(* While the leader of an enrollment waits for the user, no session other  *)
(* than its own can become the pending one: for any number of processes    *)
(* and browser launches, whatever mishaps occur.                           *)
(*                                                                         *)
(* The argument: from the moment it takes the lock to the moment it has    *)
(* recorded its session a process holds the lock (LeaderHoldsLock), only a *)
(* process in that section records a session, and it enters the last part  *)
(* of it only when no usable session is pending.                           *)
(*                                                                         *)
(* A second invariant counts: before it has asked, a run has opened no     *)
(* browser, or one if it came back with a rejected credential.             *)
(***************************************************************************)
EXTENDS Enrollment, TLAPS

(* The steps that are taken under the leader lock and nowhere else: *)
LeaderSteps == {"recheck", "reload", "browser", "record"}

LeaderHoldsLock == \A p \in Process : pc[p] \in LeaderSteps => leader = p

IInv ==
  /\ pc \in [Process -> Pc]
  /\ LeaderHoldsLock
  /\ LeaderRecordsItsOwnSession

(* A process that stops, or goes on outside the section, releases the lock or
   never had it: nobody else's lock is disturbed and nobody enters the section. *)
LEMMA LeavingKeepsIInv ==
  ASSUME IInv, NEW p \in Process, NEW step \in Pc \ LeaderSteps,
         pc' = [pc EXCEPT ![p] = step],
         leader' = leader \/ Release(p),
         UsableSession = None => UsableSession' = None
  PROVE  IInv'
<1>1. pc' \in [Process -> Pc]
  BY DEF IInv
<1>2. \A q \in Process : pc'[q] \in LeaderSteps => q # p /\ pc[q] = pc'[q]
  BY DEF IInv
<1>3. \A q \in Process : pc'[q] \in LeaderSteps => leader' = q
  BY <1>2 DEF IInv, LeaderHoldsLock, Release
<1>4. \A q \in Process : pc'[q] \in {"browser", "record"} => UsableSession' = None
  BY <1>2 DEF IInv, LeaderRecordsItsOwnSession, LeaderSteps
<1> QED
  BY <1>1, <1>3, <1>4 DEF IInv, LeaderHoldsLock, LeaderRecordsItsOwnSession, LeaderSteps

(* Ending a run is leaving the section. *)
LEMMA EndRunKeepsIInv ==
  ASSUME IInv, NEW p \in Process, EndRun(p),
         UsableSession = None => UsableSession' = None
  PROVE  IInv'
<1>1. "off" \in Pc \ LeaderSteps
  BY DEF Pc, LeaderSteps
<1> QED
  BY <1>1, LeavingKeepsIInv DEF EndRun, Goto

(* So is obtaining a credential, whatever the process was asked to do. *)
LEMMA ObtainedKeepsIInv ==
  ASSUME IInv, NEW p \in Process, NEW cred, Obtained(p, cred),
         UsableSession = None => UsableSession' = None
  PROVE  IInv'
<1>1. CASE KindOf[p] = "enroll"
  BY <1>1, EndRunKeepsIInv DEF Obtained
<1>2. CASE KindOf[p] # "enroll"
  <2>1. "policy" \in Pc \ LeaderSteps
    BY DEF Pc, LeaderSteps
  <2> QED
    BY <1>2, <2>1, LeavingKeepsIInv DEF Obtained, Goto
<1> QED
  BY <1>1, <1>2

(* A step inside the section keeps the lock. *)
LEMMA StayingKeepsIInv ==
  ASSUME IInv, NEW p \in Process, NEW step \in LeaderSteps,
         pc' = [pc EXCEPT ![p] = step],
         leader = p, leader' = leader,
         UsableSession' = UsableSession,
         step \in {"browser", "record"} => UsableSession = None
  PROVE  IInv'
<1>1. pc' \in [Process -> Pc]
  BY DEF IInv, LeaderSteps, Pc
<1>2. \A q \in Process \ {p} : pc'[q] \notin LeaderSteps
  BY DEF IInv, LeaderHoldsLock
<1>3. pc'[p] = step
  BY DEF IInv
<1> QED
  BY <1>1, <1>2, <1>3 DEF IInv, LeaderHoldsLock, LeaderRecordsItsOwnSession, LeaderSteps

(* At the start nobody runs. *)
LEMMA InitIInv == Init => IInv
  BY DEF Init, IInv, LeaderHoldsLock, LeaderRecordsItsOwnSession, LeaderSteps, Pc

(* No step of a process, the user, the service or a mishap breaks IInv. *)
LEMMA InductiveStep == IInv /\ [Next]_vars => IInv'
<1> SUFFICES ASSUME IInv, [Next]_vars PROVE IInv'
  OBVIOUS
<1> USE DEF state, service, run, history
<1>1. ASSUME NEW p \in Process, StartWithCredential(p) PROVE IInv'
  BY <1>1, ObtainedKeepsIInv DEF StartWithCredential, UsableSession
<1>2. ASSUME NEW p \in Process, StartEnrollment(p) PROVE IInv'
  BY <1>2, LeavingKeepsIInv DEF StartEnrollment, UsableSession, Goto, Pc, LeaderSteps
<1>3. ASSUME NEW p \in Process, LoadPending(p) PROVE IInv'
  BY <1>3, LeavingKeepsIInv DEF LoadPending, UsableSession, Goto, Pc, LeaderSteps
<1>4. ASSUME NEW p \in Process, TryLeaderLock(p) PROVE IInv'
  <2>1. UsableSession' = UsableSession
    BY <1>4 DEF TryLeaderLock, UsableSession
  <2>2. CASE leader # NoProcess
    BY <1>4, <2>1, <2>2, LeavingKeepsIInv DEF TryLeaderLock, Goto, Pc, LeaderSteps
  <2>3. CASE leader = NoProcess
    <3>1. leader' = p /\ pc' = [pc EXCEPT ![p] = "recheck"]
      BY <1>4, <2>3 DEF TryLeaderLock, Goto
    <3>2. \A q \in Process : pc[q] \notin LeaderSteps
      BY <2>3, NoProcessIsNone DEF IInv, LeaderHoldsLock
    <3>3. pc' \in [Process -> Pc]
      BY <3>1 DEF IInv, Pc
    <3>4. \A q \in Process : pc'[q] \in LeaderSteps => q = p /\ pc'[q] = "recheck"
      BY <3>1, <3>2 DEF IInv
    <3> QED
      BY <3>1, <3>3, <3>4 DEF IInv, LeaderHoldsLock, LeaderRecordsItsOwnSession, LeaderSteps
  <2> QED
    BY <2>2, <2>3
<1>5. ASSUME NEW p \in Process, Follow(p) PROVE IInv'
  <2>1. UsableSession' = UsableSession
    BY <1>5 DEF Follow, UsableSession
  <2> QED
    BY <1>5, <2>1, EndRunKeepsIInv, ObtainedKeepsIInv DEF Follow
<1>6. ASSUME NEW p \in Process, Recheck(p) PROVE IInv'
  <2>1. UsableSession' = UsableSession
    BY <1>6 DEF Recheck, UsableSession
  <2>2. CASE stored # None
    BY <1>6, <2>1, <2>2, ObtainedKeepsIInv DEF Recheck
  <2>3. CASE stored = None
    <3>1. leader = p
      BY <1>6 DEF Recheck, IInv, LeaderHoldsLock, LeaderSteps
    <3> QED
      BY <1>6, <2>1, <2>3, <3>1, StayingKeepsIInv DEF Recheck, Goto, LeaderSteps
  <2> QED
    BY <2>2, <2>3
<1>7. ASSUME NEW p \in Process, ReloadPending(p) PROVE IInv'
  BY <1>7, LeavingKeepsIInv DEF ReloadPending, UsableSession, Goto, Pc, LeaderSteps
<1>8. ASSUME NEW p \in Process, OpenBrowser(p) PROVE IInv'
  <2>1. leader = p
    BY <1>8 DEF OpenBrowser, IInv, LeaderHoldsLock, LeaderSteps
  <2>2. UsableSession' = UsableSession
    BY <1>8 DEF OpenBrowser, UsableSession
  <2> QED
    BY <1>8, <2>1, <2>2, StayingKeepsIInv DEF OpenBrowser, Goto, LeaderSteps
<1>9. ASSUME NEW p \in Process, Callback(p) PROVE IInv'
  <2>1. leader = p /\ UsableSession = None
    BY <1>9 DEF Callback, IInv, LeaderRecordsItsOwnSession
  <2>2. UsableSession' = UsableSession
    BY <1>9 DEF Callback, UsableSession
  <2> QED
    BY <1>9, <2>1, <2>2, StayingKeepsIInv DEF Callback, Goto, LeaderSteps
<1>10. ASSUME NEW p \in Process, RecordPending(p) PROVE IInv'
  <2>1. leader = p /\ leader' = p /\ pc' = [pc EXCEPT ![p] = "poll"]
    BY <1>10 DEF RecordPending, Goto, IInv, LeaderRecordsItsOwnSession
  <2>2. pc' \in [Process -> Pc]
    BY <2>1 DEF IInv, Pc
  <2>3. \A q \in Process : pc'[q] \notin LeaderSteps
    BY <2>1 DEF IInv, LeaderHoldsLock, LeaderSteps
  <2> QED
    BY <2>2, <2>3 DEF IInv, LeaderHoldsLock, LeaderRecordsItsOwnSession, LeaderSteps
<1>11. ASSUME NEW p \in Process, PollApproved(p) PROVE IInv'
  BY <1>11, LeavingKeepsIInv DEF PollApproved, UsableSession, Goto, Pc, LeaderSteps
<1>12. ASSUME NEW p \in Process, PollEnded(p) PROVE IInv'
  BY <1>12, LeavingKeepsIInv DEF PollEnded, UsableSession, Goto, Pc, LeaderSteps
<1>13. ASSUME NEW p \in Process, PollDeadline(p) PROVE IInv'
  BY <1>13, EndRunKeepsIInv DEF PollDeadline, UsableSession
<1>14. ASSUME NEW p \in Process, StoreCredential(p) PROVE IInv'
  BY <1>14, ObtainedKeepsIInv DEF StoreCredential, UsableSession
<1>15. ASSUME NEW p \in Process, ForgetPending(p) PROVE IInv'
  BY <1>15, EndRunKeepsIInv DEF ForgetPending, UsableSession
<1>16. ASSUME NEW p \in Process, PolicyAccepted(p) PROVE IInv'
  BY <1>16, EndRunKeepsIInv DEF PolicyAccepted, UsableSession
<1>17. ASSUME NEW p \in Process, PolicyRejected(p) PROVE IInv'
  <2>1. UsableSession' = UsableSession
    BY <1>17 DEF PolicyRejected, UsableSession
  <2> QED
    BY <1>17, <2>1, EndRunKeepsIInv, LeavingKeepsIInv
    DEF PolicyRejected, Goto, Pc, LeaderSteps
<1>18. ASSUME NEW p \in Process, ForgetCredential(p) PROVE IInv'
  <2>1. UsableSession' = UsableSession
    BY <1>18 DEF ForgetCredential, UsableSession
  <2> QED
    BY <1>18, <2>1, EndRunKeepsIInv, LeavingKeepsIInv
    DEF ForgetCredential, Goto, Pc, LeaderSteps
<1>19. ASSUME NEW p \in Process, NoBrowser(p) PROVE IInv'
  BY <1>19, EndRunKeepsIInv DEF NoBrowser, UsableSession
<1>20. ASSUME NEW p \in Process, Dies(p) PROVE IInv'
  BY <1>20, EndRunKeepsIInv DEF Dies, UsableSession
<1>21. ASSUME UNCHANGED <<pc, leader>>, UsableSession = None => UsableSession' = None
       PROVE  IInv'
  BY <1>21 DEF IInv, LeaderHoldsLock, LeaderRecordsItsOwnSession
<1>22. ASSUME NEW s, SessionExpires(s) PROVE IInv'
  BY <1>21, <1>22 DEF SessionExpires, UsableSession
<1>23. ASSUME NEW s, UserApproves(s) \/ CredentialRevoked(s) PROVE IInv'
  BY <1>21, <1>23 DEF UserApproves, CredentialRevoked, UsableSession
<1>24. CASE ResetHostState
  BY <1>21, <1>24 DEF ResetHostState, UsableSession
<1>25. CASE UNCHANGED vars
  BY <1>21, <1>25 DEF vars, UsableSession
<1> QED
  BY <1>1, <1>2, <1>3, <1>4, <1>5, <1>6, <1>7, <1>8, <1>9, <1>10, <1>11, <1>12, <1>13,
     <1>14, <1>15, <1>16, <1>17, <1>18, <1>19, <1>20, <1>22, <1>23, <1>24, <1>25
  DEF Next, Run

(* While a process waits for the user to approve in the browser it opened, it
   is the leader and no other session is or becomes the pending one
   (enrollment.py, _enroll_host_credential).                                 *)
THEOREM LeaderExclusive == Spec => []LeaderRecordsItsOwnSession
<1>1. IInv => LeaderRecordsItsOwnSession
  BY DEF IInv
<1> QED
  BY <1>1, InitIInv, InductiveStep, PTL DEF Spec
-----------------------------------------------------------------------------
(* Before a run has asked: it opens no browser but the one of OpenBrowser, at
   the end of these steps, and comes back to them once, when its credential was
   rejected for the first time.                                                *)
NotAskedYet == {"off", "load", "lock", "follow", "recheck", "reload"}

BrowsersCounted ==
  \A p \in Process :
    /\ opened[p] <= IF retried[p] THEN 2 ELSE 1
    /\ pc[p] \in NotAskedYet => opened[p] <= IF retried[p] THEN 1 ELSE 0
    /\ pc[p] = "forget credential" => ~retried[p]

RunsOK ==
  /\ leader \in Process \cup {NoProcess}
  /\ pc \in [Process -> Pc]
  /\ session \in [Process -> Session \cup {None}]
  /\ credential \in [Process -> Session \cup {None}]
  /\ retried \in [Process -> BOOLEAN]
  /\ opened \in [Process -> Nat]
  /\ BrowsersCounted

SharedOK ==
  /\ stored \in Session \cup {None}
  /\ pending \in Session \cup {None}
  /\ browsers \in 0 .. MaxBrowsers
  /\ approved \subseteq 1 .. browsers
  /\ consumed \subseteq approved
  /\ expired \subseteq 1 .. browsers
  /\ revoked \subseteq consumed
  /\ needed \in Nat /\ mishaps \in Nat

LEMMA TypesAreBoth == TypeOK /\ BrowsersCounted <=> RunsOK /\ SharedOK
  BY DEF TypeOK, RunsOK, SharedOK

(* A run that ends leaves nothing behind. *)
LEMMA EndedRunIsOK ==
  ASSUME RunsOK, NEW p \in Process, EndRun(p) PROVE RunsOK'
<1>1. /\ leader' \in Process \cup {NoProcess}
      /\ pc' \in [Process -> Pc]
      /\ session' \in [Process -> Session \cup {None}]
      /\ credential' \in [Process -> Session \cup {None}]
      /\ retried' \in [Process -> BOOLEAN]
      /\ opened' \in [Process -> Nat]
  BY DEF RunsOK, EndRun, Goto, Release, Pc
<1>2. pc'[p] = "off" /\ opened'[p] = 0
  BY DEF RunsOK, EndRun, Goto
<1>3. \A q \in Process \ {p} :
        pc'[q] = pc[q] /\ opened'[q] = opened[q] /\ retried'[q] = retried[q]
  BY DEF RunsOK, EndRun, Goto
<1>4. BrowsersCounted'
  <2>1. /\ opened'[p] <= IF retried'[p] THEN 2 ELSE 1
        /\ opened'[p] <= IF retried'[p] THEN 1 ELSE 0
        /\ pc'[p] # "forget credential"
    BY <1>2
  <2>2. ASSUME NEW q \in Process \ {p}
        PROVE  /\ opened'[q] <= IF retried'[q] THEN 2 ELSE 1
               /\ pc'[q] \in NotAskedYet => opened'[q] <= IF retried'[q] THEN 1 ELSE 0
               /\ pc'[q] = "forget credential" => ~retried'[q]
    BY <1>3, <2>2 DEF RunsOK, BrowsersCounted
  <2> QED
    BY <2>1, <2>2 DEF BrowsersCounted
<1> QED
  BY <1>1, <1>4 DEF RunsOK

(* A run that has a credential has asked before, if at all. *)
LEMMA ObtainedRunIsOK ==
  ASSUME RunsOK, NEW p \in Process, NEW c \in Session \cup {None}, Obtained(p, c) PROVE RunsOK'
<1>1. CASE KindOf[p] = "enroll"
  BY <1>1, EndedRunIsOK DEF Obtained
<1>2. CASE KindOf[p] # "enroll"
  BY <1>2 DEF Obtained, RunsOK, BrowsersCounted, Goto, Release, Pc, NotAskedYet
<1> QED
  BY <1>1, <1>2

(* A step from the part before the browser to itself, or from anywhere to a step
   after it.                                                                      *)
LEMMA OtherStepIsOK ==
  ASSUME RunsOK, NEW p \in Process, NEW step \in Pc \ {"forget credential"},
         pc' = [pc EXCEPT ![p] = step],
         step \in NotAskedYet => pc[p] \in NotAskedYet,
         leader' \in Process \cup {NoProcess},
         session' \in [Process -> Session \cup {None}],
         credential' \in [Process -> Session \cup {None}],
         UNCHANGED <<retried, opened>>
  PROVE  RunsOK'
  BY DEF RunsOK, BrowsersCounted, NotAskedYet, Pc

LEMMA InitTypes == Init => RunsOK /\ SharedOK
<1> SUFFICES ASSUME Init PROVE RunsOK /\ SharedOK
  OBVIOUS
<1>1. RunsOK
  BY DEF Init, RunsOK, BrowsersCounted, Pc, NotAskedYet, None
<1>2. SharedOK
  BY BoundsAreNat, FlagsAreBoolean DEF Init, SharedOK, Session, None
<1> QED
  BY <1>1, <1>2

(* What the processes hold stays well typed, and their browsers stay counted. *)
LEMMA RunsStayOK == RunsOK /\ SharedOK /\ [Next]_vars => RunsOK'
<1> SUFFICES ASSUME RunsOK, SharedOK, [Next]_vars PROVE RunsOK'
  OBVIOUS
<1> DEFINE Held == Session \cup {None}
<1>1. ASSUME NEW p \in Process, StartWithCredential(p) PROVE RunsOK'
  BY <1>1, ObtainedRunIsOK DEF StartWithCredential, SharedOK
<1>2. ASSUME NEW p \in Process, StartEnrollment(p) PROVE RunsOK'
  BY <1>2, OtherStepIsOK DEF StartEnrollment, RunsOK, Goto, Pc, NotAskedYet
<1>3. UsableSession \in Held
  BY DEF UsableSession, SharedOK
<1>4. ASSUME NEW p \in Process, LoadPending(p) PROVE RunsOK'
  <2>1. session' \in [Process -> Held]
    BY <1>3, <1>4 DEF LoadPending, RunsOK
  <2> QED
    BY <1>4, <2>1, OtherStepIsOK DEF LoadPending, RunsOK, Goto, Pc, NotAskedYet
<1>5. ASSUME NEW p \in Process, TryLeaderLock(p) PROVE RunsOK'
  BY <1>5, OtherStepIsOK DEF TryLeaderLock, RunsOK, Goto, Pc, NotAskedYet
<1>6. ASSUME NEW p \in Process, Follow(p) PROVE RunsOK'
  BY <1>6, EndedRunIsOK, ObtainedRunIsOK DEF Follow, SharedOK
<1>7. ASSUME NEW p \in Process, Recheck(p) PROVE RunsOK'
  <2>1. CASE stored # None
    BY <1>7, <2>1, ObtainedRunIsOK DEF Recheck, SharedOK
  <2>2. CASE stored = None
    BY <1>7, <2>2, OtherStepIsOK DEF Recheck, RunsOK, Goto, Pc, NotAskedYet
  <2> QED
    BY <2>1, <2>2
<1>8. ASSUME NEW p \in Process, ReloadPending(p) PROVE RunsOK'
  <2>1. session' \in [Process -> Held]
    BY <1>3, <1>8 DEF ReloadPending, RunsOK
  <2> QED
    BY <1>8, <2>1, OtherStepIsOK DEF ReloadPending, RunsOK, Goto, Pc, NotAskedYet
<1>9. ASSUME NEW p \in Process, OpenBrowser(p) PROVE RunsOK'
  <2>1. browsers' \in Session
    BY <1>9, BoundsAreNat DEF OpenBrowser, SharedOK, Session
  <2>2. session' \in [Process -> Held]
    BY <1>9, <2>1 DEF OpenBrowser, RunsOK
  <2>3. opened[p] <= IF retried[p] THEN 1 ELSE 0
    BY <1>9 DEF OpenBrowser, RunsOK, BrowsersCounted, NotAskedYet
  <2>4. opened' \in [Process -> Nat] /\ pc' \in [Process -> Pc]
    <3>1. opened[p] + 1 \in Nat
      BY DEF RunsOK
    <3>2. opened' \in [Process -> Nat]
      BY <1>9, <3>1 DEF OpenBrowser, RunsOK
    <3>3. pc' \in [Process -> Pc]
      BY <1>9 DEF OpenBrowser, RunsOK, Goto, Pc
    <3> QED
      BY <3>2, <3>3
  <2>5. opened'[p] <= IF retried[p] THEN 2 ELSE 1
    BY <1>9, <2>3 DEF OpenBrowser, RunsOK
  <2>6. BrowsersCounted'
    BY <1>9, <2>5 DEF OpenBrowser, RunsOK, BrowsersCounted, NotAskedYet, Goto
  <2> QED
    BY <1>9, <2>2, <2>4, <2>6 DEF OpenBrowser, RunsOK
<1>10. ASSUME NEW p \in Process, Callback(p) PROVE RunsOK'
  BY <1>10, OtherStepIsOK DEF Callback, RunsOK, Goto, Pc, NotAskedYet
<1>11. ASSUME NEW p \in Process, RecordPending(p) PROVE RunsOK'
  <2>1. session' \in [Process -> Held]
    BY <1>3, <1>11 DEF RecordPending, RunsOK
  <2> QED
    BY <1>11, <2>1, OtherStepIsOK DEF RecordPending, RunsOK, Goto, Pc, NotAskedYet
<1>12. ASSUME NEW p \in Process, PollApproved(p) PROVE RunsOK'
  <2>1. credential' \in [Process -> Held]
    BY <1>12 DEF PollApproved, RunsOK
  <2> QED
    BY <1>12, <2>1, OtherStepIsOK DEF PollApproved, RunsOK, Goto, Pc, NotAskedYet
<1>13. ASSUME NEW p \in Process, PollEnded(p) PROVE RunsOK'
  BY <1>13, OtherStepIsOK DEF PollEnded, RunsOK, Goto, Pc, NotAskedYet
<1>14. ASSUME NEW p \in Process,
              PollDeadline(p) \/ ForgetPending(p) \/ PolicyAccepted(p) \/ NoBrowser(p) \/ Dies(p)
       PROVE RunsOK'
  BY <1>14, EndedRunIsOK DEF PollDeadline, ForgetPending, PolicyAccepted, NoBrowser, Dies
<1>15. ASSUME NEW p \in Process, StoreCredential(p) PROVE RunsOK'
  BY <1>15, ObtainedRunIsOK DEF StoreCredential, RunsOK
<1>16. ASSUME NEW p \in Process, PolicyRejected(p) PROVE RunsOK'
  <2>1. CASE retried[p]
    BY <1>16, <2>1, EndedRunIsOK DEF PolicyRejected
  <2>2. CASE ~retried[p]
    BY <1>16, <2>2 DEF PolicyRejected, RunsOK, BrowsersCounted, Goto, Pc, NotAskedYet
  <2> QED
    BY <2>1, <2>2
<1>17. ASSUME NEW p \in Process, ForgetCredential(p) PROVE RunsOK'
  <2>1. CASE KindOf[p] = "collect"
    BY <1>17, <2>1, EndedRunIsOK DEF ForgetCredential
  <2>2. CASE KindOf[p] # "collect"
    <3>1. UNCHANGED <<leader, session, opened>>
      BY <1>17, <2>2 DEF ForgetCredential
    <3>2. /\ pc' \in [Process -> Pc] /\ retried' \in [Process -> BOOLEAN]
          /\ credential' \in [Process -> Held]
      BY <1>17, <2>2 DEF ForgetCredential, RunsOK, Goto, Pc
    <3>3. opened[p] <= 1
      BY <1>17 DEF ForgetCredential, RunsOK, BrowsersCounted
    <3>4. retried'[p] /\ pc'[p] = "load" /\ opened'[p] <= 1
      BY <1>17, <2>2, <3>1, <3>3 DEF ForgetCredential, RunsOK, Goto
    <3>5. \A q \in Process \ {p} :
            pc'[q] = pc[q] /\ opened'[q] = opened[q] /\ retried'[q] = retried[q]
      BY <1>17, <2>2, <3>1 DEF ForgetCredential, RunsOK, Goto
    <3>6. opened[p] \in Nat
      BY DEF RunsOK
    <3>7. opened'[p] <= 2
      BY <3>1, <3>3, <3>6
    <3>8. BrowsersCounted'
      BY <3>4, <3>5, <3>7 DEF RunsOK, BrowsersCounted
    <3> QED
      BY <3>1, <3>2, <3>8 DEF RunsOK
  <2> QED
    BY <2>1, <2>2
<1>18. ASSUME UNCHANGED <<leader, run>> PROVE RunsOK'
  BY <1>18 DEF run, RunsOK, BrowsersCounted
<1>19. ASSUME NEW s, UserApproves(s) \/ SessionExpires(s) \/ CredentialRevoked(s) PROVE RunsOK'
  BY <1>18, <1>19 DEF UserApproves, SessionExpires, CredentialRevoked
<1>20. CASE ResetHostState
  BY <1>18, <1>20 DEF ResetHostState
<1>21. CASE UNCHANGED vars
  BY <1>18, <1>21 DEF vars
<1> QED
  BY <1>1, <1>2, <1>4, <1>5, <1>6, <1>7, <1>8, <1>9, <1>10, <1>11, <1>12, <1>13, <1>14,
     <1>15, <1>16, <1>17, <1>19, <1>20, <1>21
  DEF Next, Run

(* So do the state file and what is known of the service. *)
LEMMA SharedStaysOK == RunsOK /\ SharedOK /\ [Next]_vars => SharedOK'
<1> SUFFICES ASSUME RunsOK, SharedOK, [Next]_vars PROVE SharedOK'
  OBVIOUS
<1> USE DEF state, service, history
<1>1. ASSUME UNCHANGED <<state, browsers, service>>, needed' \in Nat, mishaps' \in Nat
      PROVE  SharedOK'
  BY <1>1 DEF SharedOK
<1>2. ASSUME NEW p \in Process,
             \/ StartWithCredential(p) \/ StartEnrollment(p) \/ LoadPending(p)
             \/ TryLeaderLock(p) \/ Follow(p) \/ Recheck(p) \/ ReloadPending(p)
             \/ Callback(p) \/ PollEnded(p) \/ PollDeadline(p)
             \/ PolicyAccepted(p) \/ PolicyRejected(p)
      PROVE  SharedOK'
  BY <1>1, <1>2 DEF SharedOK, StartWithCredential, StartEnrollment, LoadPending, TryLeaderLock,
     Follow, Recheck, ReloadPending, Callback, PollEnded, PollDeadline, PolicyAccepted,
     PolicyRejected
<1>3. ASSUME NEW p \in Process, OpenBrowser(p) PROVE SharedOK'
  BY <1>3, BoundsAreNat DEF OpenBrowser, SharedOK
<1>4. ASSUME NEW p \in Process, RecordPending(p) PROVE SharedOK'
  <2>1. pending' \in Session \cup {None}
    BY <1>4 DEF RecordPending, UsableSession, SharedOK, RunsOK
  <2> QED
    BY <1>4, <2>1 DEF RecordPending, SharedOK
<1>5. ASSUME NEW p \in Process, PollApproved(p) PROVE SharedOK'
  BY <1>5 DEF PollApproved, StillApproved, SharedOK
<1>6. ASSUME NEW p \in Process, StoreCredential(p) PROVE SharedOK'
  <2>1. stored' \in Session \cup {None}
    BY <1>6 DEF StoreCredential, RunsOK
  <2> QED
    BY <1>6, <2>1 DEF StoreCredential, SharedOK
<1>7. ASSUME NEW p \in Process, ForgetPending(p) \/ ForgetCredential(p) PROVE SharedOK'
  BY <1>7 DEF ForgetPending, ForgetCredential, SharedOK
<1>8. ASSUME NEW p \in Process, NoBrowser(p) PROVE SharedOK'
  <2>1. needed' \in Nat /\ mishaps' \in Nat
    <3>1. needed' = needed /\ mishaps' = mishaps + 1
      BY <1>8 DEF NoBrowser, Happens
    <3> QED
      BY <3>1 DEF SharedOK
  <2> QED
    BY <1>1, <1>8, <2>1 DEF NoBrowser
<1>9. ASSUME NEW p \in Process, Dies(p) PROVE SharedOK'
  <2>1. needed' \in Nat /\ mishaps' \in Nat
    BY <1>9 DEF Dies, Happens, AskAgain, SharedOK
  <2>2. consumed' \subseteq approved /\ consumed \subseteq consumed'
    BY <1>9 DEF Dies, StillApproved, SharedOK
  <2> QED
    BY <1>9, <2>1, <2>2 DEF Dies, SharedOK
<1>10. ASSUME NEW s \in 1 .. browsers, UserApproves(s) PROVE SharedOK'
  BY <1>10 DEF UserApproves, SharedOK
<1>11. ASSUME NEW s \in 1 .. browsers, SessionExpires(s) PROVE SharedOK'
  BY <1>11 DEF SessionExpires, Happens, AskAgain, SharedOK
<1>12. ASSUME NEW s \in 1 .. browsers, CredentialRevoked(s) PROVE SharedOK'
  BY <1>12 DEF CredentialRevoked, Happens, AskAgain, SharedOK
<1>13. CASE ResetHostState
  BY <1>13 DEF ResetHostState, Happens, AskAgain, SharedOK
<1>14. CASE UNCHANGED vars
  BY <1>1, <1>14 DEF vars, SharedOK
<1> QED
  BY <1>2, <1>3, <1>4, <1>5, <1>6, <1>7, <1>8, <1>9, <1>10, <1>11, <1>12, <1>13, <1>14
  DEF Next, Run

LEMMA RunsInvariance == Spec => [](RunsOK /\ SharedOK)
  BY InitTypes, RunsStayOK, SharedStaysOK, PTL DEF Spec

(* The state file, the service and what every process holds keep their types. *)
THEOREM EnrollmentTypes == Spec => []TypeOK
<1>1. RunsOK /\ SharedOK => TypeOK
  BY TypesAreBoth
<1> QED
  BY <1>1, RunsInvariance, PTL

(* A run of ensure or enroll asks the user once, and once more only after the
   service rejected its credential (_run_host_enrollment retries once), whatever
   other processes do and whatever is lost.                                      *)
THEOREM AsksTwiceAtMost == Spec => []RunAsksTwiceAtMost
<1>1. RunsOK /\ SharedOK => RunAsksTwiceAtMost
  BY DEF RunsOK, BrowsersCounted, RunAsksTwiceAtMost
<1> QED
  BY <1>1, RunsInvariance, PTL
=============================================================================
