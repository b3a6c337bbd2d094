----------------------------- MODULE Enrollment -----------------------------
(***************************************************************************)
(* Host enrollment: the processes of several plugins and sessions share    *)
(* one credential and one pending approval in the host's state file, and a *)
(* leader lock is to keep them from asking the user more than once         *)
(* (enrollment.py; _run_host_enrollment in cli.py; the credential part of  *)
(* _run_collect in traces.py; _reset_host_state in status.py).             *)
(*                                                                         *)
(* One agent host, so one credential cache key.  Every section under the   *)
(* state file's lock is one step: the lock is exclusive and the file is    *)
(* replaced atomically.  What a process read stays with it until it acts.  *)
(*                                                                         *)
(* Abstracted: an approval session is the number of the browser launch it  *)
(* comes from, and the credential it yields has the same number; the clock *)
(* of the host and of the service agree on when a session expires; policy  *)
(* content, check-ins and host configuration, which come after.            *)
(***************************************************************************)
EXTENDS Integers

CONSTANTS
  Process,       \* host-runtime processes; each one runs again and again
  NoProcess,
  KindOf,        \* "ensure", "enroll" or "collect"
  EnrolledBefore,\* the host starts out with a credential
  PollConsumes,  \* the service hands out the credential of a session once
  Mishap,        \* of "death", "no browser", "expiry", "revocation", "reset"
  MaxMishaps,    \* bound: how many of them happen
  MaxBrowsers    \* bound: browser launches

ASSUME NoProcessIsNone == NoProcess \notin Process
ASSUME KindsAreKnown == KindOf \in [Process -> {"ensure", "enroll", "collect"}]
ASSUME FlagsAreBoolean == EnrolledBefore \in BOOLEAN /\ PollConsumes \in BOOLEAN
ASSUME BoundsAreNat == MaxMishaps \in Nat /\ MaxBrowsers \in Nat \ {0}

VARIABLES
  \* host-enrollment.json, for the one cache key.
  stored,      \* the cached credential
  pending,     \* the pending approval session
  leader,      \* who holds the enrollment-leader lock
  \* Each process.
  pc,          \* what it does next
  session,     \* the session it has in hand
  credential,  \* the credential it has in hand
  retried,     \* its credential was rejected and it enrolls again
  opened,      \* browser windows this run opened
  \* The hosted service and the user.
  browsers,    \* browser launches so far: the sessions are 1 .. browsers
  approved, consumed, expired, revoked,
  \* Bookkeeping for bounds and properties.
  needed,      \* approvals the host has had reason to ask for
  mishaps

state == <<stored, pending>>
run == <<pc, session, credential, retried, opened>>
service == <<approved, consumed, expired, revoked>>
history == <<needed, mishaps>>
vars == <<state, leader, run, browsers, service, history>>

None == 0
Session == 1 .. MaxBrowsers
Pc == {"off", "load", "lock", "follow", "recheck", "reload", "browser", "record",
       "poll", "store", "forget pending", "policy", "forget credential"}

Init ==
  /\ stored = IF EnrolledBefore THEN 1 ELSE None
  /\ pending = None
  /\ leader = NoProcess
  /\ pc = [p \in Process |-> "off"]
  /\ session = [p \in Process |-> None]
  /\ credential = [p \in Process |-> None]
  /\ retried = [p \in Process |-> FALSE]
  /\ opened = [p \in Process |-> 0]
  /\ browsers = IF EnrolledBefore THEN 1 ELSE 0
  /\ approved = IF EnrolledBefore THEN {1} ELSE {}
  /\ consumed = approved
  /\ expired = {}
  /\ revoked = {}
  /\ needed = 1
  /\ mishaps = 0
-----------------------------------------------------------------------------
Goto(p, step) == pc' = [pc EXCEPT ![p] = step]

(* The with-block of the leader lock ends, whichever way. *)
Release(p) == leader' = IF leader = p THEN NoProcess ELSE leader

EndRun(p) ==
  /\ Goto(p, "off")
  /\ Release(p)
  /\ session' = [session EXCEPT ![p] = None]
  /\ credential' = [credential EXCEPT ![p] = None]
  /\ retried' = [retried EXCEPT ![p] = FALSE]
  /\ opened' = [opened EXCEPT ![p] = 0]

(* _obtain_host_credential has one.  "enroll" is done; the others ask for the
   policy with it.                                                           *)
Obtained(p, c) ==
  IF KindOf[p] = "enroll" THEN EndRun(p)
  ELSE /\ Goto(p, "policy")
       /\ Release(p)
       /\ credential' = [credential EXCEPT ![p] = c]
       /\ session' = [session EXCEPT ![p] = None]
       /\ UNCHANGED <<retried, opened>>

(* _pending_enrollment_session: an expired session is as good as none. *)
UsableSession == IF pending \in expired THEN None ELSE pending

StartWithCredential(p) ==
  /\ pc[p] = "off" /\ KindOf[p] # "enroll"
  /\ stored # None
  /\ Obtained(p, stored)
  /\ UNCHANGED <<state, browsers, service, history>>

StartEnrollment(p) ==
  /\ pc[p] = "off" /\ KindOf[p] # "collect"
  /\ stored = None
  /\ Goto(p, "load")
  /\ UNCHANGED <<state, leader, session, credential, retried, opened, browsers,
                 service, history>>

(* A pending session is polled without the leader lock. *)
LoadPending(p) ==
  /\ pc[p] = "load"
  /\ Goto(p, IF UsableSession = None THEN "lock" ELSE "poll")
  /\ session' = [session EXCEPT ![p] = UsableSession]
  /\ UNCHANGED <<state, leader, credential, retried, opened, browsers, service, history>>

(* Mistake: a lock that is held is taken anyway. *)
TakeLeaderLock(p) ==
  /\ pc[p] = "lock"
  /\ leader' = p
  /\ Goto(p, "recheck")
  /\ UNCHANGED <<state, session, credential, retried, opened, browsers, service, history>>

(* The leader lock is tried once, without waiting. *)
TryLeaderLock(p) ==
  /\ pc[p] = "lock"
  /\ \/ leader = NoProcess /\ leader' = p /\ Goto(p, "recheck")
     \/ leader # NoProcess /\ Goto(p, "follow") /\ UNCHANGED leader
  /\ UNCHANGED <<state, session, credential, retried, opened, browsers, service, history>>

(* A follower reuses the credential, if there is one by now, or defers. *)
Follow(p) ==
  /\ pc[p] = "follow"
  /\ IF stored = None THEN EndRun(p) ELSE Obtained(p, stored)
  /\ UNCHANGED <<state, browsers, service, history>>

Recheck(p) ==
  /\ pc[p] = "recheck"
  /\ \/ stored # None /\ Obtained(p, stored)
     \/ /\ stored = None
        /\ Goto(p, "reload")
        /\ UNCHANGED <<leader, session, credential, retried, opened>>
  /\ UNCHANGED <<state, browsers, service, history>>

ReloadPending(p) ==
  /\ pc[p] = "reload"
  /\ UsableSession # None
  /\ Goto(p, "poll")
  /\ session' = [session EXCEPT ![p] = UsableSession]
  /\ UNCHANGED <<state, leader, credential, retried, opened, browsers, service, history>>

(* Nothing to reuse: the browser is opened and the user asked to approve. *)
OpenBrowser(p) ==
  /\ pc[p] = "reload"
  /\ UsableSession = None
  /\ browsers < MaxBrowsers
  /\ browsers' = browsers + 1
  /\ Goto(p, "browser")
  /\ session' = [session EXCEPT ![p] = browsers']
  /\ opened' = [opened EXCEPT ![p] = @ + 1]
  /\ UNCHANGED <<state, leader, credential, retried, service, history>>

(* The browser reached the service and was sent back with the session. *)
Callback(p) ==
  /\ pc[p] = "browser"
  /\ Goto(p, "record")
  /\ UNCHANGED <<state, leader, session, credential, retried, opened, browsers, service,
                 history>>

(* _store_pending_enrollment: a usable session that is there already wins. *)
RecordPending(p) ==
  LET s == IF UsableSession = None THEN session[p] ELSE UsableSession IN
  /\ pc[p] = "record"
  /\ pending' = s
  /\ session' = [session EXCEPT ![p] = s]
  /\ Goto(p, "poll")
  /\ UNCHANGED <<stored, leader, credential, retried, opened, browsers, service, history>>
-----------------------------------------------------------------------------
(* Polling: what the service says of the session in hand. *)

Decided(s) == s \in approved \cup expired
StillApproved(s) == s \in approved /\ ~(PollConsumes /\ s \in consumed)

(* Mistake: any answer but "expired" and "consumed" is taken for an approval. *)
PollNotEnded(p) ==
  /\ pc[p] = "poll" /\ session[p] \notin expired
  /\ consumed' = consumed \cup {session[p]}
  /\ credential' = [credential EXCEPT ![p] = session[p]]
  /\ Goto(p, "store")
  /\ UNCHANGED <<state, leader, session, retried, opened, browsers, approved, expired,
                 revoked, history>>

PollApproved(p) ==
  /\ pc[p] = "poll" /\ StillApproved(session[p])
  /\ consumed' = consumed \cup {session[p]}
  /\ credential' = [credential EXCEPT ![p] = session[p]]
  /\ Goto(p, "store")
  /\ UNCHANGED <<state, leader, session, retried, opened, browsers, approved, expired,
                 revoked, history>>

(* Mistake: the user is asked again right away. *)
AskAgainAtOnce(p) ==
  /\ pc[p] = "poll" /\ Decided(session[p]) /\ ~StillApproved(session[p])
  /\ Goto(p, "lock") /\ Release(p)
  /\ UNCHANGED <<state, session, credential, retried, opened, browsers, service, history>>

(* "expired" or "consumed" *)
PollEnded(p) ==
  /\ pc[p] = "poll" /\ Decided(session[p]) /\ ~StillApproved(session[p])
  /\ Goto(p, "forget pending")
  /\ UNCHANGED <<state, leader, session, credential, retried, opened, browsers, service,
                 history>>

(* "pending" until ENROLLMENT_POLL_DEADLINE_SECONDS are over *)
PollDeadline(p) ==
  /\ pc[p] = "poll" /\ ~Decided(session[p])
  /\ EndRun(p)
  /\ UNCHANGED <<state, browsers, service, history>>

(* _store_host_credential, which drops whatever session is pending. *)
StoreCredential(p) ==
  /\ pc[p] = "store"
  /\ stored' = credential[p]
  /\ pending' = None
  /\ Obtained(p, credential[p])
  /\ UNCHANGED <<browsers, service, history>>

(* Mistake: the dead session stays in the file. *)
KeepDeadPending(p) ==
  /\ pc[p] = "forget pending"
  /\ EndRun(p)
  /\ UNCHANGED <<state, browsers, service, history>>

(* _forget_pending_enrollment drops whatever session is pending, too. *)
ForgetPending(p) ==
  /\ pc[p] = "forget pending"
  /\ pending' = None
  /\ EndRun(p)
  /\ UNCHANGED <<stored, browsers, service, history>>
-----------------------------------------------------------------------------
(* The first request that uses the credential. *)

PolicyAccepted(p) ==
  /\ pc[p] = "policy" /\ credential[p] \notin revoked
  /\ EndRun(p)
  /\ UNCHANGED <<state, browsers, service, history>>

(* HTTP 401: the first one is answered by forgetting, a second is an error. *)
PolicyRejected(p) ==
  /\ pc[p] = "policy" /\ credential[p] \in revoked
  /\ IF retried[p] THEN EndRun(p)
     ELSE /\ Goto(p, "forget credential")
          /\ UNCHANGED <<leader, session, credential, retried, opened>>
  /\ UNCHANGED <<state, browsers, service, history>>

(* _forget_cached_host_credential drops whatever credential is stored.  A
   collector stops there, ensure enrolls once more.                         *)
ForgetCredential(p) ==
  /\ pc[p] = "forget credential"
  /\ stored' = None
  /\ IF KindOf[p] = "collect" THEN EndRun(p)
     ELSE /\ Goto(p, "load")
          /\ credential' = [credential EXCEPT ![p] = None]
          /\ retried' = [retried EXCEPT ![p] = TRUE]
          /\ UNCHANGED <<leader, session, opened>>
  /\ UNCHANGED <<pending, browsers, service, history>>
-----------------------------------------------------------------------------
(* Mishaps. *)

Happens(mishap) ==
  /\ mishap \in Mishap
  /\ mishaps < MaxMishaps
  /\ mishaps' = mishaps + 1

(* After some mishaps the host has reason to ask the user once more. *)
AskAgain == needed' = needed + 1

(* webbrowser.open returns False. *)
NoBrowser(p) ==
  /\ pc[p] = "reload" /\ UsableSession = None
  /\ Happens("no browser")
  /\ EndRun(p)
  /\ UNCHANGED <<state, browsers, service, needed>>

(* The process is killed, or a request of it fails: a poll may have been
   answered nevertheless.                                                  *)
Dies(p) ==
  /\ pc[p] # "off"
  /\ Happens("death") /\ AskAgain
  /\ \/ UNCHANGED consumed
     \/ /\ pc[p] = "poll" /\ StillApproved(session[p])
        /\ consumed' = consumed \cup {session[p]}
  /\ EndRun(p)
  /\ UNCHANGED <<state, browsers, approved, expired, revoked>>

SessionExpires(s) ==
  /\ Happens("expiry") /\ AskAgain
  /\ ~Decided(s)
  /\ expired' = expired \cup {s}
  /\ UNCHANGED <<state, leader, run, browsers, approved, consumed, revoked>>

CredentialRevoked(c) ==
  /\ Happens("revocation") /\ AskAgain
  /\ c \in consumed \ revoked
  /\ revoked' = revoked \cup {c}
  /\ UNCHANGED <<state, leader, run, browsers, approved, consumed, expired>>

(* The reset command. *)
ResetHostState ==
  /\ Happens("reset") /\ AskAgain
  /\ stored' = None
  /\ pending' = None
  /\ UNCHANGED <<leader, run, browsers, service>>

UserApproves(s) ==
  /\ ~Decided(s)
  /\ approved' = approved \cup {s}
  /\ UNCHANGED <<state, leader, run, browsers, consumed, expired, revoked, history>>
-----------------------------------------------------------------------------
Run(p) ==
  \/ StartWithCredential(p) \/ StartEnrollment(p) \/ LoadPending(p)
  \/ TryLeaderLock(p) \/ Follow(p) \/ Recheck(p) \/ ReloadPending(p)
  \/ OpenBrowser(p) \/ Callback(p) \/ RecordPending(p)
  \/ PollApproved(p) \/ PollEnded(p) \/ PollDeadline(p)
  \/ StoreCredential(p) \/ ForgetPending(p)
  \/ PolicyAccepted(p) \/ PolicyRejected(p) \/ ForgetCredential(p)

Next ==
  \/ \E p \in Process : Run(p) \/ NoBrowser(p) \/ Dies(p)
  \/ \E s \in 1 .. browsers :
       UserApproves(s) \/ SessionExpires(s) \/ CredentialRevoked(s)
  \/ ResetHostState

Spec == Init /\ [][Next]_vars

(* Sessions keep starting, every wait of a process has a deadline, and the
   user answers an approval that does not expire first.                     *)
Fairness ==
  /\ \A p \in Process : WF_vars(Run(p))
  /\ \A s \in Session : WF_vars(s <= browsers /\ UserApproves(s))

FairSpec == Spec /\ Fairness
-----------------------------------------------------------------------------
TypeOK ==
  /\ stored \in Session \cup {None}
  /\ pending \in Session \cup {None}
  /\ leader \in Process \cup {NoProcess}
  /\ pc \in [Process -> Pc]
  /\ session \in [Process -> Session \cup {None}]
  /\ credential \in [Process -> Session \cup {None}]
  /\ retried \in [Process -> BOOLEAN]
  /\ opened \in [Process -> Nat]
  /\ browsers \in 0 .. MaxBrowsers
  /\ approved \subseteq 1 .. browsers
  /\ consumed \subseteq approved
  /\ expired \subseteq 1 .. browsers
  /\ revoked \subseteq consumed
  /\ needed \in Nat /\ mishaps \in Nat

(* "at most one browser approval": the user is asked no more often than there
   was reason to, however many processes find the host not enrolled.         *)
OneBrowserApproval == browsers <= needed

(* While a leader waits for the user no other session can become the pending
   one: the approval the user is looking at is the one everybody polls.      *)
LeaderRecordsItsOwnSession ==
  \A p \in Process :
    pc[p] \in {"browser", "record"} => leader = p /\ UsableSession = None

(* A run asks at most once, and once more after its credential was rejected. *)
RunAsksTwiceAtMost ==
  \A p \in Process : opened[p] <= IF retried[p] THEN 2 ELSE 1

(* Whatever was lost, rejected or expired on the way, the host ends up with a
   credential the service accepts, and keeps it.                             *)
EventuallyEnrolled == <>[](stored # None /\ stored \notin revoked)
=============================================================================
