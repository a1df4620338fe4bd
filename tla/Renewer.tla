------------------------------- MODULE Renewer -------------------------------
(***************************************************************************)
(* The renewal schedule of a running daemon (agent/credential/holder.go)   *)
(* against the control plane's admission rule (enroll/service.go).  Time   *)
(* is kept relative: the true age of the held credential since its         *)
(* notBefore, the age the daemon has measured on its monotonic clock, and  *)
(* the error of its wall clock, which may be stepped at any moment.  The   *)
(* control plane comes and goes, and a reply may be lost after the renewal *)
(* was recorded.                                                           *)
(***************************************************************************)
EXTENDS Integers, FiniteSets

CONSTANTS
  Lifetime,         \* notAfter - notBefore, in ticks; a multiple of 3
  Backdate,         \* ca.BackdateNotBefore
  Jitter,           \* RenewJitterFraction of Lifetime
  RetryBase, RetryCap, ExpiredRetryCap,
  Grace,            \* the control plane's renewal grace
  Skews,            \* errors the host's wall clock may have
  MaxAttempt        \* bound: from here backoff is at its cap

VARIABLES
  age,              \* the held credential's true age; it stops past the grace
  measured,         \* lifeClock.age: its age on the monotonic clock
  skew,             \* wall clock minus true time
  received,         \* the credential was obtained by this run of the daemon
  state,            \* "plan", "sleep", "call"
  wait,             \* ticks left of the timer
  attempt,          \* failed attempts since the last success
  failing,          \* lastError is not empty
  up,               \* the control plane answers
  upFor,            \* ticks since it last came back
  recorded          \* true age of the credential the registry records

renewerVars ==
  <<age, measured, skew, received, state, wait, attempt, failing, up, upFor, recorded>>

Least(S) == CHOOSE x \in S : \A y \in S : x <= y
Most(S) == CHOOSE x \in S : \A y \in S : x >= y

EndOfTime == Lifetime + Grace + 2

(* The age a credential of true age a has by the wall clock when it is     *)
(* obtained, never less than zero.                                         *)
newLifeClock(a, error) == Most({0, a + error})

(* The point of the lifetime at which the first attempt is due.            *)
RenewAt == {(2 * Lifetime) \div 3 - j : j \in 0..Jitter}

(* Full jitter under a doubling ceiling.                                   *)
backoff(n, limit) == 0..Least({RetryBase * 2 ^ n, limit})

StandingAt(a) ==
  IF a <= Lifetime THEN "valid" ELSE IF a - Lifetime > Grace THEN "past-grace" ELSE "in-grace"

(* What may be called with a credential of age a.                          *)
AdmitCredential(a, renewal) ==
  \/ StandingAt(a) = "valid"
  \/ StandingAt(a) = "in-grace" /\ renewal

(* The lifecycle the operator surface shows: of the stored expiry.         *)
credentialStatus == StandingAt(recorded)

expired == age + skew >= Lifetime \/ measured >= Lifetime

RenewerInit ==
  /\ age \in {Backdate, Lifetime - 1} /\ skew \in Skews
  /\ measured = newLifeClock(age, skew) /\ recorded = age
  /\ received = FALSE /\ state = "plan" /\ wait = 0 /\ attempt = 0 /\ failing = FALSE
  /\ up = TRUE /\ upFor = 0

(* Mutant: an expired credential is retried at the ordinary cadence.       *)
MutExpiredWaits == IF attempt = 0 THEN {0} ELSE backoff(attempt, RetryCap)

(* Past expiry: at once, and then within the smaller cap.                  *)
ExpiredWaits ==
  IF attempt = 0 THEN {0} ELSE backoff(attempt, Least({RetryCap, ExpiredRetryCap}))

(* The first attempt: whichever clock says renew first.                    *)
FirstWaits == {Most({0, Least({at - (age + skew), at - measured})}) : at \in RenewAt}

(* A retry never waits past the expiry by either clock.                    *)
RetryWaits ==
  {Least({b, Lifetime - (age + skew), Lifetime - measured}) : b \in backoff(attempt, RetryCap)}

(* Run: the head of the loop, which sets the timer.                        *)
Plan ==
  /\ state = "plan" /\ state' = "sleep"
  /\ wait' \in IF expired THEN ExpiredWaits ELSE IF attempt = 0 THEN FirstWaits ELSE RetryWaits
  /\ UNCHANGED <<age, measured, skew, received, attempt, failing, up, upFor, recorded>>

Wake ==
  /\ state = "sleep" /\ wait = 0 /\ state' = "call"
  /\ UNCHANGED <<age, measured, skew, received, wait, attempt, failing, up, upFor, recorded>>

(* The registry takes the new serial and expiry before the reply is sent.  *)
RecordRenewal == recorded' = Backdate

(* The attempt succeeds: the credential is replaced and its clock started. *)
Renewed ==
  /\ state = "call" /\ up /\ AdmitCredential(age, TRUE)
  /\ RecordRenewal
  /\ age' = Backdate /\ measured' = newLifeClock(Backdate, skew) /\ received' = TRUE
  /\ attempt' = 0 /\ failing' = FALSE /\ state' = "plan"
  /\ UNCHANGED <<skew, wait, up, upFor>>

(* A failed attempt leaves the credential as it was.                       *)
RenewalFails ==
  /\ attempt' = Least({attempt + 1, MaxAttempt}) /\ failing' = TRUE /\ state' = "plan"
  /\ UNCHANGED <<age, measured, skew, received, wait>>

(* Nobody answers, or the credential is refused.                           *)
Refused ==
  /\ state = "call" /\ (~up \/ ~AdmitCredential(age, TRUE))
  /\ RenewalFails /\ UNCHANGED <<up, upFor, recorded>>

(* The renewal is recorded and the control plane goes before it answers.   *)
ReplyLost ==
  /\ state = "call" /\ up /\ AdmitCredential(age, TRUE)
  /\ RecordRenewal /\ RenewalFails
  /\ up' = FALSE /\ upFor' = 0

(* The daemon starts again over the credential on disk.                    *)
Restart ==
  /\ measured' = newLifeClock(age, skew) /\ received' = FALSE
  /\ state' = "plan" /\ wait' = 0 /\ attempt' = 0 /\ failing' = FALSE
  /\ UNCHANGED <<age, skew, up, upFor, recorded>>

(* A tick: timers are punctual, so none passes while a step is due.        *)
Tick ==
  /\ state = "sleep" /\ wait > 0 /\ age < EndOfTime
  /\ age' = age + 1 /\ measured' = measured + 1 /\ wait' = wait - 1
  /\ recorded' = recorded + 1
  /\ upFor' = IF up THEN Least({upFor + 1, ExpiredRetryCap + 1}) ELSE 0
  /\ UNCHANGED <<skew, received, state, attempt, failing, up>>

StepWall ==
  /\ skew' \in Skews
  /\ UNCHANGED <<age, measured, received, state, wait, attempt, failing, up, upFor, recorded>>

ControlPlaneMoves ==
  /\ up' = ~up /\ upFor' = 0
  /\ UNCHANGED <<age, measured, skew, received, state, wait, attempt, failing, recorded>>

RenewerNext ==
  \/ Plan \/ Wake \/ Renewed \/ Refused \/ ReplyLost \/ Restart
  \/ Tick \/ StepWall \/ ControlPlaneMoves

------------------------------------------------------------------------------

(* Whatever the wall clock reads now or read at receipt, a credential this *)
(* run obtained has its first renewal attempt by the two-thirds mark of    *)
(* its life, give or take the backdating: the last third is left for       *)
(* retries (RenewFraction, lifeClock).                                     *)
WindowIsLeft ==
  received /\ state = "sleep" /\ attempt = 0
    => age + wait <= (2 * Lifetime) \div 3 + Backdate

(* A control plane that has been back for longer than ExpiredRetryCap has  *)
(* heard from every daemon whose credential, obtained in this run, expired *)
(* within the grace: none is still expired and renewable.                  *)
InGraceRecovers ==
  received /\ upFor > ExpiredRetryCap
    => age <= Lifetime + ExpiredRetryCap \/ age > Lifetime + Grace

(* The surface sends nobody to re-enroll too soon: when the stored expiry  *)
(* reads past the grace, the credential held is refused for renewal too,   *)
(* whichever replies were lost.                                            *)
PastGraceIsRefused == credentialStatus = "past-grace" => ~AdmitCredential(age, TRUE)

(* A credential is renewed in time: tried with a third of its life left,   *)
(* recovered within the grace once the control plane is back, and given up *)
(* only past the grace.                                                    *)
RenewsInTime == WindowIsLeft /\ InGraceRecovers /\ PastGraceIsRefused
==============================================================================
