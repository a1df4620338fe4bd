--------------------------- MODULE StateDirectory ---------------------------
(***************************************************************************)
(* The agent's state directory and the processes that use it without a     *)
(* lock (agent/credential, cmd/innerwall-agent): the daemon, which loads   *)
(* the credential once and writes each renewal, `enroll`, which replaces   *)
(* an expired one, and `renew`, run by hand while no daemon runs.  A step  *)
(* is one file read or written, one check or one call; any process may die *)
(* between two.  Enrollment n draws key n and is given identity n.         *)
(***************************************************************************)
EXTENDS Integers, Sequences, FiniteSets

CONSTANTS
  MaxEnrollments,   \* bound: enrollments begun
  MaxSerials        \* bound: certificates issued

VARIABLES
  dir,              \* the files: [key, bundle, cert]
  proc,             \* per process: [at, key, cert, reply, todo]
  enrollments,      \* keys drawn
  issued,           \* certificates issued; serials are in issue order
  stale,            \* certificates up to this serial have expired
  saved             \* the keys written since the directory was empty

directoryVars == <<dir, proc, enrollments, issued, stale, saved>>

Processes == {"daemon", "enroll", "renew"}
NoCert == [id |-> 0, key |-> 0, serial |-> 0]
Empty == [key |-> 0, bundle |-> FALSE, cert |-> NoCert]
Down == [at |-> "down", key |-> 0, cert |-> NoCert, reply |-> NoCert, todo |-> <<>>]

DirectoryInit ==
  /\ dir = Empty /\ proc = [p \in Processes |-> Down]
  /\ enrollments = 0 /\ issued = 0 /\ stale = 0 /\ saved = {}

Becomes(p, r) == proc' = [proc EXCEPT ![p] = r]
Goes(p, at) == Becomes(p, [proc[p] EXCEPT !.at = at])
Ends(p) == Becomes(p, Down)
At(p, at) == proc[p].at = at

(* A new key; the identity is the control plane's to give.                 *)
GenerateKey(p) ==
  /\ enrollments < MaxEnrollments /\ enrollments' = enrollments + 1
  /\ Becomes(p, [Down EXCEPT !.at = "call", !.key = enrollments + 1])

------------------------------------------------------------------------------
(* Reading the directory.                                                  *)

(* runEnroll: Enrollable reads the key alone first; with none it may go on. *)
runEnroll ==
  /\ At("enroll", "down") /\ enrollments < MaxEnrollments
  /\ IF dir.key = 0 THEN GenerateKey("enroll") ELSE Goes("enroll", "cert") /\ UNCHANGED enrollments
  /\ UNCHANGED <<dir, issued, stale, saved>>

(* The daemon starts, never beside a renewal by hand.                      *)
runDaemon ==
  /\ At("daemon", "down") /\ At("renew", "down") /\ Goes("daemon", "cert")
  /\ UNCHANGED <<dir, enrollments, issued, stale, saved>>

(* A renewal by hand, never beside a daemon.                               *)
runRenew ==
  /\ At("daemon", "down") /\ At("renew", "down") /\ Goes("renew", "cert")
  /\ UNCHANGED <<dir, enrollments, issued, stale, saved>>

(* Load: the certificate first.                                            *)
LoadCert(p) ==
  /\ At(p, "cert")
  /\ IF dir.cert = NoCert THEN Ends(p) ELSE Becomes(p, [proc[p] EXCEPT !.at = "key", !.cert = dir.cert])
  /\ UNCHANGED <<dir, enrollments, issued, stale, saved>>

(* Load: then the key, which must pair with it.                            *)
LoadPair(p) ==
  /\ At(p, "key") /\ IF dir.key = proc[p].cert.key THEN Goes(p, "bundle") ELSE Ends(p)
  /\ UNCHANGED <<dir, enrollments, issued, stale, saved>>

(* Load: then the bundle.  Enrollable refuses a certificate still valid.   *)
LoadBundle(p) ==
  /\ At(p, "bundle")
  /\ IF ~dir.bundle \/ (p = "enroll" /\ proc[p].cert.serial > stale) THEN Ends(p) /\ UNCHANGED enrollments
     ELSE IF p = "enroll" THEN GenerateKey(p)
     ELSE Goes(p, "loadkey") /\ UNCHANGED enrollments
  /\ UNCHANGED <<dir, issued, stale, saved>>

(* LoadKey: the key again, in a read of its own.                           *)
LoadKey(p) ==
  /\ At(p, "loadkey")
  /\ IF dir.key = 0 THEN Ends(p)
     ELSE Becomes(p, [proc[p] EXCEPT !.at = IF p = "daemon" THEN "idle" ELSE "call", !.key = dir.key])
  /\ UNCHANGED <<dir, enrollments, issued, stale, saved>>

------------------------------------------------------------------------------
(* Calling the control plane and writing its answer.                       *)

checkStoredKey == dir.key = proc["daemon"].key

(* Run: the timer fires; the daemon ends over another key.                 *)
Wake ==
  /\ At("daemon", "idle") /\ IF checkStoredKey THEN Goes("daemon", "call") ELSE Ends("daemon")
  /\ UNCHANGED <<dir, enrollments, issued, stale, saved>>

(* Save: the order of an enrollment's writes.                              *)
SaveOrder == <<"key", "bundle", "cert">>

(* ReplaceCertificate: the order of a renewal's.                           *)
ReplaceOrder == <<"bundle", "cert">>

(* Enroll: a new identity over the new key.                                *)
Enroll ==
  /\ At("enroll", "call") /\ issued < MaxSerials /\ issued' = issued + 1
  /\ LET k == proc["enroll"].key IN
     Becomes("enroll", [proc["enroll"] EXCEPT !.at = "write", !.todo = SaveOrder,
                                              !.reply = [id |-> k, key |-> k, serial |-> issued + 1]])
  /\ UNCHANGED <<dir, enrollments, stale, saved>>

(* Renew: the identity of the presented certificate over the caller's key. *)
Renew(p) ==
  /\ p # "enroll" /\ At(p, "call") /\ issued < MaxSerials /\ issued' = issued + 1
  /\ Becomes(p, [proc[p] EXCEPT !.at = IF p = "daemon" THEN "check" ELSE "write", !.todo = ReplaceOrder,
                                !.reply = [id |-> proc[p].cert.id, key |-> proc[p].key, serial |-> issued + 1]])
  /\ UNCHANGED <<dir, enrollments, stale, saved>>

(* Nobody answers in time, or the call is refused: the daemon tries again. *)
CallFails(p) ==
  /\ At(p, "call") /\ IF p = "daemon" THEN Goes(p, "idle") ELSE Ends(p)
  /\ UNCHANGED <<dir, enrollments, issued, stale, saved>>

(* Mutant: the renewed certificate is held before it is on disk.           *)
MutReplace ==
  /\ At("daemon", "check")
  /\ IF checkStoredKey
     THEN Becomes("daemon", [proc["daemon"] EXCEPT !.at = "write", !.cert = proc["daemon"].reply])
     ELSE Ends("daemon")
  /\ UNCHANGED <<dir, enrollments, issued, stale, saved>>

(* Replace: the stored key is looked at once more before the writes.       *)
Replace ==
  /\ At("daemon", "check") /\ IF checkStoredKey THEN Goes("daemon", "write") ELSE Ends("daemon")
  /\ UNCHANGED <<dir, enrollments, issued, stale, saved>>

File(p, f) ==
  CASE f = "key" -> proc[p].key [] f = "bundle" -> TRUE [] f = "cert" -> proc[p].reply

(* writeAtomic: one file, whole.  The daemon holds the new certificate in  *)
(* a step after the last write.                                            *)
writeAtomic(p) ==
  /\ At(p, "write") /\ proc[p].todo # <<>>
  /\ LET f == Head(proc[p].todo) IN
     /\ dir' = [dir EXCEPT ![f] = File(p, f)]
     /\ saved' = IF f = "key" THEN saved \cup {proc[p].key} ELSE saved
     /\ IF Len(proc[p].todo) = 1 /\ p # "daemon"
        THEN Ends(p) ELSE Becomes(p, [proc[p] EXCEPT !.todo = Tail(@)])
  /\ UNCHANGED <<enrollments, issued, stale>>

(* A write fails: the daemon keeps what it held and tries again.           *)
WriteFails(p) ==
  /\ At(p, "write") /\ proc[p].todo # <<>>
  /\ IF p = "daemon"
     THEN Becomes(p, [proc[p] EXCEPT !.at = "idle", !.reply = NoCert, !.todo = <<>>]) ELSE Ends(p)
  /\ UNCHANGED <<dir, enrollments, issued, stale, saved>>

Held ==
  /\ At("daemon", "write") /\ proc["daemon"].todo = <<>>
  /\ Becomes("daemon", [proc["daemon"] EXCEPT !.at = "idle", !.cert = proc["daemon"].reply,
                                              !.reply = NoCert])
  /\ UNCHANGED <<dir, enrollments, issued, stale, saved>>

------------------------------------------------------------------------------

Crash(p) ==
  /\ ~At(p, "down") /\ Ends(p) /\ UNCHANGED <<dir, enrollments, issued, stale, saved>>

(* Every certificate issued so far has expired.                            *)
Expire ==
  /\ stale < issued /\ stale' = issued /\ UNCHANGED <<dir, proc, enrollments, issued, saved>>

(* The operator removes the directory while nothing runs over it.          *)
RemoveDirectory ==
  /\ \A p \in Processes : At(p, "down")
  /\ dir # Empty /\ dir' = Empty /\ saved' = {}
  /\ UNCHANGED <<proc, enrollments, issued, stale>>

DirectoryNext ==
  \/ runEnroll \/ runDaemon \/ runRenew \/ Wake \/ Enroll \/ Replace \/ Held \/ Expire \/ RemoveDirectory
  \/ \E p \in Processes :
       \/ LoadCert(p) \/ LoadPair(p) \/ LoadBundle(p) \/ LoadKey(p)
       \/ Renew(p) \/ CallFails(p) \/ writeAtomic(p) \/ WriteFails(p) \/ Crash(p)

------------------------------------------------------------------------------

(* A crash between the two leaves the newer certificate on disk: the       *)
(* directory is never behind the certificate the daemon holds, however     *)
(* writes fail and processes die (Holder.Replace).                         *)
DiskIsNotBehind ==
  LET held == proc["daemon"].cert IN
  dir.cert.id = held.id /\ dir.cert.key = held.key => dir.cert.serial >= held.serial

(* A directory one enrollment has written to is whole as soon as it has a  *)
(* certificate: whichever of its writes a crash stopped, the next start    *)
(* finds either no enrollment or all of it (Store.Save, Store.Load).       *)
FirstEnrollmentLoads ==
  Cardinality(saved) <= 1 /\ dir.cert # NoCert => dir.bundle /\ dir.key = dir.cert.key

(* A start finds the newest credential the host was given: no write of a   *)
(* daemon or an enrollment, and no kill, leaves less on disk.              *)
DirectoryHolds == DiskIsNotBehind /\ FirstEnrollmentLoads
==============================================================================
