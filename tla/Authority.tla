----------------------------- MODULE Authority -----------------------------
(***************************************************************************)
(* The signing authority's directory (ca/fileca, cmd/innerwall/ca.go) and  *)
(* the control planes that start from it (cmd/innerwall/serve.go): the     *)
(* root key and certificate, the gateway's server key and certificate, and *)
(* the commands that write them, each of which may run beside another or   *)
(* be killed between two of its writes.  A started control plane signs     *)
(* workload credentials, and the gateway's interceptor admits them         *)
(* (gateway/auth.go).                                                      *)
(*                                                                         *)
(* A key is a number, a certificate the key it is for, the root that       *)
(* signed it and, where it matters, its validity.                          *)
(***************************************************************************)
EXTENDS Integers, FiniteSets

CONSTANTS
  Procs,            \* command processes: init, issue-server, serve
  RootTTL,          \* lifetime of a root
  LeafTTL,          \* lifetime of a workload credential
  CredentialGrace,  \* renewal grace
  Backdating,       \* BackdateNotBefore
  MaxKeys,          \* bound: keys generated
  MaxNow            \* bound: time

VARIABLES
  now,              \* the control plane's clock
  files,            \* the directory: file name to content
  run,              \* process to its command, program counter and locals
  keys,             \* keys generated
  leaves,           \* workload credentials signed
  torn              \* whether the server pair's renames were interrupted or overlapped

authorityVars == <<now, files, run, keys, leaves, torn>>

Absent == [key |-> 0]

Idle == [cmd |-> "", pc |-> "idle", root |-> Absent, staged |-> Absent, cert |-> Absent]

AuthorityInit ==
  /\ now = 0 /\ keys = 0 /\ leaves = {} /\ torn = FALSE
  /\ files = [f \in {"ca.key", "ca.crt", "server.key", "server.crt"} |-> Absent]
  /\ run = [p \in Procs |-> Idle]

Goes(p, pc) == run' = [run EXCEPT ![p].pc = pc]
Ends(p) == run' = [run EXCEPT ![p] = Idle]
Generate == keys < MaxKeys /\ keys' = keys + 1

------------------------------------------------------------------------------
(* Commands.  runServe is given --init-ca or not; the authority it finds   *)
(* is the same.                                                            *)

Begin(p) ==
  /\ run[p].pc = "idle"
  /\ \E c \in {"init", "issue-server", "serve", "serve --init-ca"} :
       run' = [run EXCEPT ![p].cmd = c, ![p].pc = IF c \in {"init", "serve --init-ca"} THEN "stat" ELSE "open"]
  /\ UNCHANGED <<now, files, keys, leaves, torn>>

(* Init refuses a directory that holds either file; serve takes that for   *)
(* an authority that is there.                                             *)
Stat(p) ==
  /\ run[p].pc = "stat"
  /\ IF files["ca.key"] # Absent \/ files["ca.crt"] # Absent
     THEN IF run[p].cmd = "init" THEN Ends(p) ELSE Goes(p, "open")
     ELSE Goes(p, "root key")
  /\ UNCHANGED <<now, files, keys, leaves, torn>>

(* Mutant: the files are created over what is there.                       *)
MutWriteExclusive(p, name, content, next) ==
  files' = [files EXCEPT ![name] = content] /\ run' = [run EXCEPT ![p] = next]

(* A file is created, or the command fails because it exists.              *)
writeExclusive(p, name, content, next) ==
  IF files[name] = Absent THEN files' = [files EXCEPT ![name] = content] /\ run' = [run EXCEPT ![p] = next]
  ELSE Ends(p) /\ UNCHANGED files

(* Init generates its key, then writes both files.                         *)
WriteRootKey(p) ==
  LET root == [key |-> keys + 1, from |-> now - Backdating, to |-> now + RootTTL] IN
  /\ run[p].pc = "root key" /\ Generate
  /\ writeExclusive(p, "ca.key", [key |-> keys + 1], [run[p] EXCEPT !.pc = "root cert", !.root = root])
  /\ UNCHANGED <<now, leaves, torn>>

WriteRootCert(p) ==
  /\ run[p].pc = "root cert" /\ writeExclusive(p, "ca.crt", run[p].root, [run[p] EXCEPT !.pc = "open"])
  /\ UNCHANGED <<now, keys, leaves, torn>>

(* Open: both files, and the pair must match.  What follows is a server    *)
(* certificate for init and issue-server, and the listener's for serve,    *)
(* whose authority is new only when the root is its own.                   *)
Open(p) ==
  /\ run[p].pc = "open"
  /\ IF \/ files["ca.key"] = Absent \/ files["ca.crt"] = Absent
        \/ files["ca.key"].key # files["ca.crt"].key
     THEN Ends(p)
     ELSE run' = [run EXCEPT ![p].pc = IF run[p].cmd = "serve" \/ (run[p].cmd = "serve --init-ca" /\ run[p].root = Absent)
                                       THEN "load cert" ELSE "issue",
                             ![p].root = files["ca.crt"]]
  /\ UNCHANGED <<now, files, keys, leaves, torn>>

Staged(p) ==
  /\ Generate
  /\ run' = [run EXCEPT ![p].pc = "rename key", ![p].staged = [key |-> keys + 1, root |-> run[p].root.key]]
  /\ UNCHANGED files

(* The new pair is staged in full beside the current one; a failure here   *)
(* leaves the directory as it was.                                         *)
IssueServerCertificate(p) ==
  /\ run[p].pc = "issue"
  /\ Staged(p) \/ (Ends(p) /\ UNCHANGED <<keys, files>>)
  /\ UNCHANGED <<now, leaves, torn>>

Renaming(p) == run[p].pc = "rename cert"

replaceKey(p) ==
  /\ run[p].pc = "rename key"
  /\ files' = [files EXCEPT !["server.key"] = [key |-> run[p].staged.key]]
  /\ Goes(p, "rename cert")
  /\ torn' = \E q \in Procs \ {p} : Renaming(q)
  /\ UNCHANGED <<now, keys, leaves>>

replaceCert(p) ==
  /\ Renaming(p) /\ files' = [files EXCEPT !["server.crt"] = run[p].staged]
  /\ IF run[p].cmd = "serve --init-ca" THEN Goes(p, "load cert") ELSE Ends(p)
  /\ UNCHANGED <<now, keys, leaves, torn>>

(* LoadX509KeyPair reads the certificate and then the key, and refuses a   *)
(* pair that does not match.                                               *)
LoadCert(p) ==
  /\ run[p].pc = "load cert"
  /\ IF files["server.crt"] = Absent THEN Ends(p)
     ELSE run' = [run EXCEPT ![p].pc = "load key", ![p].cert = files["server.crt"]]
  /\ UNCHANGED <<now, files, keys, leaves, torn>>

LoadKey(p) ==
  /\ run[p].pc = "load key"
  /\ IF files["server.key"].key # run[p].cert.key THEN Ends(p) ELSE Goes(p, "up")
  /\ UNCHANGED <<now, files, keys, leaves, torn>>

(* A process is killed, or a control plane stops.  Between its renames     *)
(* the pair is left torn.                                                  *)
Killed(p) ==
  /\ run[p].pc # "idle" /\ Ends(p) /\ torn' = (torn \/ Renaming(p))
  /\ UNCHANGED <<now, files, keys, leaves>>

------------------------------------------------------------------------------
(* Workload credentials.                                                   *)

Outlives(to, root) == to > root.to

(* Sign, by a control plane that is up.                                    *)
Sign(p) ==
  /\ run[p].pc = "up" /\ ~Outlives(now + LeafTTL, run[p].root)
  /\ leaves' = leaves \cup {[root |-> run[p].root, from |-> now - Backdating, to |-> now + LeafTTL]}
  /\ UNCHANGED <<now, files, run, keys, torn>>

Admit(c, renewal) ==
  /\ now >= c.from
  /\ now <= c.to \/ (renewal /\ now - c.to <= CredentialGrace)

(* The chain must verify as of the leaf's expiry and stand now; the leaf   *)
(* is judged by what it calls.                                             *)
verifyChain(p, leaf) ==
  /\ leaf.root = run[p].root /\ leaf.root.from <= leaf.to /\ leaf.to <= leaf.root.to

authenticate(p, leaf, method) ==
  /\ verifyChain(p, leaf) /\ Admit(leaf.root, FALSE) /\ Admit(leaf, method = "renew")

Tick == now < MaxNow /\ now' = now + 1 /\ UNCHANGED <<files, run, keys, leaves, torn>>

AuthorityNext ==
  \/ Tick
  \/ \E p \in Procs :
       \/ Begin(p) \/ Stat(p) \/ WriteRootKey(p) \/ WriteRootCert(p) \/ Open(p)
       \/ IssueServerCertificate(p) \/ replaceKey(p) \/ replaceCert(p)
       \/ LoadCert(p) \/ LoadKey(p) \/ Killed(p) \/ Sign(p)

------------------------------------------------------------------------------

(* Every agent that trusts one control plane of the directory trusts all:  *)
(* whatever was started, killed and started again in whatever order, those *)
(* that are up present a certificate of one root, sign with that root and  *)
(* verify by it (Init refuses to overwrite, writeExclusive).               *)
OneRoot ==
  \A p, q \in {r \in Procs : run[r].pc = "up"} :
    run[p].root = run[q].root /\ run[p].cert.root = run[q].root.key

(* The server pair on disk does not match only where a kill fell between   *)
(* the renames or two commands renamed at once, and the next command that  *)
(* runs alone repairs it (the comment on replaceFiles).                    *)
PairIsRepaired ==
  ~torn /\ (\A p \in Procs : ~Renaming(p)) => files["server.key"].key = files["server.crt"].key

(* A credential any control plane of the directory signed is admitted by   *)
(* every one that is up, started before or after: to all calls while it is *)
(* valid, and to renewal for the grace beyond, as long as the root stands  *)
(* (a leaf never outlives its root, verifyChain, AdmitCredential).         *)
SignedIsAdmitted ==
  \A p \in {r \in Procs : run[r].pc = "up"}, leaf \in leaves :
    /\ now <= leaf.to => authenticate(p, leaf, "sync")
    /\ now <= leaf.to + CredentialGrace /\ now <= leaf.root.to => authenticate(p, leaf, "renew")

(* The directory survives a kill at any write: the root stands with what   *)
(* it signed, and issuing again mends a torn server pair.                  *)
DirectorySurvives == OneRoot /\ PairIsRepaired /\ SignedIsAdmitted
==============================================================================
