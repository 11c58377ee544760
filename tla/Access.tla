-------------------------------- MODULE Access --------------------------------
(***************************************************************************)
(* SecretStore and what SettingsController shows of it: whether the        *)
(* keychain has an access token for the gateway and for Git.  QtKeychain   *)
(* does one job after the other and answers each on the GUI thread.        *)
(***************************************************************************)
EXTENDS Parts

Secrets == {"gateway.token", "git.credential"}

\* has() of the controller, its update of an entry, and the write of the token
\* that AppContext found in the configuration of OpenClaw.
Jobs == [op : {"has", "update", "detected"}, secret : Secrets]
Job(op, s) == [op |-> op, secret |-> s]

VARIABLES
  keychain,   \* the entries that hold a value
  jobs,       \* QtKeychain's queue
  configured, \* gatewayAccessConfigured_, gitAccessConfigured_
  locked      \* the keychain refuses every access

accessVars == <<keychain, jobs, configured, locked>>

\* SettingsController is constructed before AppContext looks for a token.
Started(token) ==
  <<Job("has", "gateway.token"), Job("has", "git.credential")>>
    \o IF token THEN <<Job("detected", "gateway.token")>> ELSE <<>>

AccessInit ==
  /\ keychain \in IF "access" \in present THEN SUBSET Secrets ELSE {{}}
  /\ configured = {}
  /\ IF "access" \in present
     THEN locked \in BOOLEAN /\ \E token \in BOOLEAN : jobs = Started(token)
     ELSE locked = FALSE /\ jobs = <<>>

\* updateGatewayAccess, updateGitAccess with a value write() accepts; others are
\* answered with an error and change nothing.
UpdateAccess(s) ==
  /\ Spend("access")
  /\ jobs' = Append(jobs, Job("update", s))
  /\ UNCHANGED <<keychain, configured, locked>>

\* The continuation of write(): only the controller's asks has() again, and only
\* if the write succeeded.
AskedAgain(job, done) ==
  IF job.op = "update" /\ done THEN <<Job("has", job.secret)>> ELSE <<>>

\* A job ends.  has() is FALSE for a missing entry, and so is the flag when the
\* keychain cannot be read.
JobFinished ==
  /\ jobs # <<>>
  /\ LET job == Head(jobs)
     IN  /\ jobs' = Tail(jobs) \o AskedAgain(job, ~locked)
         /\ keychain' = IF job.op # "has" /\ ~locked
                        THEN keychain \cup {job.secret} ELSE keychain
         /\ configured' = IF job.op # "has" THEN configured
                          ELSE IF job.secret \in keychain /\ ~locked
                               THEN configured \cup {job.secret}
                               ELSE configured \ {job.secret}
  /\ Free
  /\ UNCHANGED locked

\* The user unlocks the keychain.
Unlock ==
  /\ Spend("access")
  /\ locked
  /\ locked' = FALSE
  /\ UNCHANGED <<keychain, jobs, configured>>

AccessNext == (\E s \in Secrets : UpdateAccess(s)) \/ JobFinished \/ Unlock

-----------------------------------------------------------------------------
AccessTypeOK ==
  /\ keychain \in SUBSET Secrets
  /\ jobs \in Seq(Jobs)
  /\ configured \in SUBSET Secrets
  /\ locked \in BOOLEAN
=============================================================================
