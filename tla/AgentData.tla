------------------------------- MODULE AgentData -------------------------------
(***************************************************************************)
(* The agent's data directory: `rexec-agentd ca init` mints the CA and the *)
(* server certificate into four files, internal/identity keeps agent.id,   *)
(* and serveAgent, under a service manager or in the foreground, loads all *)
(* of them.  Every file is written in place by os.WriteFile: opened with   *)
(* O_TRUNC, then written.  One action per file operation that another      *)
(* process or a death can fall between; a process may die at each of them. *)
(*                                                                         *)
(* A run of ca init makes one CA and one server key pair; the run's number *)
(* stands for both, so a file holds the number of the run it came from.    *)
(***************************************************************************)
EXTENDS Naturals

CONSTANTS
  Inits,     \* `ca init` processes
  Daemon,    \* the daemon process
  MaxRuns,   \* bound on the runs of ca init
  Ids,       \* the values uuid.NewString may return
  None,      \* no file, no value
  Torn       \* a file that was opened and not written

Procs == Inits \union {Daemon}

CAFiles == {"ca.crt", "ca.key"}
Files == CAFiles \union {"server.crt", "server.key"}

ASSUME DataAssumption ==
  /\ Daemon \notin Inits
  /\ {None, Torn} \intersect (Nat \union Ids \union Files) = {}
  /\ None # Torn
  /\ MaxRuns \in Nat

VARIABLES
  file,     \* file[f]: what file f holds
  idFile,   \* agent.id
  pc,       \* pc[p]: the step process p does next
  gen,      \* gen[p]: the run of ca init p is
  force,    \* force[p]: it was given --force
  left,     \* left[p]: files writeFiles has still to write
  opened,   \* opened[p]: the one it has open
  ident,    \* ident[p]: the agent id p has
  loaded,   \* loaded[f]: what serveAgent has read of file f
  mode,     \* how the daemon was started: as a "service", to "serve", "none" yet
  service,  \* its process: "stopped", "started", or "stopping": told to stop
  careful,  \* the operator runs one command at a time
  runs,     \* history: how many runs there have been
  told,     \* history: the ids AgentID has returned
  printed,  \* history: the run that has printed its fingerprint, if no other began to write
  unseen,   \* history: unseen[p]: p was not shown the CA that was there
  halfDone  \* history: a run that replaces a CA ended before it had written every file

initVars == <<gen, force, unseen, left, opened>>
daemonVars == <<mode, service, careful>>
history == <<runs, told, printed, halfDone>>
vars == <<file, idFile, pc, initVars, ident, loaded, daemonVars, history>>

\* The numbers of the runs.
Gens == 1 .. MaxRuns

\* The server's files, which every run mints anew.  Mutants: not the key; only
\* those that are missing.
CertOnly == {"server.crt"}
Missing == {f \in {"server.crt", "server.key"} : file[f] = None}
ServerFiles == {"server.crt", "server.key"}

Init ==
  /\ file = [f \in Files |-> None]
  /\ idFile = None
  /\ pc = [p \in Procs |-> "idle"]
  /\ gen = [p \in Inits |-> None]
  /\ force = [p \in Inits |-> FALSE]
  /\ unseen = [p \in Inits |-> FALSE]
  /\ left = [p \in Inits |-> {}]
  /\ opened = [p \in Inits |-> None]
  /\ ident = [p \in Procs |-> None]
  /\ loaded = [f \in Files |-> None]
  /\ mode = "none"
  /\ service = "stopped"
  /\ careful \in BOOLEAN
  /\ runs = 0 /\ told = {} /\ printed = None /\ halfDone = FALSE

Goto(p, step) == pc' = [pc EXCEPT ![p] = step]

\* Whether p may start: an operator who runs one command at a time lets the
\* others end, or the daemon be up, first.
Turn(p) == careful => \A q \in Procs \ {p} : pc[q] \in {"idle", "up"}

-------------------------------------------------------------------------------
(* identity.AgentID, for ca init and for serveAgent *)

\* The step after AgentID.
AfterId(p) == IF p = Daemon THEN "listen" ELSE "mint"

\* Where a process is that has failed: gone, and the goroutine of serveAgent has
\* closed done.  Mutant: that goroutine has not.
Stuck(p) == IF p = Daemon THEN "stuck" ELSE "idle"
Ended(p) == "idle"

\* agent.id is there: it is the id, unless it is empty.
ReadId(p) ==
  /\ pc[p] = "id"
  /\ idFile # None
  /\ IF idFile = Torn
     THEN Goto(p, Ended(p)) /\ UNCHANGED <<ident, told>>
     ELSE /\ Goto(p, AfterId(p))
          /\ ident' = [ident EXCEPT ![p] = idFile]
          /\ told' = told \union {idFile}
  /\ UNCHANGED <<file, idFile, initVars, loaded, daemonVars, runs, printed, halfDone>>

\* agent.id is missing: generate draws an id.
DrawId(p, i) ==
  /\ pc[p] = "id"
  /\ idFile = None
  /\ i \notin told \union {ident[q] : q \in Procs}
  /\ ident' = [ident EXCEPT ![p] = i]
  /\ Goto(p, "openId")
  /\ UNCHANGED <<file, idFile, initVars, loaded, daemonVars, history>>

\* What generate leaves in agent.id.  Mutant: nothing.
Forgotten(p) == None
Persisted(p) == ident[p]

OpenId(p) ==
  /\ pc[p] = "openId"
  /\ idFile' = Torn
  /\ Goto(p, "writeId")
  /\ UNCHANGED <<file, initVars, ident, loaded, daemonVars, history>>

WriteId(p) ==
  /\ pc[p] = "writeId"
  /\ idFile' = Persisted(p)
  /\ told' = told \union {ident[p]}
  /\ Goto(p, AfterId(p))
  /\ UNCHANGED <<file, initVars, ident, loaded, daemonVars, runs, printed, halfDone>>

-------------------------------------------------------------------------------
(* ca init *)

CaInit(p, forced) ==
  /\ pc[p] = "idle" /\ Turn(p)
  /\ runs < MaxRuns
  /\ runs' = runs + 1
  /\ gen' = [gen EXCEPT ![p] = runs']
  /\ force' = [force EXCEPT ![p] = forced]
  /\ unseen' = [unseen EXCEPT ![p] = FALSE]
  /\ ident' = [ident EXCEPT ![p] = None]
  /\ Goto(p, "check")
  /\ UNCHANGED <<file, idFile, left, opened, loaded, daemonVars, told, printed, halfDone>>

\* The file whose presence means that there is a CA.  Mutant: the other one.
CertName == "ca.crt"
KeyName == "ca.key"

\* os.Stat(ca.key) answers: without --force an existing CA is left alone.
CheckCA(p) ==
  /\ pc[p] = "check"
  /\ Goto(p, IF file[KeyName] # None /\ ~ force[p] THEN "idle" ELSE "id")
  /\ UNCHANGED <<file, idFile, initVars, ident, loaded, daemonVars, history>>

\* os.Stat fails, for whatever reason: any error is taken for a missing file.
StatFails(p) ==
  /\ pc[p] = "check"
  /\ unseen' = [unseen EXCEPT ![p] = file[KeyName] # None]
  /\ Goto(p, "id")
  /\ UNCHANGED <<file, idFile, gen, force, left, opened, ident, loaded, daemonVars, history>>

\* The runs that may write over a CA.
Replaces(p) == force[p] \/ unseen[p]

\* NewCA; writeFiles gets the CA's two files.
MintCA(p) ==
  /\ pc[p] = "mint"
  /\ left' = [left EXCEPT ![p] = CAFiles]
  /\ Goto(p, "caFiles")
  /\ UNCHANGED <<file, idFile, gen, force, unseen, opened, ident, loaded, daemonVars, history>>

\* writeFiles takes its files in the order of a Go map: any.
OpenFile(p, f) ==
  /\ pc[p] \in {"caFiles", "serverFiles"}
  /\ opened[p] = None /\ f \in left[p]
  /\ opened' = [opened EXCEPT ![p] = f]
  /\ file' = [file EXCEPT ![f] = Torn]
  /\ printed' = None
  /\ UNCHANGED <<idFile, pc, gen, force, unseen, left, ident, loaded, daemonVars, runs, told, halfDone>>

WriteFile(p) ==
  /\ pc[p] \in {"caFiles", "serverFiles"}
  /\ opened[p] # None
  /\ file' = [file EXCEPT ![opened[p]] = gen[p]]
  /\ left' = [left EXCEPT ![p] = @ \ {opened[p]}]
  /\ opened' = [opened EXCEPT ![p] = None]
  /\ UNCHANGED <<idFile, pc, gen, force, unseen, ident, loaded, daemonVars, history>>

\* mintServerCert signs the server certificate with the new CA.
MintServerCert(p) ==
  /\ pc[p] = "caFiles" /\ left[p] = {}
  /\ left' = [left EXCEPT ![p] = ServerFiles]
  /\ Goto(p, "serverFiles")
  /\ UNCHANGED <<file, idFile, gen, force, unseen, opened, ident, loaded, daemonVars, history>>

\* The fingerprint ca init prints, which stands for its server certificate.
\* Mutant: the id in its place.
IdInstead(p) == ident[p]
Fingerprint(p) == gen[p]

\* The end of ca init: it prints the id and the fingerprint.
Report(p) ==
  /\ pc[p] = "serverFiles" /\ left[p] = {}
  /\ printed' = Fingerprint(p)
  /\ Goto(p, "idle")
  /\ UNCHANGED <<file, idFile, initVars, ident, loaded, daemonVars, runs, told, halfDone>>

\* ca init dies, or fails to open or write a file, which ends it all the same.
InitDies(p) ==
  /\ pc[p] # "idle"
  /\ halfDone' = (halfDone \/ (Replaces(p) /\ pc[p] \in {"caFiles", "serverFiles"}))
  /\ left' = [left EXCEPT ![p] = {}]
  /\ opened' = [opened EXCEPT ![p] = None]
  /\ Goto(p, "idle")
  /\ UNCHANGED <<file, idFile, gen, force, unseen, ident, loaded, daemonVars, runs, told, printed>>

-------------------------------------------------------------------------------
(* The service adapter and serveAgent *)

\* program.Start leaves serveAgent to a goroutine and returns nil; serve calls it.
StartDaemon(m) ==
  /\ service = "stopped" /\ pc[Daemon] = "idle" /\ Turn(Daemon)
  /\ mode' = m
  /\ service' = "started"
  /\ Goto(Daemon, "ca.crt")
  /\ UNCHANGED <<file, idFile, initVars, ident, loaded, careful, history>>

\* The step of serveAgent after it has read f.
AfterRead(f) ==
  CASE f = "ca.crt" -> "ca.key"
    [] f = "ca.key" -> "server.crt"
    [] f = "server.crt" -> "server.key"
    [] f = "server.key" -> "id"

\* LoadCA decodes the certificate and the key and does not compare them.
LoadCA(cert, key) == Torn \notin {cert, key}

\* os.ReadFile, and LoadCA once both files of the CA are read.
LoadFile(f) ==
  /\ pc[Daemon] = f
  /\ loaded' = [loaded EXCEPT ![f] = file[f]]
  /\ Goto(Daemon, IF file[f] = None \/ (f = "ca.key" /\ ~ LoadCA(loaded["ca.crt"], file[f]))
                  THEN Ended(Daemon) ELSE AfterRead(f))
  /\ UNCHANGED <<file, idFile, initVars, ident, daemonVars, history>>

\* FingerprintPEM, ServerCreds, which wants the server's certificate and key to
\* match, and net.Listen.
Listen ==
  /\ pc[Daemon] = "listen"
  /\ loaded["server.crt"] # Torn
  /\ loaded["server.crt"] = loaded["server.key"]
  /\ Goto(Daemon, "up")
  /\ UNCHANGED <<file, idFile, initVars, ident, loaded, daemonVars, history>>

\* serveAgent returns an error: one of them fails, policy.yaml does not load, the
\* address is in use; a file could not be read or written; or Serve itself ends.
ServeFails ==
  /\ pc[Daemon] \in Files \union {"id", "openId", "writeId", "listen", "up"}
  /\ Goto(Daemon, Ended(Daemon))
  /\ UNCHANGED <<file, idFile, initVars, ident, loaded, daemonVars, history>>

\* program.Stop cancels the context and waits for done; in the foreground a
\* signal cancels it.
StopDaemon ==
  /\ service = "started"
  /\ service' = "stopping"
  /\ UNCHANGED <<file, idFile, pc, initVars, ident, loaded, mode, careful, history>>

\* serveAgent looks at its context only once it serves; DeployGate is about how
\* long GracefulStop takes.
Drain ==
  /\ pc[Daemon] = "up" /\ service = "stopping"
  /\ Goto(Daemon, "idle")
  /\ UNCHANGED <<file, idFile, initVars, ident, loaded, daemonVars, history>>

\* The daemon's process ends when serveAgent has: under a service manager once
\* Stop has been called, in the foreground with the error it returned as well.
MayEnd == service = "stopping" \/ (service = "started" /\ mode = "serve")

\* What the process holds goes with it.
ProcessEnds ==
  /\ service' = "stopped"
  /\ mode' = "none"
  /\ loaded' = [f \in Files |-> None]
  /\ ident' = [ident EXCEPT ![Daemon] = None]
  /\ Goto(Daemon, "idle")
  /\ UNCHANGED <<file, idFile, initVars, careful, history>>

Stopped == MayEnd /\ pc[Daemon] = "idle" /\ ProcessEnds

DaemonDies == service # "stopped" /\ ProcessEnds

-------------------------------------------------------------------------------

AgentId(p) == ReadId(p) \/ OpenId(p) \/ WriteId(p) \/ \E i \in Ids : DrawId(p, i)

ServeAgent ==
  \/ \E f \in Files : LoadFile(f)
  \/ Listen \/ ServeFails \/ Drain
  \/ AgentId(Daemon)

Next ==
  \/ \E p \in Inits :
       \/ \E forced \in BOOLEAN : CaInit(p, forced)
       \/ CheckCA(p) \/ StatFails(p) \/ AgentId(p) \/ MintCA(p)
       \/ \E f \in Files : OpenFile(p, f)
       \/ WriteFile(p) \/ MintServerCert(p) \/ Report(p) \/ InitDies(p)
  \/ \E m \in {"service", "serve"} : StartDaemon(m)
  \/ ServeAgent \/ StopDaemon \/ Stopped \/ DaemonDies

Spec == Init /\ [][Next]_vars

\* serveAgent runs, commands having an end (see DeployGate), and Stop returns
\* when done is closed.
FairSpec == Spec /\ WF_vars(ServeAgent) /\ WF_vars(Stopped)

-------------------------------------------------------------------------------

\* Every variable holds a value of its kind.
TypeOK ==
  /\ file \in [Files -> Gens \union {None, Torn}]
  /\ idFile \in Ids \union {None, Torn}
  /\ pc \in [Procs -> {"idle", "check", "id", "openId", "writeId", "mint", "caFiles",
                       "serverFiles", "listen", "up"} \union Files]
  /\ gen \in [Inits -> Gens \union {None}]
  /\ force \in [Inits -> BOOLEAN]
  /\ unseen \in [Inits -> BOOLEAN]
  /\ left \in [Inits -> SUBSET Files]
  /\ opened \in [Inits -> Files \union {None}]
  /\ ident \in [Procs -> Ids \union {None}]
  /\ loaded \in [Files -> Gens \union {None, Torn}]
  /\ mode \in {"service", "serve", "none"}
  /\ service \in {"stopped", "started", "stopping"}
  /\ careful \in BOOLEAN
  /\ runs \in 0 .. MaxRuns
  /\ told \subseteq Ids
  /\ printed \in Gens \union {None}
  /\ halfDone \in BOOLEAN

\* To an operator who runs one command at a time AgentID never returns two ids
\* (identity.go: "The ID is generated once and persisted so it survives
\* restarts"), whatever died half-way.
IdStable == careful => \A i, j \in told : i = j

\* A CA that is there is only replaced by a run with --force, or by one whose
\* os.Stat failed to see it (agentcmds.go asks for --force only when Stat returns
\* no error), whatever earlier runs left behind.
Overwritten == file["ca.key"] \in Gens /\ file'["ca.key"] # file["ca.key"]
OverwriteForced ==
  [][careful /\ Overwritten => \E p \in Inits : opened'[p] = "ca.key" /\ Replaces(p)]_vars

\* When ca init has printed its fingerprint, all four files are its own, whole,
\* whatever it found in the directory.
PrintedIsWhole == careful /\ printed # None => \A f \in Files : file[f] = printed

\* What the daemon serves with: the CA it hands to controllers verifies the
\* certificate it presents, and its key signs for that CA (enroll.go: "the
\* agent CA, so the controller can verify the agent").
Verifiable ==
  pc[Daemon] = "up" =>
    /\ loaded["ca.crt"] = loaded["server.crt"]
    /\ loaded["ca.crt"] = loaded["ca.key"]
AgentVerifiable == careful => Verifiable

\* The same, whatever ended half-way, as long as no run did that had --force or
\* was not shown the CA: any other run writes into a directory that no daemon can
\* start from, and until its last file is written none can.
VerifiableUnlessForced == ~ halfDone => AgentVerifiable

\* A daemon that is told to stop comes to its end, though serveAgent may have
\* ended before, may still be loading, or may have failed; in the foreground
\* so does one that cannot serve.
StopReturns ==
  service = "stopping" \/ (mode = "serve" /\ service = "started" /\ pc[Daemon] = "idle")
    ~> service = "stopped"

\* What service status prints: the service manager knows the process, not
\* whether serveAgent still runs in it.
StatusString == IF service = "stopped" THEN "stopped" ELSE "running"

\* Under the service manager serveAgent loads or serves until the context is
\* cancelled, so that "running" means an agent that answers, soon or now.
RunningServes ==
  StatusString = "running" /\ mode = "service" /\ service # "stopping" => pc[Daemon] # "idle"
===============================================================================
